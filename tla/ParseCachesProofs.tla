-------------------------- MODULE ParseCachesProofs --------------------------
(***************************************************************************)
(* CachesAreCurrent for any files, contents, places in memory, limits of   *)
(* the caches and number of replacements.                                  *)
(***************************************************************************)
EXTENDS ParseCaches, TLAPS, SequenceTheorems

(***************************************************************************)
(* The invariant.  An entry that is known by a file is about the file as   *)
(* it was at the stamp of its key; a file has a stamp of its own for each  *)
(* content, and no entry has a stamp that is yet to come.                  *)
(***************************************************************************)
FileKeys == [path : Files, stamp : Nat]
RecordKeys == [data : Contents] \union [file : FileKeys]

TypeInv ==
    /\ clock \in Nat
    /\ file \in [Files -> [content : Contents, stamp : 0 .. clock]]
    /\ memory \in [Places -> Contents \union {None}]
    /\ records \in Seq([key : RecordKeys, result : Contents])
    /\ recovered \in Seq([key : FileKeys, result : Contents])
    /\ scanned \subseteq [key : FileKeys, result : Contents]

OfItsFile(key, result) ==
    /\ key.stamp <= clock
    /\ \A f \in Files : key = FileKey(f) => result = file[f].content

RecordIsOfItsKey(e) ==
    /\ \A c \in Contents : e.key = [data |-> c] => e.result = c
    /\ \A k \in FileKeys : e.key = [file |-> k] => OfItsFile(k, e.result)

CachesInv ==
    /\ \A e \in scanned : OfItsFile(e.key, e.result)
    /\ \A e \in ToSet(recovered) : OfItsFile(e.key, e.result)
    /\ \A e \in ToSet(records) : RecordIsOfItsKey(e)

\* What the caller holds is its file, which is not replaced as long as it does.
CallerInv ==
    caller # None =>
        /\ caller \in [at : Places, path : Files]
        /\ memory[caller.at] = file[caller.path].content

\* What a command has stored is of the files as they are, and the bytes it keeps are alive.
IsOfTheFiles(e) ==
    /\ e.key[1] = "file_bytes" => e.result \in Places /\ memory[e.result] # None
    /\ \A f \in Files : e.key = Scoped("file_bytes", FileKey(f)) =>
          e.result \in Places /\ memory[e.result] = file[f].content
    /\ \A f \in Files : e.key = Scoped("opju_records", FileKey(f)) => e.result = file[f].content
    /\ \A c \in Contents :
          e.key = Scoped("opju_column_descriptors", [data |-> c]) => e.result = c

StoreInv == store # None => \A e \in store : IsOfTheFiles(e)

Inv == TypeInv /\ CachesInv /\ CallerInv /\ StoreInv
------------------------------------------------------------------------------
(* What the operators on caches return and keep.                           *)

\* What is in a cache is an entry.
LEMMA ElementsOf ==
    ASSUME NEW E, NEW cache \in Seq(E), NEW e \in ToSet(cache)
    PROVE  e \in E
BY DEF ToSet

\* A call is given what is fresh if no entry of its key says anything else.
LEMMA FreshIsGiven ==
    ASSUME NEW entries, NEW key, NEW fresh,
           \A e \in entries : e.key = key => e.result = fresh
    PROVE  Given(entries, key, fresh) = fresh
BY DEF Given, ResultsOf

\* Dropping the oldest entry leaves entries that were there.
LEMMA BoundedKeeps ==
    ASSUME NEW E, NEW cache \in Seq(E), NEW limit \in Nat
    PROVE  /\ Bounded(cache, limit) \in Seq(E)
           /\ ToSet(Bounded(cache, limit)) \subseteq ToSet(cache)
<1>1. CASE Len(cache) > limit
  <2>1. cache # <<>>
    BY <1>1
  <2>2. Tail(cache) \in Seq(E) /\ Len(Tail(cache)) = Len(cache) - 1
    BY <2>1, HeadTailProperties
  <2>3. \A n \in 1 .. Len(Tail(cache)) : Tail(cache)[n] = cache[n + 1]
    BY <2>1, HeadTailProperties
  <2> QED BY <1>1, <2>2, <2>3 DEF Bounded, ToSet
<1>2. CASE ~(Len(cache) > limit)
  BY <1>2 DEF Bounded
<1> QED BY <1>1, <1>2

\* A new entry is at the end, and the others were there.
LEMMA AppendBounded ==
    ASSUME NEW E, NEW cache \in Seq(E), NEW e \in E, NEW limit \in Nat
    PROVE  /\ Bounded(Append(cache, e), limit) \in Seq(E)
           /\ ToSet(Bounded(Append(cache, e), limit)) \subseteq ToSet(cache) \union {e}
<1>1. Append(cache, e) \in Seq(E)
  OBVIOUS
<1>2. ToSet(Append(cache, e)) \subseteq ToSet(cache) \union {e}
  BY DEF ToSet
<1> QED BY <1>1, <1>2, BoundedKeeps

\* An entry that is used moves to the end.
LEMMA MovedToTheEnd ==
    ASSUME NEW E, NEW cache \in Seq(E), NEW n \in DOMAIN cache
    PROVE  /\ Append(RemoveAt(cache, n), cache[n]) \in Seq(E)
           /\ ToSet(Append(RemoveAt(cache, n), cache[n])) \subseteq ToSet(cache)
<1> DEFINE front == SubSeq(cache, 1, n - 1)
           back == SubSeq(cache, n + 1, Len(cache))
<1>1. n \in 1 .. Len(cache) /\ cache[n] \in E
  OBVIOUS
<1>2. front \in Seq(E) /\ \A m \in 1 .. Len(front) : front[m] \in ToSet(cache)
  BY <1>1, SubSeqProperties DEF ToSet
<1>3. back \in Seq(E) /\ \A m \in 1 .. Len(back) : back[m] \in ToSet(cache)
  BY <1>1, SubSeqProperties DEF ToSet
<1>4. RemoveAt(cache, n) = front \o back
  BY DEF RemoveAt
<1> DEFINE both == front \o back
<1> HIDE DEF front, back
<1>5. both \in Seq(E) /\ \A m \in 1 .. Len(both) : both[m] \in ToSet(cache)
  BY <1>2, <1>3, ConcatProperties
<1>6. cache[n] \in ToSet(cache)
  BY <1>1 DEF ToSet
<1> HIDE DEF both
<1>7. \A m \in 1 .. Len(both) + 1 : Append(both, cache[n])[m] \in ToSet(cache)
  BY <1>1, <1>5, <1>6, AppendProperties
<1>8. Append(both, cache[n]) \in Seq(E) /\ Len(Append(both, cache[n])) = Len(both) + 1
  BY <1>1, <1>5, AppendProperties
<1>9. ToSet(Append(both, cache[n])) \subseteq ToSet(cache)
  <2>1. ToSet(Append(both, cache[n])) = {Append(both, cache[n])[m] : m \in 1 .. Len(both) + 1}
    BY <1>8 DEF ToSet
  <2> QED BY <1>7, <2>1
<1> QED BY <1>4, <1>8, <1>9 DEF both

\* So the entries of a cache after a call are those it had and, at most, the new one.
LEMMA TouchedKeeps ==
    ASSUME NEW E, NEW cache \in Seq(E), NEW key, NEW fresh, NEW limit \in Nat,
           [key |-> key, result |-> fresh] \in E
    PROVE  /\ Touched(cache, key, fresh, limit) \in Seq(E)
           /\ ToSet(Touched(cache, key, fresh, limit)) \subseteq ToSet(cache) \union {[key |-> key, result |-> fresh]}
<1> DEFINE e == [key |-> key, result |-> fresh]
<1>1. CASE ResultsOf(ToSet(cache), key) = {}
  <2>1. Touched(cache, key, fresh, limit) = Bounded(Append(cache, e), limit)
    BY <1>1 DEF Touched
  <2>2. e \in E
    OBVIOUS
  <2> HIDE DEF e
  <2>3. /\ Bounded(Append(cache, e), limit) \in Seq(E)
        /\ ToSet(Bounded(Append(cache, e), limit)) \subseteq ToSet(cache) \union {e}
    BY <2>2, AppendBounded
  <2> QED BY <2>1, <2>3 DEF e
<1>2. CASE ResultsOf(ToSet(cache), key) # {}
  <2> DEFINE n == CHOOSE i \in DOMAIN cache : cache[i].key = key
  <2>1. n \in DOMAIN cache
    BY <1>2 DEF ResultsOf, ToSet
  <2> HIDE DEF n
  <2>2. Touched(cache, key, fresh, limit) = Append(RemoveAt(cache, n), cache[n])
    BY <1>2 DEF Touched, n
  <2> QED BY <2>1, <2>2, MovedToTheEnd
<1> QED BY <1>1, <1>2

\* So the entries of a cache after a put are those it had and, at most, the new one.
LEMMA PutKeeps ==
    ASSUME NEW E, NEW cache \in Seq(E), NEW key, NEW fresh, NEW limit \in Nat,
           [key |-> key, result |-> fresh] \in E
    PROVE  /\ Put(cache, key, fresh, limit) \in Seq(E)
           /\ ToSet(Put(cache, key, fresh, limit)) \subseteq ToSet(cache) \union {[key |-> key, result |-> fresh]}
<1> DEFINE e == [key |-> key, result |-> fresh]
<1>1. Put(cache, key, fresh, limit) \in {cache, Bounded(Append(cache, e), limit)}
  BY DEF Put
<1>2. e \in E
  OBVIOUS
<1> HIDE DEF e
<1>3. /\ Bounded(Append(cache, e), limit) \in Seq(E)
      /\ ToSet(Bounded(Append(cache, e), limit)) \subseteq ToSet(cache) \union {e}
  BY <1>2, AppendBounded
<1> QED BY <1>1, <1>3 DEF e
------------------------------------------------------------------------------
(* What the calls of a session return.                                     *)

USE CachesAssumption

\* The bytes of the caller are those of its file.
LEMMA DataOfTheFile ==
    ASSUME Inv, caller # None
    PROVE  /\ Data = file[caller.path].content /\ Data \in Contents
           /\ caller.path \in Files /\ FileKey(caller.path) \in FileKeys
BY DEF Inv, TypeInv, CallerInv, Data, FileKey, FileKeys

\* The records of a call are of the bytes of the caller, read now or kept by the session.
LEMMA RecordsAreGiven ==
    ASSUME Inv, caller # None, NEW path \in {None, caller.path}
    PROVE  RecordsGiven(path) = Data /\ ParseKey(path) \in RecordKeys
<1>1. ParseKey(path) = [data |-> Data] \/ ParseKey(path) = [file |-> FileKey(caller.path)]
  BY DEF ParseKey
<1>2. ParseKey(path) \in RecordKeys
  BY <1>1, DataOfTheFile DEF RecordKeys
<1>3. \A e \in ToSet(records) : e.key = ParseKey(path) => e.result = Data
  <2> SUFFICES ASSUME NEW e \in ToSet(records), e.key = ParseKey(path)
               PROVE  e.result = Data
    OBVIOUS
  <2>1. RecordIsOfItsKey(e)
    BY DEF Inv, CachesInv
  <2>2. CASE ParseKey(path) = [data |-> Data]
    BY <2>1, <2>2, DataOfTheFile DEF RecordIsOfItsKey
  <2>3. CASE ParseKey(path) = [file |-> FileKey(caller.path)]
    <3>1. OfItsFile(FileKey(caller.path), e.result)
      BY <2>1, <2>3, DataOfTheFile DEF RecordIsOfItsKey
    <3> QED BY <3>1, DataOfTheFile DEF OfItsFile
  <2> QED BY <1>1, <2>2, <2>3
<1>4. RecordsGiven(path) = Data
  BY <1>3, FreshIsGiven DEF RecordsGiven
<1> QED BY <1>2, <1>4

\* What is recovered from a file is recovered from the bytes of the caller.
LEMMA RecoveryIsGiven ==
    ASSUME Inv, caller # None
    PROVE  RecoveryGiven(caller.path) = Data
<1>1. \A e \in ToSet(recovered) : e.key = FileKey(caller.path) => e.result = Data
  BY DataOfTheFile DEF Inv, CachesInv, OfItsFile
<1>2. RecordsGiven(caller.path) = Data
  BY RecordsAreGiven
<1> QED BY <1>1, <1>2, FreshIsGiven DEF RecoveryGiven

\* The inventory of a call is of the bytes of the caller.
LEMMA InventoryIsGiven ==
    ASSUME Inv, caller # None
    PROVE  InventoryGiven(caller.path) = Data
<1>1. RecordsGiven(caller.path) = Data
  BY RecordsAreGiven
<1>2. CASE store = None
  BY <1>1, <1>2 DEF InventoryGiven, Memoized
<1>3. CASE store # None
  <2>1. \A e \in store : e.key = Scoped("opju_records", FileKey(caller.path)) => e.result = Data
    BY <1>3, DataOfTheFile DEF Inv, StoreInv, IsOfTheFiles
  <2> QED BY <1>1, <1>3, <2>1, FreshIsGiven DEF InventoryGiven, Memoized
<1> QED BY <1>2, <1>3

\* The columns of a call are of the bytes of the caller.
LEMMA ColumnsAreGiven ==
    ASSUME Inv, caller # None
    PROVE  ColumnsGiven = Data
<1>1. CASE store = None
  BY <1>1 DEF ColumnsGiven, Memoized
<1>2. CASE store # None
  <2>1. \A e \in store : e.key = Scoped("opju_column_descriptors", [data |-> Data]) => e.result = Data
    BY <1>2, DataOfTheFile DEF Inv, StoreInv, IsOfTheFiles
  <2> QED BY <1>2, <2>1, FreshIsGiven DEF ColumnsGiven, Memoized
<1> QED BY <1>1, <1>2

\* A scan of a file is of the file as it is.
LEMMA ScanIsGiven ==
    ASSUME Inv, NEW f \in Files
    PROVE  ScanGiven(f) = file[f].content
<1>1. \A e \in scanned : e.key = FileKey(f) => e.result = file[f].content
  BY DEF Inv, CachesInv, OfItsFile
<1> QED BY <1>1, FreshIsGiven DEF ScanGiven

\* The invariant is what the property needs.
LEMMA InvImpliesCurrent == Inv => CachesAreCurrent
<1> SUFFICES ASSUME Inv PROVE CachesAreCurrent
  OBVIOUS
<1>1. \A f \in Files : ScanGiven(f) = file[f].content
  BY ScanIsGiven
<1>2. ASSUME caller # None
      PROVE  {RecordsGiven(None), RecordsGiven(caller.path), InventoryGiven(caller.path),
              RecoveryGiven(caller.path), ColumnsGiven} = {Data}
  BY <1>2, RecordsAreGiven, InventoryIsGiven, RecoveryIsGiven, ColumnsAreGiven
<1>3. ASSUME caller # None, store # None
      PROVE  Data = file[caller.path].content
  BY <1>3, DataOfTheFile
<1> QED BY <1>1, <1>2, <1>3 DEF CachesAreCurrent
------------------------------------------------------------------------------
(* Every action keeps the invariant.                                       *)

\* A process begins with no session, no command and no entry.
LEMMA InitInv == CachesInit => Inv
<1> SUFFICES ASSUME CachesInit PROVE Inv
  OBVIOUS
<1>1. TypeInv
  BY DEF CachesInit, TypeInv
<1>2. CachesInv
  BY DEF CachesInit, CachesInv, ToSet
<1> QED BY <1>1, <1>2 DEF CachesInit, CallerInv, StoreInv, Inv

\* The invariant does not depend on the sections.
LEMMA SameInv ==
    ASSUME Inv, UNCHANGED <<clock, file, memory, caller, store, records, recovered, scanned>>
    PROVE  Inv'
BY DEF Inv, TypeInv, CachesInv, RecordIsOfItsKey, OfItsFile, FileKey, CallerInv, StoreInv, IsOfTheFiles,
       RecordKeys, FileKeys

\* As long as the files stay, so do the entries that are known by them.
LEMMA SameCaches ==
    ASSUME Inv, UNCHANGED <<clock, file, records, recovered, scanned>>
    PROVE  CachesInv'
BY DEF Inv, CachesInv, RecordIsOfItsKey, OfItsFile, FileKey

\* Storing a result adds one entry at most, and none outside a command.
LEMMA StoredEntries ==
    ASSUME NEW name, NEW key, NEW fresh
    PROVE  /\ store = None => Stored(name, key, fresh) = None
           /\ store # None => \A e \in Stored(name, key, fresh) :
                 e \in store \/ e = [key |-> Scoped(name, key), result |-> fresh]
BY DEF Stored

\* A store of results about the files that stay is kept by a result that is about them too.
LEMMA StoreKeeps ==
    ASSUME Inv, NEW name, NEW key, NEW fresh,
           IsOfTheFiles([key |-> Scoped(name, key), result |-> fresh]),
           UNCHANGED <<file, memory>>, store' = Stored(name, key, fresh)
    PROVE  StoreInv'
<1> SUFFICES ASSUME store' # None, NEW e \in store' PROVE IsOfTheFiles(e)'
  BY DEF StoreInv
<1>1. e \in store \/ e = [key |-> Scoped(name, key), result |-> fresh]
  BY StoredEntries
<1>2. store # None
  BY StoredEntries
<1>3. IsOfTheFiles(e)
  BY <1>1, <1>2 DEF Inv, StoreInv
<1> QED BY <1>3 DEF IsOfTheFiles, FileKey

\* A command begins with an empty store.
LEMMA EnterInv == Inv /\ Enter => Inv'
<1> SUFFICES ASSUME Inv, Enter PROVE Inv'
  OBVIOUS
<1>1. TypeInv' /\ CallerInv'
  BY DEF Enter, cacheVars, Inv, TypeInv, CallerInv
<1>2. CachesInv'
  BY SameCaches DEF Enter, cacheVars
<1>3. StoreInv'
  BY DEF Enter, StoreInv
<1> QED BY <1>1, <1>2, <1>3 DEF Inv

\* Bytes are freed only if neither the session nor the command has them.
LEMMA FreedKeeps ==
    ASSUME Inv, NEW held, NEW s
    PROVE  Freed(held, s) \in [Places -> Contents \union {None}]
BY DEF Inv, TypeInv, Freed

\* A command ends with its store.
LEMMA LeaveInv == Inv /\ Leave => Inv'
<1> SUFFICES ASSUME Inv, Leave PROVE Inv'
  OBVIOUS
<1>1. TypeInv'
  BY FreedKeeps DEF Leave, cacheVars, Inv, TypeInv
<1>2. CachesInv'
  BY SameCaches DEF Leave, cacheVars
<1>3. CallerInv' /\ StoreInv'
  BY DEF Leave, CallerInv, StoreInv
<1> QED BY <1>1, <1>2, <1>3 DEF Inv

\* A session that ends frees its bytes, unless the command keeps them.
LEMMA CloseSessionInv == Inv /\ CloseSession => Inv'
<1> SUFFICES ASSUME Inv, CloseSession PROVE Inv'
  OBVIOUS
<1>1. TypeInv'
  BY FreedKeeps DEF CloseSession, cacheVars, Inv, TypeInv
<1>2. CachesInv'
  BY SameCaches DEF CloseSession, cacheVars
<1>3. CallerInv'
  BY DEF CloseSession, CallerInv
<1>4. StoreInv'
  <2> SUFFICES ASSUME store # None, NEW e \in store PROVE IsOfTheFiles(e)'
    BY DEF CloseSession, StoreInv
  <2>1. IsOfTheFiles(e)
    BY DEF Inv, StoreInv
  <2>2. e.key[1] = "file_bytes" => e.result \in Places /\ memory'[e.result] = memory[e.result]
    BY <2>1 DEF IsOfTheFiles, CloseSession, Freed, Kept
  <2>3. file' = file
    BY DEF CloseSession
  <2>4. \A f \in Files : e.key = Scoped("file_bytes", FileKey(f)) => e.key[1] = "file_bytes"
    BY DEF Scoped
  <2> QED BY <2>1, <2>2, <2>3, <2>4 DEF IsOfTheFiles, FileKey
<1> QED BY <1>1, <1>2, <1>3, <1>4 DEF Inv

\* The stamp of a replacement is of no entry yet.
LEMMA ReplacedKeeps ==
    ASSUME Inv, NEW f \in Files, NEW c \in Contents, Replace(f, c),
           NEW key, key.stamp \in Nat, NEW result, OfItsFile(key, result)
    PROVE  OfItsFile(key, result)'
<1>1. clock \in Nat /\ clock' = clock + 1 /\ key.stamp <= clock
  BY DEF Inv, TypeInv, Replace, OfItsFile
<1>2. file \in [Files -> [content : Contents, stamp : 0 .. clock]]
  BY DEF Inv, TypeInv
<1>3. file' = [file EXCEPT ![f] = [content |-> c, stamp |-> clock + 1]]
  BY DEF Replace
<1>4. ASSUME NEW g \in Files, key = FileKey(g)' PROVE result = file'[g].content
  <2>1. key.stamp = file'[g].stamp
    BY <1>4 DEF FileKey
  <2>2. g # f
    BY <1>1, <1>2, <1>3, <2>1
  <2>3. file'[g] = file[g]
    BY <1>2, <1>3, <2>2
  <2> QED BY <1>4, <2>3 DEF OfItsFile, FileKey
<1> QED BY <1>1, <1>4 DEF OfItsFile

\* A replaced file has a stamp no entry is known by.
LEMMA ReplaceInv == ASSUME NEW f \in Files, NEW c \in Contents PROVE Inv /\ Replace(f, c) => Inv'
<1> SUFFICES ASSUME Inv, Replace(f, c) PROVE Inv'
  OBVIOUS
<1>1. TypeInv'
  BY DEF Replace, cacheVars, Inv, TypeInv
<1>2. CachesInv'
  <2>1. UNCHANGED <<records, recovered, scanned>>
    BY DEF Replace, cacheVars
  <2>2. \A e \in scanned : OfItsFile(e.key, e.result)'
    <3> SUFFICES ASSUME NEW e \in scanned PROVE OfItsFile(e.key, e.result)'
      OBVIOUS
    <3>1. e.key.stamp \in Nat
      BY DEF Inv, TypeInv, FileKeys
    <3>2. OfItsFile(e.key, e.result)
      BY DEF Inv, CachesInv
    <3> QED BY <3>1, <3>2, ReplacedKeeps
  <2>3. \A e \in ToSet(recovered) : OfItsFile(e.key, e.result)'
    <3> SUFFICES ASSUME NEW e \in ToSet(recovered) PROVE OfItsFile(e.key, e.result)'
      OBVIOUS
    <3>1. e \in [key : FileKeys, result : Contents]
      BY ElementsOf DEF Inv, TypeInv
    <3>2. e.key.stamp \in Nat
      BY <3>1 DEF FileKeys
    <3>3. OfItsFile(e.key, e.result)
      BY DEF Inv, CachesInv
    <3> QED BY <3>2, <3>3, ReplacedKeeps
  <2>4. \A e \in ToSet(records) : RecordIsOfItsKey(e)'
    <3> SUFFICES ASSUME NEW e \in ToSet(records), NEW k \in FileKeys, e.key = [file |-> k]
                 PROVE  OfItsFile(k, e.result)'
      BY DEF Inv, CachesInv, RecordIsOfItsKey
    <3>1. k.stamp \in Nat
      BY DEF FileKeys
    <3>2. OfItsFile(k, e.result)
      BY DEF Inv, CachesInv, RecordIsOfItsKey
    <3> QED BY <3>1, <3>2, ReplacedKeeps
  <2> QED BY <2>1, <2>2, <2>3, <2>4 DEF CachesInv
<1>3. CallerInv'
  BY DEF Replace, Inv, TypeInv, CallerInv
<1>4. StoreInv'
  BY DEF Replace, StoreInv
<1> QED BY <1>1, <1>2, <1>3, <1>4 DEF Inv

\* A session has the bytes that the command keeps of its file, or bytes at a place that nothing has.
LEMMA OpenSessionInv == ASSUME NEW f \in Files PROVE Inv /\ OpenSession(f) => Inv'
<1> SUFFICES ASSUME Inv, OpenSession(f) PROVE Inv'
  OBVIOUS
<1>1. UNCHANGED <<clock, file, sections, records, recovered, scanned>>
  BY DEF OpenSession, cacheVars
<1>2. CachesInv'
  BY <1>1, SameCaches
<1>3. PICK p \in Places :
        /\ \/ p \in Memo("file_bytes", FileKey(f)) /\ UNCHANGED memory
           \/ /\ Memo("file_bytes", FileKey(f)) = {} /\ memory[p] = None
              /\ memory' = [memory EXCEPT ![p] = file[f].content]
        /\ caller' = [at |-> p, path |-> f]
        /\ store' = Stored("file_bytes", FileKey(f), p)
  BY DEF OpenSession
<1>4. file[f].content \in Contents /\ memory \in [Places -> Contents \union {None}]
  BY DEF Inv, TypeInv
<1>5. CASE p \in Memo("file_bytes", FileKey(f)) /\ UNCHANGED memory
  <2>1. store # None /\ store' = store
    BY <1>3, <1>5 DEF Memo, Stored
  <2>2. PICK e \in store : e.key = Scoped("file_bytes", FileKey(f)) /\ e.result = p
    BY <1>5, <2>1 DEF Memo, ResultsOf
  <2>3. memory[p] = file[f].content
    BY <2>1, <2>2 DEF Inv, StoreInv, IsOfTheFiles
  <2>4. TypeInv'
    BY <1>1, <1>5 DEF Inv, TypeInv
  <2>5. CallerInv'
    BY <1>1, <1>3, <1>5, <2>3 DEF CallerInv
  <2>6. StoreInv'
    BY <1>1, <1>5, <2>1 DEF Inv, StoreInv, IsOfTheFiles, FileKey
  <2> QED BY <1>2, <2>4, <2>5, <2>6 DEF Inv
<1>6. CASE /\ Memo("file_bytes", FileKey(f)) = {} /\ memory[p] = None
           /\ memory' = [memory EXCEPT ![p] = file[f].content]
  <2>1. memory' \in [Places -> Contents \union {None}] /\ memory'[p] = file[f].content
    BY <1>4, <1>6
  <2>2. TypeInv'
    BY <1>1, <2>1 DEF Inv, TypeInv
  <2>3. CallerInv'
    BY <1>1, <1>3, <2>1 DEF CallerInv
  <2>4. StoreInv'
    <3> SUFFICES ASSUME store' # None, NEW e \in store' PROVE IsOfTheFiles(e)'
      BY DEF StoreInv
    <3>1. store # None /\ (e \in store \/ e = [key |-> Scoped("file_bytes", FileKey(f)), result |-> p])
      BY <1>3, StoredEntries
    <3>2. CASE e \in store
      <4>1. IsOfTheFiles(e)
        BY <3>1, <3>2 DEF Inv, StoreInv
      <4>2. e.key[1] = "file_bytes" => e.result \in Places /\ memory'[e.result] = memory[e.result]
        BY <1>4, <1>6, <4>1 DEF IsOfTheFiles
      <4>3. \A g \in Files : e.key = Scoped("file_bytes", FileKey(g)) => e.key[1] = "file_bytes"
        BY DEF Scoped
      <4> QED BY <1>1, <4>1, <4>2, <4>3 DEF IsOfTheFiles, FileKey
    <3>3. CASE e = [key |-> Scoped("file_bytes", FileKey(f)), result |-> p]
      <4>1. memory'[p] # None
        BY <1>4, <2>1, CachesAssumption
      <4>2. \A g \in Files : FileKey(g) = FileKey(f) => g = f
        BY DEF FileKey
      <4>3. e.key = <<"file_bytes", FileKey(f)>> /\ e.result = p
        BY <3>3 DEF Scoped
      <4>4. \A g \in Files : e.key = Scoped("file_bytes", FileKey(g)) => g = f
        BY <4>2, <4>3 DEF Scoped
      <4>5. \A key : e.key # Scoped("opju_records", key) /\ e.key # Scoped("opju_column_descriptors", key)
        BY <4>3 DEF Scoped
      <4> QED BY <1>1, <2>1, <4>1, <4>3, <4>4, <4>5 DEF IsOfTheFiles, FileKey
    <3> QED BY <3>1, <3>2, <3>3
  <2> QED BY <1>2, <2>2, <2>3, <2>4 DEF Inv
<1> QED BY <1>3, <1>5, <1>6

\* The sections of a call are stored for the file it has open.
LEMMA SectionsOfFileInv == Inv /\ SectionsOfFile => Inv'
<1> SUFFICES ASSUME Inv, SectionsOfFile PROVE Inv'
  OBVIOUS
<1> DEFINE key == FileKey(caller.path)
<1>1. /\ UNCHANGED <<clock, file, memory, caller, records, recovered, scanned>>
      /\ store' = Stored("opj_data_sections", key, SectionsGiven)
  BY DEF SectionsOfFile
<1>2. TypeInv' /\ CallerInv'
  BY <1>1 DEF Inv, TypeInv, CallerInv
<1>3. CachesInv'
  BY <1>1, SameCaches
<1>4. IsOfTheFiles([key |-> Scoped("opj_data_sections", key), result |-> SectionsGiven])
  BY DEF IsOfTheFiles, Scoped
<1>5. StoreInv'
  BY <1>1, <1>4, StoreKeeps
<1> QED BY <1>2, <1>3, <1>5 DEF Inv

\* The columns that are described are those of the bytes of the caller.
LEMMA DescribeColumnsInv == Inv /\ DescribeColumns => Inv'
<1> SUFFICES ASSUME Inv, DescribeColumns PROVE Inv'
  OBVIOUS
<1>1. /\ UNCHANGED <<clock, file, memory, caller, records, recovered, scanned>>
      /\ store' = Stored("opju_column_descriptors", [data |-> Data], Data)
  BY DEF DescribeColumns, cacheVars
<1>2. TypeInv' /\ CallerInv'
  BY <1>1 DEF Inv, TypeInv, CallerInv
<1>3. CachesInv'
  BY <1>1, SameCaches
<1>4. IsOfTheFiles([key |-> Scoped("opju_column_descriptors", [data |-> Data]), result |-> Data])
  <2>1. \A c : [data |-> c] = [data |-> Data] => c = Data
    <3> SUFFICES ASSUME NEW c, [data |-> c] = [data |-> Data] PROVE c = Data
      OBVIOUS
    <3> QED BY [data |-> c].data = [data |-> Data].data
  <2> QED BY <2>1 DEF IsOfTheFiles, Scoped
<1>5. StoreInv'
  BY <1>1, <1>4, StoreKeeps
<1> QED BY <1>2, <1>3, <1>5 DEF Inv

\* What is looked for in a file is about the file as it is.
LEMMA NewIsOfItsFile ==
    ASSUME Inv, NEW f \in Files
    PROVE  FileKey(f) \in FileKeys /\ OfItsFile(FileKey(f), file[f].content)
BY DEF Inv, TypeInv, FileKey, FileKeys, OfItsFile

\* A scan is filed under the file that was scanned.
LEMMA ScanInv == ASSUME NEW f \in Files PROVE Inv /\ Scan(f) => Inv'
<1> SUFFICES ASSUME Inv, Scan(f) PROVE Inv'
  OBVIOUS
<1> DEFINE e == [key |-> FileKey(f), result |-> file[f].content]
<1>1. UNCHANGED <<clock, file, memory, caller, store, records, recovered>> /\ scanned' = scanned \union {e}
  BY ScanIsGiven DEF Scan
<1>2. e \in [key : FileKeys, result : Contents] /\ OfItsFile(e.key, e.result)
  BY NewIsOfItsFile DEF Inv, TypeInv
<1>3. TypeInv' /\ CallerInv' /\ StoreInv'
  BY <1>1, <1>2 DEF Inv, TypeInv, CallerInv, StoreInv, IsOfTheFiles, FileKey
<1> HIDE DEF e
<1>4. CachesInv'
  BY <1>1, <1>2 DEF Inv, CachesInv, RecordIsOfItsKey, OfItsFile, FileKey
<1> QED BY <1>3, <1>4 DEF Inv

\* The records of the caller's bytes are of its file, and known by either.
LEMMA ParsedKeeps ==
    ASSUME Inv, caller # None, NEW path \in {None, caller.path}
    PROVE  /\ RecordsParsed(path) \in Seq([key : RecordKeys, result : Contents])
           /\ \A e \in ToSet(RecordsParsed(path)) : RecordIsOfItsKey(e)
<1> DEFINE key == ParseKey(path)
           new == [key |-> key, result |-> Data]
<1>1. key \in RecordKeys /\ Data \in Contents
  BY RecordsAreGiven, DataOfTheFile
<1>2. records \in Seq([key : RecordKeys, result : Contents]) /\ RecordsLimit \in Nat
  BY CachesAssumption DEF Inv, TypeInv
<1>3. RecordIsOfItsKey(new)
  <2>1. OfItsFile(FileKey(caller.path), Data)
    BY DataOfTheFile, NewIsOfItsFile
  <2>2. ASSUME NEW c \in Contents, key = [data |-> c] PROVE Data = c
    <3>1. CASE path = None
      <4>1. [data |-> Data] = [data |-> c]
        BY <2>2, <3>1 DEF ParseKey
      <4>2. [data |-> Data].data = [data |-> c].data
        BY <4>1
      <4> QED BY <4>2
    <3>2. CASE path # None
      <4>1. [file |-> FileKey(path)] = [data |-> c]
        BY <2>2, <3>2 DEF ParseKey
      <4>2. DOMAIN [file |-> FileKey(path)] = DOMAIN [data |-> c]
        BY <4>1
      <4> QED BY <4>2
    <3> QED BY <3>1, <3>2
  <2>3. ASSUME NEW k \in FileKeys, key = [file |-> k] PROVE OfItsFile(k, Data)
    <3>1. CASE path = None
      <4>1. [data |-> Data] = [file |-> k]
        BY <2>3, <3>1 DEF ParseKey
      <4>2. DOMAIN [data |-> Data] = DOMAIN [file |-> k]
        BY <4>1
      <4> QED BY <4>2
    <3>2. CASE path # None
      <4>1. [file |-> FileKey(path)] = [file |-> k] /\ path = caller.path
        BY <2>3, <3>2 DEF ParseKey
      <4>2. [file |-> FileKey(path)].file = [file |-> k].file
        BY <4>1
      <4> QED BY <2>1, <4>1, <4>2
    <3> QED BY <3>1, <3>2
  <2> QED BY <2>2, <2>3 DEF RecordIsOfItsKey
<1>4. /\ RecordsParsed(path) \in Seq([key : RecordKeys, result : Contents])
      /\ ToSet(RecordsParsed(path)) \subseteq ToSet(records) \union {new}
  <2>1. new \in [key : RecordKeys, result : Contents]
    BY <1>1
  <2> QED BY <1>2, <2>1, TouchedKeeps DEF RecordsParsed
<1>5. \A e \in ToSet(records) : RecordIsOfItsKey(e)
  BY DEF Inv, CachesInv
<1> QED BY <1>3, <1>4, <1>5

\* Whichever way the records are asked for, the caches and the store are left with what is so.
LEMMA AskRecordsInv == Inv /\ AskRecords => Inv'
<1> SUFFICES ASSUME Inv, AskRecords PROVE Inv'
  OBVIOUS
<1> DEFINE key == FileKey(caller.path)
           Parsed == {records, RecordsParsed(None), RecordsParsed(caller.path)}
<1>1. caller # None /\ UNCHANGED <<clock, file, memory, caller, scanned>>
  BY DEF AskRecords
<1>2. key \in FileKeys /\ OfItsFile(key, Data) /\ Data \in Contents
  BY <1>1, DataOfTheFile, NewIsOfItsFile
<1>3. RecordsGiven(caller.path) = Data
  BY <1>1, RecordsAreGiven
<1>4. records' \in Parsed
  BY DEF AskRecords, Records, RecordsOfInventory, RecordsOfRecovery
<1>5. store' = store \/ store' = Stored("opju_records", key, Data)
  BY <1>3 DEF AskRecords, Records, RecordsOfInventory, RecordsOfRecovery
<1>6. recovered' = recovered \/ recovered' = Put(recovered, key, Data, RecoveryLimit)
  BY <1>3 DEF AskRecords, Records, RecordsOfInventory, RecordsOfRecovery
<1>7. /\ records' \in Seq([key : RecordKeys, result : Contents])
      /\ \A e \in ToSet(records') : RecordIsOfItsKey(e)
  BY <1>1, <1>4, ParsedKeeps DEF Inv, TypeInv, CachesInv
<1>8. /\ recovered' \in Seq([key : FileKeys, result : Contents])
      /\ \A e \in ToSet(recovered') : OfItsFile(e.key, e.result)
  <2> DEFINE new == [key |-> key, result |-> Data]
  <2>1. /\ recovered \in Seq([key : FileKeys, result : Contents]) /\ RecoveryLimit \in Nat
        /\ \A e \in ToSet(recovered) : OfItsFile(e.key, e.result)
    BY CachesAssumption DEF Inv, TypeInv, CachesInv
  <2>2. new \in [key : FileKeys, result : Contents] /\ OfItsFile(new.key, new.result)
    BY <1>2
  <2>3. /\ Put(recovered, key, Data, RecoveryLimit) \in Seq([key : FileKeys, result : Contents])
        /\ ToSet(Put(recovered, key, Data, RecoveryLimit)) \subseteq ToSet(recovered) \union {new}
    BY <2>1, <2>2, PutKeeps
  <2> HIDE DEF new
  <2> QED BY <1>6, <2>1, <2>2, <2>3
<1>9. TypeInv' /\ CallerInv'
  BY <1>1, <1>7, <1>8 DEF Inv, TypeInv, CallerInv
<1>10. CachesInv'
  BY <1>1, <1>7, <1>8 DEF Inv, CachesInv, RecordIsOfItsKey, OfItsFile, FileKey
<1>11. StoreInv'
  <2>1. CASE store' = store
    BY <1>1, <2>1 DEF Inv, StoreInv, IsOfTheFiles, FileKey
  <2>2. CASE store' = Stored("opju_records", key, Data)
    <3>1. IsOfTheFiles([key |-> Scoped("opju_records", key), result |-> Data])
      <4>1. \A g \in Files : FileKey(g) = key => Data = file[g].content
        BY <1>2 DEF OfItsFile
      <4>2. \A g \in Files : Scoped("opju_records", key) = Scoped("opju_records", FileKey(g)) => FileKey(g) = key
        BY DEF Scoped
      <4>3. /\ Scoped("opju_records", key)[1] = "opju_records"
            /\ \A k : /\ Scoped("opju_records", key) # Scoped("file_bytes", k)
                      /\ Scoped("opju_records", key) # Scoped("opju_column_descriptors", k)
        BY DEF Scoped
      <4> QED BY <4>1, <4>2, <4>3 DEF IsOfTheFiles
    <3> QED BY <1>1, <2>2, <3>1, StoreKeeps
  <2> QED BY <1>5, <2>1, <2>2
<1> QED BY <1>9, <1>10, <1>11 DEF Inv
------------------------------------------------------------------------------
\* Whatever a process has been asked, in this command or before it, and however often its projects
\* were replaced in between, its next answer is about the bytes it holds or the file as it is
\* (io/parse_cache and the caches of opju/recovery, opju/images and opju/tables).
THEOREM CachesCurrent == CachesSpec => []CachesAreCurrent
<1>1. Inv /\ [Serve]_parseVars => Inv'
  <2> SUFFICES ASSUME Inv, [Serve]_parseVars PROVE Inv'
    OBVIOUS
  <2>1. CASE Enter
    BY <2>1, EnterInv
  <2>2. CASE Leave
    BY <2>2, LeaveInv
  <2>3. CASE \E f \in Files, c \in Contents : Replace(f, c)
    BY <2>3, ReplaceInv
  <2>4. CASE \E f \in Files : OpenSession(f)
    BY <2>4, OpenSessionInv
  <2>5. CASE CloseSession
    BY <2>5, CloseSessionInv
  <2>6. CASE Sections
    BY <2>6, SameInv DEF Sections
  <2>7. CASE SectionsOfFile
    BY <2>7, SectionsOfFileInv
  <2>8. CASE AskRecords
    BY <2>8, AskRecordsInv
  <2>9. CASE DescribeColumns
    BY <2>9, DescribeColumnsInv
  <2>10. CASE \E f \in Files : Scan(f)
    BY <2>10, ScanInv
  <2>11. CASE UNCHANGED parseVars
    BY <2>11, SameInv DEF parseVars, cacheVars
  <2> QED BY <2>1, <2>2, <2>3, <2>4, <2>5, <2>6, <2>7, <2>8, <2>9, <2>10, <2>11 DEF Serve
<1> QED BY <1>1, InitInv, InvImpliesCurrent, PTL DEF CachesSpec
==============================================================================
