------------------------------- MODULE Extract -------------------------------
(***************************************************************************)
(* The extract command as what it does to the files: runs of cmd_extract   *)
(* (commands/simple_extract) over one output directory, from the look at   *)
(* the directory to the manifest and the exit code, with the runs that are *)
(* killed or fail between two writes.  A run may come from a shell or from *)
(* Export All of the viewer (DeopjufyBackend.export_all).                  *)
(*                                                                         *)
(* A family is what one step of cmd_extract writes; it has one file here.  *)
(* All runs are of one input, file:                                        *)
(*   type       opj, opju or other                                         *)
(*   found      the families the input has something for                   *)
(*   flawed     those of them whose item is marked partial                 *)
(*   untrusted  those of them the human profile does not keep              *)
(*   cut        the evidence of truncation: none, suspected or definitive  *)
(***************************************************************************)
EXTENDS Integers, Sequences

CONSTANTS
    Run,            \* the runs of the command
    Options,        \* the command lines they may have
    Inputs,         \* the inputs they may read
    MaxFailures,    \* the runs that may be killed or fail (a bound)
    MayOverlap,     \* two runs may be in progress at a time
    Absent,         \* no file at a path
    NoOne           \* no run

VARIABLES
    file,       \* the input
    opts,       \* opts[r]: the command line of r
    pc,         \* pc[r]: where r is in cmd_extract
    at,         \* at[r]: the step of Order r is at
    items,      \* items[r]: the status of the item of a family in r's manifest
    partial,    \* partial[r]: cmd_extract's partial
    exit,       \* exit[r]: the exit code
    shown,      \* shown[r]: what Export All tells the user
    made,       \* the output directory exists
    disk,       \* disk[p]: the file at p, who wrote it, whether it is whole
    holder,     \* the last run that found the directory available
    failures    \* the runs that were killed or failed

files == <<made, disk, holder>>
vars == <<file, opts, pc, at, items, partial, exit, shown, files, failures>>

\* The steps of cmd_extract that write, in their order.
Order == <<"strings", "tables", "books", "matrices", "excel", "functions", "notes", "graphs",
           "summary", "tree", "decoded", "inventory", "reports", "raw", "text", "images",
           "envelopes", "map", "provenance">>
Family == {Order[n] : n \in DOMAIN Order}

\* The families that write their file for an input that has nothing for them.
WritesEmpty == {"strings", "tables", "inventory", "map"}

\* What a step that wrote or found nothing makes of the whole run.
FailsEmpty == {"strings", "inventory"}
FailsFlawed == {"functions", "books", "graphs"}

\* Only --raw-dir, --text-dir and --manifest name paths outside the output directory.
Path == Family \cup {"manifest", "raw elsewhere", "text elsewhere", "manifest elsewhere"}
Inside == Family \cup {"manifest"}

PathOf(o, f) ==
    IF f = "raw" /\ o.rawDir THEN "raw elsewhere"
    ELSE IF f = "text" /\ o.textDir THEN "text elsewhere"
    ELSE f

ManifestPath(o) == IF o.manifest THEN "manifest elsewhere" ELSE "manifest"

StepEnabled(o, type, f) ==
    LET objects == {"books", "matrices", "excel", "functions", "notes"}
                   \cup (IF o.images THEN {"graphs"} ELSE {})
                   \cup (IF type = "opju" THEN {"summary", "provenance"} ELSE {})
                   \cup (IF o.extended THEN {"inventory", "reports"} ELSE {})
                   \cup (IF o.extended /\ type = "opj" THEN {"tree"} ELSE {})
                   \cup (IF o.extended /\ type = "opju" THEN {"decoded"} ELSE {})
        extended == {"raw", "text"} \cup (IF o.strings THEN {"strings"} ELSE {})
                    \cup (IF o.tables THEN {"tables"} ELSE {})
                    \cup (IF type = "opju" THEN {"envelopes"} ELSE {})
    IN  \/ o.objects /\ f \in objects
        \/ o.extended /\ f \in extended
        \/ o.images /\ f = "images"
        \/ o.map /\ f = "map"

\* The next step from n on that is enabled.
Reach(o, type, n) ==
    LET rest == {m \in n .. Len(Order) : StepEnabled(o, type, Order[m])}
    IN  IF rest = {} THEN Len(Order) + 1 ELSE CHOOSE m \in rest : \A k \in rest : m <= k

SomeStepEnabled(o) == o.images \/ o.objects \/ o.extended

Idle(r) == pc[r] \in {"idle", "ended"}
Written(r) == [by |-> r, whole |-> TRUE]
Torn(r) == [by |-> r, whole |-> FALSE]
Exists(p) == disk[p] # Absent

\* What may be at a path: a file, or a manifest with what it lists.
Content == [by : Run, whole : BOOLEAN] \cup [by : Run, whole : {TRUE}, listed : SUBSET Path]

ASSUME ExtractAssumption ==
    /\ Absent \notin Content
    /\ MaxFailures \in Nat
    /\ \A o \in Options : o.force \in BOOLEAN

\* What the parser of the command line gives: switches, and two lengths.
CommandLine ==
    [extended : BOOLEAN, objects : BOOLEAN, images : BOOLEAN, strings : BOOLEAN, tables : BOOLEAN,
     map : BOOLEAN, force : BOOLEAN, failOnPartial : BOOLEAN, rawDir : BOOLEAN,
     textDir : BOOLEAN, manifest : BOOLEAN, rawMin : Int, textMin : Int, viewer : BOOLEAN]

ASSUME OptionsAssumption == Options \subseteq CommandLine

TypeOK ==
    /\ file \in Inputs
    /\ opts \in [Run -> Options]
    /\ pc \in [Run -> {"idle", "check", "scan", "step", "write", "retain", "open",
                       "publish", "answer", "ended"}]
    /\ at \in [Run -> 1 .. Len(Order) + 1]
    /\ items \in [Run -> [Family -> {"none", "extracted", "partial", "skipped"}]]
    /\ partial \in [Run -> BOOLEAN]
    /\ exit \in [Run -> {"none", "success", "general", "usage", "unsupported", "partial",
                         "corrupted", "killed"}]
    /\ shown \in [Run -> {"nothing", "exported", "failed"}]
    /\ made \in BOOLEAN
    /\ disk \in [Path -> {Absent} \cup Content]
    /\ holder \in Run \cup {NoOne}
    /\ failures \in 0 .. MaxFailures

Init ==
    /\ file \in Inputs
    /\ opts \in [Run -> Options]
    /\ pc = [r \in Run |-> "idle"]
    /\ at = [r \in Run |-> 1]
    /\ items = [r \in Run |-> [f \in Family |-> "none"]]
    /\ partial = [r \in Run |-> FALSE]
    /\ exit = [r \in Run |-> "none"]
    /\ shown = [r \in Run |-> "nothing"]
    /\ made = FALSE
    /\ disk = [p \in Path |-> Absent]
    /\ holder = NoOne
    /\ failures = 0
------------------------------------------------------------------------------
Goto(r, label) == pc' = [pc EXCEPT ![r] = label]

\* The command ends; Export All looks at what it left.
Exit(r, code) ==
    /\ exit' = [exit EXCEPT ![r] = code]
    /\ Goto(r, IF opts[r].viewer THEN "answer" ELSE "ended")

\* The command is started.  Export All refuses a directory that exists, the command an
\* input that is not a project.
Start(r) ==
    /\ pc[r] = "idle"
    /\ MayOverlap \/ \A q \in Run \ {r} : Idle(q)
    /\ \/ /\ opts[r].viewer /\ made
          /\ shown' = [shown EXCEPT ![r] = "failed"]
          /\ Goto(r, "ended")
          /\ UNCHANGED exit
       \/ /\ ~(opts[r].viewer /\ made)
          /\ IF file.type = "other" THEN Exit(r, "unsupported")
             ELSE Goto(r, "check") /\ UNCHANGED exit
          /\ UNCHANGED shown
    /\ UNCHANGED <<file, opts, at, items, partial, files, failures>>

\* Mutant: the look at the directory is not taken.
NeverRefuses(o) == FALSE

\* _ensure_output_available.
Refuses(o) ==
    /\ ~o.force
    /\ \/ \E p \in Inside : Exists(p)
       \/ o.manifest /\ Exists(ManifestPath(o))

Check(r) ==
    /\ pc[r] = "check"
    /\ IF Refuses(opts[r]) THEN Exit(r, "general") /\ UNCHANGED <<made, holder>>
       ELSE Goto(r, "scan") /\ made' = TRUE /\ holder' = r /\ UNCHANGED exit
    /\ UNCHANGED <<file, opts, at, items, partial, shown, disk, failures>>

\* What the steps share is read before the first of them.
Scan(r) ==
    /\ pc[r] = "scan"
    /\ partial' = [partial EXCEPT ![r] = file.cut # "none"]
    /\ at' = [at EXCEPT ![r] = Reach(opts[r], file.type, 1)]
    /\ Goto(r, "step")
    /\ UNCHANGED <<file, opts, items, exit, shown, files, failures>>

Advance(r) == at' = [at EXCEPT ![r] = Reach(opts[r], file.type, at[r] + 1)]
AtFamily(r, f) == pc[r] = "step" /\ at[r] <= Len(Order) /\ f = Order[at[r]]

\* The lengths of the raw and the text step are looked at when the step comes.
BadLength(o, f) == (f = "raw" /\ o.rawMin < 1) \/ (f = "text" /\ o.textMin < 1)

\* Mutant: a file that is there is written over.
NeverSkips(o, p) == FALSE

\* Mutant: a file that is there is left even with --force.
SkipsForced(o, p) == Exists(p)

SkipsExisting(o, p) == Exists(p) /\ ~o.force

\* A step that has nothing to write, or whose file is there.
Step(r, f) ==
    /\ AtFamily(r, f)
    /\ ~BadLength(opts[r], f)
    /\ LET p == PathOf(opts[r], f)
           writes == f \in file.found \cup WritesEmpty
       IN  /\ ~writes \/ SkipsExisting(opts[r], p)
           /\ items' = IF writes THEN [items EXCEPT ![r][f] = "skipped"] ELSE items
    /\ partial' = [partial EXCEPT ![r] = @ \/ f \in FailsEmpty]
    /\ Advance(r)
    /\ UNCHANGED <<file, opts, pc, exit, shown, files, failures>>

\* The file is opened, and empty until it is written.
Open(r, f) ==
    /\ AtFamily(r, f)
    /\ ~BadLength(opts[r], f)
    /\ f \in file.found \cup WritesEmpty
    /\ ~SkipsExisting(opts[r], PathOf(opts[r], f))
    /\ disk' = [disk EXCEPT ![PathOf(opts[r], f)] = Torn(r)]
    /\ Goto(r, "write")
    /\ UNCHANGED <<file, opts, at, items, partial, exit, shown, made, holder, failures>>

\* What the file is listed as.
StatusOf(f) ==
    IF f \in file.flawed \/ (f \notin file.found /\ f # "map") THEN "partial" ELSE "extracted"

Write(r, f) ==
    /\ pc[r] = "write" /\ f = Order[at[r]]
    /\ disk' = [disk EXCEPT ![PathOf(opts[r], f)] = Written(r)]
    /\ items' = [items EXCEPT ![r][f] = StatusOf(f)]
    /\ partial' = [partial EXCEPT ![r] = \/ @
                                         \/ f \in FailsEmpty \ file.found
                                         \/ f \in FailsFlawed \cap file.flawed]
    /\ Advance(r)
    /\ Goto(r, "step")
    /\ UNCHANGED <<file, opts, exit, shown, made, holder, failures>>

\* A length that is no length is a usage error, after the steps before it wrote their files.
RefuseLength(r, f) ==
    /\ AtFamily(r, f)
    /\ BadLength(opts[r], f)
    /\ Exit(r, "usage")
    /\ UNCHANGED <<file, opts, at, items, partial, shown, files, failures>>

\* The steps are done.
Finish(r) ==
    /\ pc[r] = "step" /\ at[r] > Len(Order)
    /\ partial' = [partial EXCEPT ![r] = @ \/ ~SomeStepEnabled(opts[r])]
    /\ Goto(r, IF opts[r].extended THEN "open" ELSE "retain")
    /\ UNCHANGED <<file, opts, at, items, exit, shown, files, failures>>

\* What retain_human_artifacts leaves out.
Leaves(r, f) ==
    \/ items[r][f] = "partial"
    \/ items[r][f] = "extracted" /\ f \in file.untrusted

\* Mutant: the item is marked and the file stays.
DropNothing(r, f) == disk

\* _remove_unretained_files.
Drop(r, f) == [disk EXCEPT ![PathOf(opts[r], f)] = Absent]

\* One of the items goes, with its file.
Omit(r, f) ==
    /\ pc[r] = "retain"
    /\ Leaves(r, f)
    /\ disk' = Drop(r, f)
    /\ items' = [items EXCEPT ![r][f] = "skipped"]
    /\ UNCHANGED <<file, opts, pc, at, partial, exit, shown, made, holder, failures>>

Retained(r) ==
    /\ pc[r] = "retain"
    /\ \A f \in Family : ~Leaves(r, f)
    /\ Goto(r, "open")
    /\ UNCHANGED <<file, opts, at, items, partial, exit, shown, files, failures>>

\* manifest.write opens the manifest whatever is there, and writes it.
OpenManifest(r) ==
    /\ pc[r] = "open"
    /\ disk' = [disk EXCEPT ![ManifestPath(opts[r])] = Torn(r)]
    /\ Goto(r, "publish")
    /\ UNCHANGED <<file, opts, at, items, partial, exit, shown, made, holder, failures>>

Listed(r) == {PathOf(opts[r], f) : f \in {g \in Family : items[r][g] = "extracted"}}

\* The exit code is computed from what the run saw; an item without a file, which is not in
\* items, may count as a partial output too.
ExitCodes(r) ==
    IF file.cut = "definitive" THEN {"corrupted"}
    ELSE IF ~opts[r].failOnPartial THEN {"success"}
    ELSE IF partial[r] \/ \E f \in Family : items[r][f] = "partial" THEN {"partial"}
    ELSE {"success", "partial"}

WriteManifest(r) ==
    /\ pc[r] = "publish"
    /\ disk' = [disk EXCEPT ![ManifestPath(opts[r])] =
                   [by |-> r, whole |-> TRUE, listed |-> Listed(r)]]
    /\ \E code \in ExitCodes(r) : Exit(r, code)
    /\ UNCHANGED <<file, opts, at, items, partial, shown, made, holder, failures>>

\* The run ends with an error, or is killed.
Fail(r) ==
    /\ pc[r] \in {"scan", "step", "write", "retain", "open", "publish"}
    /\ failures < MaxFailures
    /\ failures' = failures + 1
    /\ \/ Exit(r, "general")
       \/ pc[r] \in {"scan", "step"} /\ Exit(r, "corrupted")
       \/ Exit(r, "killed")
    /\ UNCHANGED <<file, opts, at, items, partial, shown, files>>

\* Export All reports what the manifest says: the codes of a run that wrote one, and the
\* manifest it finds.
Answer(r) ==
    /\ pc[r] = "answer"
    /\ shown' = [shown EXCEPT ![r] =
                    IF /\ exit[r] \in {"success", "corrupted"}
                       /\ Exists("manifest") /\ disk["manifest"].whole
                    THEN "exported" ELSE "failed"]
    /\ Goto(r, "ended")
    /\ UNCHANGED <<file, opts, at, items, partial, exit, files, failures>>

Proceed(r) ==
    \/ Start(r) \/ Check(r) \/ Scan(r)
    \/ \E f \in Family : \/ Step(r, f) \/ Open(r, f) \/ Write(r, f)
                         \/ RefuseLength(r, f) \/ Omit(r, f)
    \/ Finish(r) \/ Retained(r) \/ OpenManifest(r) \/ WriteManifest(r) \/ Answer(r)

Next == \E r \in Run : Proceed(r) \/ Fail(r)

Spec == Init /\ [][Next]_vars
------------------------------------------------------------------------------
Completed(r) == exit[r] \in {"success", "partial"}

\* An existing file is not written over by a run without --force (README.md:91): the look
\* at the directory before the first step protects every file until the last one.
NotOverwritten ==
    [][\A p \in Path :
          Exists(p) /\ disk'[p] # Absent /\ disk'[p].by # disk[p].by
          => opts[disk'[p].by].force]_vars

\* The state has its type, and a run that completed leaves no file behind that its manifest
\* does not list, and a human one none it does not trust.
FilesAreListed ==
    TypeOK /\ \A r \in Run, f \in Family :
        LET p == PathOf(opts[r], f) IN
        Completed(r) /\ Exists(p) /\ disk[p].by = r =>
            /\ disk[p].whole
            /\ items[r][f] \in (IF opts[r].extended THEN {"extracted", "partial"} ELSE {"extracted"})
            /\ opts[r].extended \/ f \notin file.untrusted

\* The same command with --force repairs what a run that was killed left torn.
SameSteps(o, q) == o = [q EXCEPT !.force = o.force, !.viewer = o.viewer]

TornIsRepaired ==
    \A r \in Run :
        (/\ holder = r /\ Completed(r) /\ opts[r].force
         /\ \A q \in Run : pc[q] = "idle" \/ SameSteps(opts[q], opts[r]))
        => \A p \in Path : Exists(p) => disk[p].whole

\* What the manifests say of the files, as the contract of the command promises it.
Publication(m) ==
    IF /\ Exists(m)
       /\ "listed" \in DOMAIN disk[m]
       /\ \A p \in disk[m].listed : disk[p] = Written(disk[m].by)
    THEN [by |-> disk[m].by, files |-> disk[m].listed] ELSE Absent

Contract == INSTANCE ExtractContract WITH
    Place <- {"manifest", "manifest elsewhere"},
    Nothing <- Absent,
    force <- [r \in Run |-> opts[r].force],
    outcome <- [r \in Run |-> IF exit[r] = "none" THEN "none"
                              ELSE IF Completed(r) THEN "complete" ELSE "failed"],
    published <- [m \in {"manifest", "manifest elsewhere"} |-> Publication(m)]

\* The runs implement the contract: a run that completes has published what it lists, and
\* what is published stays as it is until a run with --force begins.
ImplementsContract == Contract!Spec
==============================================================================
