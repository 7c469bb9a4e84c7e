------------------------------- MODULE Compare -------------------------------
(***************************************************************************)
(* The compare command: two manifests, and with --compare-bytes the files  *)
(* their items name (compare/__init__.py, cmd_compare).                    *)
(*                                                                         *)
(* A target has what is found under its name, the items of its manifest    *)
(* and what each relative path holds: Nothing, Directory, or a file of a   *)
(* size, its data and, for a table, its cells, row by row.  A cell is a    *)
(* text and the number it reads as.  An item is what is kept of it for the *)
(* comparison, its signature; equal signatures have one name and one path. *)
(***************************************************************************)
EXTENDS Outcome

CONSTANTS
    Nothing, Directory,     \* a path without a file, and one that is a directory
    NotANumber,             \* the number of the text nan
    Tables,                 \* the paths with the suffix of a table
    Absolute,               \* the paths that are absolute
    Tolerance               \* how far apart two numbers are that are taken for one

ASSUME ToleranceAssumption == Tolerance \in Nat

\* The errors a pair of files is listed with.
Mismatches == {"path_not_comparable", "missing_file", "table_read_error", "table_shape_mismatch",
               "table_text_mismatch", "table_numeric_mismatch", "size_mismatch", "hash_mismatch"}

ASSUME NoneAssumption == None \notin Mismatches

\* _resolve_manifest_target and _load_manifest: what each of the two raises.
ResolveRaises(target) ==
    CASE target.found \in {"nothing", "directory_without_manifest"} -> "filenotfound"
      [] target.found = "other_suffix" -> "value"
      [] OTHER -> None
LoadRaises(target) == IF target.found = "no_manifest_inside" THEN "value" ELSE None

Raises(left, right) ==
    LET steps == <<ResolveRaises(left), ResolveRaises(right), LoadRaises(left), LoadRaises(right)>>
        raised == {n \in DOMAIN steps : steps[n] # None}
    IN  IF raised = {} THEN None ELSE steps[Min(raised)]
------------------------------------------------------------------------------
(* Two files of one path.                                                  *)

At(target, path) == IF path \in DOMAIN target.files THEN target.files[path] ELSE Nothing

\* isclose: not a number is close to nothing, itself included.
Close(a, b) ==
    /\ a # NotANumber /\ b # NotANumber
    /\ a - b <= Tolerance /\ b - a <= Tolerance

CellDiffers(a, b) ==
    IF a.number = None \/ b.number = None THEN a.text # b.text ELSE ~Close(a.number, b.number)

Width(rows) == Max({0} \cup {Len(rows[n]) : n \in DOMAIN rows})

\* _compare_table_rows: the first difference ends it, of the shape or of a cell.
TableMismatch(l, r) ==
    IF l = Directory \/ r = Directory THEN "table_read_error"
    ELSE IF Len(l.rows) # Len(r.rows) \/ Width(l.rows) # Width(r.rows)
         THEN "table_shape_mismatch"
    ELSE LET differs(n) == \/ Len(l.rows[n]) # Len(r.rows[n])
                           \/ \E k \in DOMAIN l.rows[n] : CellDiffers(l.rows[n][k], r.rows[n][k])
             rows == {n \in DOMAIN l.rows : differs(n)}
             first == Min(rows)
             cell == Min({k \in DOMAIN l.rows[first] :
                             CellDiffers(l.rows[first][k], r.rows[first][k])})
         IN  IF rows = {} THEN None
             ELSE IF Len(l.rows[first]) # Len(r.rows[first]) THEN "table_shape_mismatch"
             ELSE IF \/ l.rows[first][cell].number = None
                     \/ r.rows[first][cell].number = None
                  THEN "table_text_mismatch"
             ELSE "table_numeric_mismatch"

BytesMismatch(l, r) ==
    IF l = Directory \/ r = Directory THEN None
    ELSE IF l.size # r.size THEN "size_mismatch"
    ELSE IF l.data # r.data THEN "hash_mismatch" ELSE None

\* Mutant: tables that are close enough are not compared byte by byte.
TablesByCellsOnly(path, l, r) ==
    IF path = None \/ path \in Absolute THEN "path_not_comparable"
    ELSE IF l = Nothing /\ r = Nothing THEN None
    ELSE IF l = Nothing \/ r = Nothing THEN "missing_file"
    ELSE IF path \in Tables THEN TableMismatch(l, r)
    ELSE BytesMismatch(l, r)

\* One pair of items.  None stands for the path "" that an item without one gets.
FileMismatch(path, l, r) ==
    IF path = None \/ path \in Absolute THEN "path_not_comparable"
    ELSE IF l = Nothing /\ r = Nothing THEN None
    ELSE IF l = Nothing \/ r = Nothing THEN "missing_file"
    ELSE IF path \in Tables /\ TableMismatch(l, r) # None THEN TableMismatch(l, r)
    ELSE BytesMismatch(l, r)
------------------------------------------------------------------------------
(* The command.                                                            *)

Times(items, s) == Cardinality({n \in DOMAIN items : items[n] = s})

\* The items of one signature are paired, and what is left over is missing on the other
\* side.  The pairs of a signature have one path, so one of them stands for all.
ComparedFiles(left, right) ==
    LET both == ToSet(left.items) \cup ToSet(right.items)
        paired(s) == AtMost(Times(left.items, s), Times(right.items, s))
        mismatch(s) == FileMismatch(s.path, At(left, s.path), At(right, s.path))
    IN  {<<s, mismatch(s)>> : s \in {t \in both : paired(t) > 0 /\ mismatch(t) # None}}
        \cup {<<s, "missing_in_right">> : s \in {t \in both : Times(left.items, t) > paired(t)}}
        \cup {<<s, "missing_in_left">> : s \in {t \in both : Times(right.items, t) > paired(t)}}

Signatures(left, right) ==
    {s \in ToSet(left.items) \cup ToSet(right.items) : Times(left.items, s) # Times(right.items, s)}

CompareManifests(left, right, compareBytes) ==
    LET files == IF compareBytes THEN ComparedFiles(left, right) ELSE {}
    IN  [signatures |-> Signatures(left, right), files |-> files,
         match |-> Signatures(left, right) = {} /\ files = {}]

CmdCompare(left, right, compareBytes) ==
    IF Raises(left, right) # None THEN MainExit(Raises(left, right))
    ELSE IF CompareManifests(left, right, compareBytes).match THEN Success ELSE General
------------------------------------------------------------------------------
(* Properties of two targets.                                              *)

Held(target) == {target.files[p] : p \in DOMAIN target.files} \ {Nothing, Directory}

\* A match is what its name says: the manifests are equal as bags, and with the bytes every
\* file an item names is equal to the last byte on both sides or there on neither, however
\* close the numbers of two tables are.  It does not matter which one is the left one.
MatchIsSound(left, right) ==
    LET match(bytes) == CmdCompare(left, right, bytes) = Success
        same(s) == LET l == At(left, s.path)
                       r == At(right, s.path)
                   IN  \/ l = Nothing /\ r = Nothing
                       \/ Nothing \notin {l, r} /\ Directory \in {l, r}
                       \/ {Nothing, Directory} \cap {l, r} = {} /\ l.data = r.data
    IN  /\ match(FALSE) => \A s \in ToSet(left.items) \cup ToSet(right.items) :
                              Times(left.items, s) = Times(right.items, s)
        /\ match(TRUE) => match(FALSE) /\ \A s \in ToSet(left.items) : same(s)
        /\ \A bytes \in BOOLEAN :
              match(bytes) <=> CmdCompare(right, left, bytes) = Success

==============================================================================
