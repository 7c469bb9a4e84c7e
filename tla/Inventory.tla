------------------------------- MODULE Inventory -------------------------------
(***************************************************************************)
(* What a project holds: the objects discovery finds and merges            *)
(* (inventory.py), the items the list is made of (session.py), their       *)
(* identities (catalog.py), and how get finds the object of an item        *)
(* (commands/get).                                                         *)
(*                                                                         *)
(* A file has the type it was detected as, the header it has, its symbols, *)
(* what the parser makes of it (boundaries of an OPJ, regions of an OPJU), *)
(* the spans of the reports, the offsets where an image (media) or a       *)
(* project header begins, the images, the descriptor tables, whether it is *)
(* so large that discovery streams it and whether it could be mapped.  A   *)
(* name is a sequence of symbols, a path a sequence of names.              *)
(***************************************************************************)
EXTENDS ChunkedScans, RawRegions

\* _OPJU_LARGE_HEURISTIC_ALLOWED_KINDS and the kinds whose guesses an OPJU does not list.
WantedKinds == {"worksheet", "graph", "matrix", "note", "function", "excel"}
ParserRequiredKinds == {"graph", "matrix", "note", "function", "excel"}

CONSTANT WantedLimit    \* _OPJU_LARGE_HEURISTIC_TOTAL_LIMIT

ASSUME WantedAssumption == WantedLimit \in Nat \ {0}

UpTo(name, symbol) ==
    LET at == {k \in DOMAIN name : name[k] = symbol}
    IN  IF at = {} THEN name ELSE SubSeq(name, 1, Min(at) - 1)
Leaf(name) ==
    SubSeq(name, Max({0} \cup {k \in DOMAIN name : name[k] = "/"}) + 1, Len(name))

\* _derive_source_path of a name without a slash: a folder for the known prefixes.
DerivedPath(name) ==
    <<IF name # <<>> /\ name[1] \in DOMAIN KnownPrefixes /\ Len(name) > 1
      THEN <<name[1]>> ELSE <<"object">>, name>>

Key(object) == <<object.kind, object.name>>
------------------------------------------------------------------------------
(* What the parser owns.                                                   *)

SemanticName(b) ==
    LET name == UpTo(b.name, "@") IN IF b.kind = "worksheet" THEN UpTo(name, "_") ELSE name

\* Mutant: a data section yields to a window of its name, whatever the window shows.
YieldsToAnyWindow(boundaries, b) ==
    b.rule = "opj_data_section"
    /\ \E w \in ToSet(boundaries) : w.rule = "opj_window" /\ SemanticName(w) = SemanticName(b)

\* A data section is left out when a window shows the sheet or the matrix.
YieldsToWindow(boundaries, b) ==
    LET kinds == {w.kind : w \in {v \in ToSet(boundaries) :
                     v.rule = "opj_window" /\ SemanticName(v) = SemanticName(b)}}
    IN  /\ b.rule = "opj_data_section"
        /\ \/ b.kind = "worksheet" /\ kinds \cap {"worksheet", "excel"} # {}
           \/ b.kind = "matrix" /\ "matrix" \in kinds

ParserObjects(file) ==
    LET record(b) == [offset |-> b.offset, length |-> b.length, name |-> b.name, kind |-> b.kind,
                      path |-> b.path, confirmed |-> TRUE, signal |-> None, plain |-> FALSE]
    IN  If(file.header = "opju" \/ ~file.streamed, Each(file.regions, record))
        \o Each(If(file.header = "opj",
                   Those(file.boundaries, LAMBDA b : ~YieldsToWindow(file.boundaries, b))),
                record)
------------------------------------------------------------------------------
(* What the scans of the bytes add.                                        *)

InReport(file, offset) == \E span \in file.reports : offset \in span[1] .. span[2] - 1

Guesses(file, opts, owned) ==
    LET wanted == file.header = "opju" /\ owned # <<>>
        limits == [repeats |-> opts.repeats, perKind |-> opts.perKind,
                   allowed |-> IF wanted THEN WantedKinds ELSE None,
                   total |-> IF wanted THEN WantedLimit ELSE None]
        record(h) == [offset |-> h.offset, length |-> Len(h.name), name |-> h.name,
                      kind |-> IF h.kind = "unclassified" THEN None ELSE h.kind,
                      path |-> <<>>, confirmed |-> FALSE, signal |-> h.signal, plain |-> FALSE]
    IN  Those(Each(Heuristics(limits, file.symbols, file.mapped), record),
              LAMBDA o : ~(/\ file.header = "opju" /\ o.kind \in {"graph", "layer"}
                           /\ o.signal = "bracket_scan" /\ InReport(file, o.offset)))

\* The path a guessed matrix takes from the parser's matrix of its name, if there is one.
MatrixPaths(owned, name) ==
    {o.path : o \in {p \in ToSet(owned) : p.kind = "matrix" /\ name \in {p.name, Leaf(p.name)}}}
PreferredPath(owned, o) ==
    LET only(paths, other) == IF Cardinality(paths) = 1 THEN CHOOSE p \in paths : TRUE ELSE other
    IN  IF o.kind # "matrix" THEN o.path
        ELSE only(MatrixPaths(owned, o.name), only(MatrixPaths(owned, Leaf(o.name)), o.path))

\* _merge_parser_and_heuristic_objects: a guess of a name the parser has of the same kind
\* stays once for each path, unless it is a note or at the parser's own offset or path.
Merge(owned, guesses) ==
    LET repeats(o) == \E p \in ToSet(owned) : Key(p) = Key(o)
                                               /\ (p.offset = o.offset \/ p.path = o.path)
        known(o) == \E p \in ToSet(owned) : Key(p) = Key(o)
        dropped(placed, n, o) ==
            /\ known(o)
            /\ \/ o.kind = "note"
               \/ repeats(o)
               \/ \E m \in 1 .. n - 1 : Key(placed[m]) = Key(o) /\ placed[m].path = o.path
                                        /\ ~repeats(placed[m])
        kept(placed) == Picked(placed, {n \in DOMAIN placed : ~dropped(placed, n, placed[n])})
    IN  IF owned = <<>> THEN guesses
        ELSE owned \o kept(Each(guesses, LAMBDA o : [o EXCEPT !.path = PreferredPath(owned, o)]))
------------------------------------------------------------------------------
(* The inventory.                                                          *)

\* Large files are looked at where the object begins, the parser's objects too.
AtSignature(file, o) ==
    IF file.streamed THEN o.offset \in file.media \cup file.headers
    ELSE /\ ~o.confirmed
         /\ \/ o.offset \in file.media
            \/ \E r \in ToSet(file.regions) : r.kind = "worksheet" /\ r.name = o.name

\* What a file with a header yields in which nothing was found: it is neither a guess nor
\* the parser's.
OriginProject ==
    [offset |-> 0, length |-> 0, name |-> <<"origin_project">>, kind |-> None,
     path |-> <<<<"project">>, <<"origin_project">>>>, confirmed |-> FALSE, signal |-> None,
     plain |-> TRUE]

\* The most objects of a kind and a name: the parser's go first wherever they are.
CapRepeats(objects, most) ==
    LET of(n, confirmed) == {m \in DOMAIN objects : /\ Key(objects[m]) = Key(objects[n])
                                                   /\ objects[m].confirmed = confirmed}
        slots(n) == IF objects[n].confirmed THEN most
                    ELSE most - AtMost(Cardinality(of(n, TRUE)), most)
        before(n) == {m \in of(n, objects[n].confirmed) : m < n}
    IN  IF most = None THEN objects
        ELSE Picked(objects, {n \in DOMAIN objects : Cardinality(before(n)) < slots(n)})

\* discover_origin_objects.
Objects(file, opts) ==
    LET merged(owned) == IF opts.collect THEN Merge(owned, Guesses(file, opts, owned)) ELSE owned
        clear(objects) == Those(objects, LAMBDA o : ~AtSignature(file, o))
        placed(o) == IF o.path = <<>> THEN [o EXCEPT !.path = DerivedPath(o.name)] ELSE o
        some(once) == IF once = <<>> /\ file.header # None THEN <<OriginProject>> ELSE once
        limited(once) == CapRepeats(ByOffset(some(once)), opts.repeats)
        titled(o, path) ==
            [offset |-> o.offset, length |-> o.length, name |-> o.name, kind |-> o.kind,
             path |-> path, confirmed |-> o.confirmed, signal |-> o.signal, plain |-> o.plain,
             root |-> o.path[1]]
        named(objects, paths) ==
            [n \in DOMAIN objects |-> titled(objects[n], paths[n])]
        unique(objects) == named(objects, UniquePaths(Each(objects, LAMBDA o : o.path)))
    IN  IF file.symbols = <<>> /\ ~file.streamed THEN <<>>
        ELSE unique(limited(FirstOfEach(Each(clear(merged(ParserObjects(file))), placed),
                                        LAMBDA o : <<o.offset, o.kind, o.name>>)))

AllObjects == [repeats |-> None, perKind |-> None, collect |-> TRUE]
------------------------------------------------------------------------------
(* The choices of the commands.                                            *)

\* _filter_parser_required_opju_objects: with a parser's object of the kind or without one,
\* no guess of it stays.
WithoutGuessesOf(objects, kinds) == Those(objects, LAMBDA o : o.confirmed \/ o.kind \notin kinds)

\* _coalesce_opj_parser_matrix_objects: the sheets of a matrix book and not the book.
Coalesce(objects) ==
    LET sheets(matrices) ==
            {m \in matrices : /\ m.path[2] = 1 /\ Len(m.path[1]) >= 2
                              /\ m.path[1][Len(m.path[1])] = m.name
                              /\ m.path[1][Len(m.path[1]) - 1] # m.name}
        without(matrices) ==
            LET books == {m.path[1][Len(m.path[1]) - 1] : m \in sheets(matrices)}
            IN  IF matrices = {} THEN objects
                ELSE Those(objects, LAMBDA o : \/ o.kind # "matrix"
                                               \/ o.confirmed /\ o.name \notin books)
    IN  without({o \in ToSet(objects) : o.kind = "matrix" /\ o.confirmed})

\* objects_for_tabular_extraction of an inventory that is not replaced.
TabularObjects(file, objects, kind) ==
    IF /\ kind = "worksheet" /\ file.type = "opj"
       /\ \E o \in ToSet(objects) : o.kind = "worksheet" /\ o.confirmed
    THEN WithoutGuessesOf(objects, {"worksheet"})
    ELSE IF kind = "matrix" /\ file.type = "opj" THEN Coalesce(objects)
    ELSE IF file.type = "opju" /\ kind # "worksheet"
    THEN WithoutGuessesOf(objects, ParserRequiredKinds \ {"graph"})
    ELSE objects

\* _limit_extract_objects.
LimitGuesses(objects, most) ==
    LET before(n) == {m \in 1 .. n - 1 : ~objects[m].confirmed /\ objects[m].kind = objects[n].kind}
    IN  Picked(objects, {n \in DOMAIN objects :
                            objects[n].confirmed \/ Cardinality(before(n)) < most})

ListKind(file, o) ==
    IF file.type = "opju" /\ o.signal # None
    THEN IF o.kind = None THEN "origin_object" ELSE o.kind
    ELSE IF file.type = "opju" /\ o.kind = "opju_report" THEN "origin_storage_report"
    ELSE IF file.type = "opju" /\ o.kind = "worksheet" THEN "worksheet"
    ELSE IF file.type = "opju" /\ o.kind = "opju_preview" THEN "image"
    ELSE "origin_object"
------------------------------------------------------------------------------
(* The items.  An item has what its identity is made of and whether it is  *)
(* taken for a guess.                                                      *)

Item(discovery, kind, objectKind, name, path, offset, length, window, heuristic) ==
    [id |-> <<discovery, kind, objectKind, name, path, offset, length, window>>,
     heuristic |-> heuristic, discovery |-> discovery]

ListedObjects(file, perKind) ==
    LET owned(objects) == {o.kind : o \in {p \in ToSet(objects) : p.confirmed}} \ {None}
        listed(objects) == IF file.type = "opju"
                           THEN WithoutGuessesOf(objects, ParserRequiredKinds \cup owned(objects))
                           ELSE objects
    IN  listed(Objects(file, [AllObjects EXCEPT !.perKind = perKind]))

ObjectItem(file, w) ==
    LET o == w.object
        backed == o.confirmed /\ ~o.plain
    IN  Item(IF backed THEN "opj_boundary" ELSE "object_discovery", ListKind(file, o),
             o.kind, o.name, o.path, o.offset, o.length, <<w.start, w.end>>, o.signal # None)

GapItems(file, objects) ==
    LET backed == Those(objects, LAMBDA o : o.confirmed)
        owned == file.type = "opj" /\ backed # <<>>
        run == [b \in 0 .. Len(file.symbols) - 1 |-> IF file.symbols[b + 1] \in Printable THEN 1 ELSE 0]
        class(r) == Class([images |-> file.images, run |-> run, numeric |-> {}], r, ClassText, TRUE)
        gap(r) == Item(IF owned THEN "raw_region" ELSE "unknown_gap", "raw_dump", class(r), None,
                       None, r[1], r[2], None, TRUE)
    IN  Each(GapRanges(Len(file.symbols),
                       Covered(file.images, IF owned THEN backed ELSE objects, Len(file.symbols)), 1),
             gap)

\* list_items.
ListItems(file, opts) ==
    LET image(r) == Item("carved", "png", None, None, None, r[1], r[2], None, TRUE)
        table(t) == Item("opju_column_descriptor_table", "worksheet", "worksheet", t[1], <<t[1]>>,
                         t[2], t[3] - t[2], <<t[2], t[3]>>, FALSE)
        items(objects) ==
            If(opts.images, Each(file.images, image))
            \o Each(Windows(objects, Len(file.symbols), FALSE), LAMBDA w : ObjectItem(file, w))
            \o If(file.type = "opju", Each(file.tables, table))
            \o If(opts.gaps, GapItems(file, objects))
    IN  items(ListedObjects(file, opts.perKind))

\* _coerce_list_heuristic_kind_limit: the limits of a list, which can be told to have none.  An
\* OPJ is limited when it is so large that discovery streams it as well.
ListLimits(file) ==
    {None} \cup IF file.type = "opju" \/ file.streamed THEN {CapLimit} ELSE {}

\* catalog_items: an identity and the how manieth of its kind it is.  Items of one identity
\* are of one place in the order of the catalog.
CatalogItems(items) ==
    [n \in DOMAIN items |->
        [items[n] EXCEPT !.id = <<@, Cardinality({m \in 1 .. n : items[m].id = items[n].id})>>]]

\* Mutant: get takes the limit an OPJU has by default.
CatalogWithDefault(file) ==
    CatalogItems(ListItems(file, [images |-> TRUE, gaps |-> TRUE,
                                  perKind |-> IF file.type = "opju" THEN CapLimit ELSE None]))

\* _catalog_for_get: every object and every gap.
CatalogForGet(file) ==
    CatalogItems(ListItems(file, [images |-> TRUE, gaps |-> TRUE, perKind |-> None]))

\* _target_object: the object of the inventory an item of the catalog is about.
Target(objects, item) ==
    LET about(o) == /\ o.name = item.id[1][4]
                    /\ o.offset = item.id[1][6]
                    /\ o.length = item.id[1][7]
                    /\ o.path = item.id[1][5]
        first(found) == IF found = <<>> THEN None ELSE found[1]
    IN  first(Those(objects, about))
------------------------------------------------------------------------------
(* Properties of one file and the options of one command.                  *)

\* Discovery keeps what the parser owns and guesses beside it: a place, a kind and a name
\* are there once and the limit of the repeats holds; a sheet of the parser is there, as the
\* boundary or as the window it yielded to, unless others of its name fill the limit; no
\* guess takes the slot of an object of the parser; a file with a header is never empty.
InventoryIsSound(file, opts, objects) ==
    LET known == {[offset |-> o.offset, kind |-> o.kind, name |-> o.name] : o \in ToSet(objects)}
        of(key) == {o \in ToSet(objects) : Key(o) = key}
        full(key) == opts.repeats # None
                     /\ Cardinality({o \in of(key) : o.confirmed}) >= opts.repeats
        shown(b) == \/ [offset |-> b.offset, kind |-> b.kind, name |-> b.name] \in known
                    \/ full(Key(b))
    IN  /\ Cardinality(known) = Len(objects)
        /\ opts.repeats # None =>
              \A o \in ToSet(objects) : Cardinality(of(Key(o))) <= opts.repeats
        /\ ~file.streamed =>
              \A b \in ToSet(IF file.header = "opj" THEN file.boundaries ELSE file.regions) :
                 \/ shown(b)
                 \/ \E w \in ToSet(file.boundaries) :
                       /\ w # b /\ shown(w) /\ SemanticName(w) = SemanticName(b)
                       /\ w.kind \in {b.kind, IF b.kind = "worksheet" THEN "excel" ELSE b.kind}
        /\ file.header # None /\ file.symbols # <<>> => objects # <<>>

\* The choices for one family keep the parser's objects of the family, but for the book of
\* a matrix sheet, and drop the guesses of it when there are any.
TabularKeepsTheParsers(file, objects) ==
    LET owned(kind) == {o \in ToSet(objects) : o.kind = kind /\ o.confirmed}
        books(kind) == {o \in owned(kind) : \E m \in owned(kind) :
                           /\ m # o /\ Len(m.path[1]) >= 2
                           /\ m.path[1][Len(m.path[1]) - 1] = o.name}
        keeps(kind, chosen) ==
            /\ chosen \subseteq ToSet(objects)
            /\ owned(kind) \ books(kind) \subseteq chosen
            /\ kind = "matrix" /\ owned(kind) # {} => \A o \in chosen : o.kind = kind => o.confirmed
    IN  \A kind \in {"worksheet", "matrix", "excel"} :
           keeps(kind, ToSet(TabularObjects(file, objects, kind)))

\* Get knows the items of a list that is not limited by their identities, and the object it
\* takes for one is the one the item was made of.
OfObjects == {"opj_boundary", "object_discovery"}

FindsItsObject(item, objects) ==
    LET target == Target(objects, item)
    IN  item.discovery \in OfObjects /\ item.id[1][4] # OriginProject.name =>
           target # None /\ target.kind = item.id[1][3]

IdsResolve(file, opts) ==
    LET resolve(items, catalog, objects) ==
            \A item \in items : item \in catalog /\ FindsItsObject(item, objects)
    IN  resolve(ToSet(CatalogItems(ListItems(file, opts))), ToSet(CatalogForGet(file)),
                Objects(file, AllObjects))

\* An item of any list is known to get or, when get is given the catalog it is from, get finds
\* the object of it.
IdsResolveSomehow(file, opts) ==
    LET resolve(items, catalog, objects) ==
            \A item \in items : item \in catalog \/ FindsItsObject(item, objects)
    IN  resolve(ToSet(CatalogItems(ListItems(file, opts))), ToSet(CatalogForGet(file)),
                Objects(file, AllObjects))
==============================================================================
