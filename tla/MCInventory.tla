------------------------------ MODULE MCInventory ------------------------------
(***************************************************************************)
(* Small inputs of Inventory.                                              *)
(***************************************************************************)
EXTENDS Inventory, MCSubject

Book == <<"B", "x">>
Matrix == <<"M", "x">>
Sheet == <<"M", "S">>

Boundary(offset, name, kind, rule, path) ==
    [offset |-> offset, length |-> 1, name |-> name, kind |-> kind, rule |-> rule, path |-> path]
Boundaries ==
    {Boundary(1, Book, "worksheet", "opj_data_section", <<<<"B">>, Book>>),
     Boundary(0, Book \o <<"@", "1">>, "worksheet", "opj_data_section", <<<<"B">>, Book>>),
     Boundary(3, Book, "worksheet", "opj_window", <<Book>>),
     Boundary(2, Book, "graph", "opj_window", <<Book>>),
     Boundary(0, Matrix, "matrix", "opj_window", <<<<"M">>, Matrix>>),
     Boundary(3, Sheet, "matrix", "opj_window", <<Matrix, Sheet>>)}
Regions ==
    {Boundary(1, Book, "worksheet", "opju_region", <<<<"B">>, Book>>),
     Boundary(0, <<"p">>, "project_page", "opju_region", <<<<"p">>>>)}
UpToTwo(S) == {<<>>} \cup {<<a>> : a \in S} \cup {<<a, b>> : a, b \in S}

Symbols ==
    {<<" ", " ", " ", " ", " ">>, Book \o <<" ">> \o Book, Matrix \o <<" ">> \o Matrix,
     Book \o <<" ", "G", "x", " ">> \o Book,
     <<"G", "x", " ", "G", "x", " ">> \o Book, <<"x", "[">> \o Book \o <<"]", "x">> \o <<" ">> \o Book, <<" ", " ">> \o Matrix \o <<" ">>}

Projects ==
    [type : {"opj"}, header : {"opj"}, symbols : Symbols, boundaries : UpToTwo(Boundaries),
     regions : {<<>>}, reports : {{}}, media : {{1}}, headers : {{0}},
     images : {<<<<1, 2>>>>}, tables : {<<>>}, streamed : BOOLEAN, mapped : {TRUE}]
    \cup
    [type : {"opju"}, header : {"opju"}, symbols : Symbols, boundaries : {<<>>},
     regions : UpToTwo(Regions), reports : {{}, {<<0, 3>>}}, media : {{}, {3}}, headers : {{0}},
     images : {<<>>}, tables : {<<<<Book, 0, 2>>, <<Book, 1, 2>>>>}, streamed : BOOLEAN,
     mapped : BOOLEAN]
DiscoveryOptions == [repeats : {1, 2, None}, perKind : {None, 1}, collect : BOOLEAN]
ListOptions(file) == [images : {TRUE}, gaps : BOOLEAN, perKind : ListLimits(file)]

DiscoverAFile ==
    /\ Turn(3)
    /\ \E f \in Projects, o \in DiscoveryOptions :
          subject' = [of |-> "inventory", file |-> f, opts |-> o]

ListAFile ==
    /\ Turn(4)
    /\ \E f \in Projects : \E o \in ListOptions(f) :
          subject' = [of |-> "list", file |-> f, opts |-> o]
------------------------------------------------------------------------------
\* Discovery loses nothing the parser found and respects its limits, and neither do the
\* choices the commands make of the inventory.
NothingParsedIsLost ==
    LET isKept(objects) == /\ InventoryIsSound(subject.file, subject.opts, objects)
                           /\ TabularKeepsTheParsers(subject.file, objects)
    IN  subject.of = "inventory" => isKept(Objects(subject.file, subject.opts))

\* The items of a list that is not limited can be retrieved by their identities, from a catalog
\* that get builds again and an inventory that it discovers again.
ListedIsRetrievable ==
    subject.of = "list" /\ subject.opts.perKind = None => IdsResolve(subject.file, subject.opts)

\* The items of any list of an OPJU can be retrieved by their identities, if not from the
\* catalog that get builds, then from the one that list has printed: the manual says both.
AllListedIsRetrievable ==
    subject.of = "list" /\ subject.file.type = "opju" =>
        IdsResolveSomehow(subject.file, subject.opts)
==============================================================================
