----------------------------- MODULE MCOpjWalk -----------------------------
(* Small projects as Origin writes them, each with the ranges of its       *)
(* records: the reference the walk is compared with.                       *)
EXTENDS OpjWalk

MCNL == 9
MCAttachMark == 7

Piece(cells) == [cells |-> cells, elements |-> {}]

Moved(elements, d) == {Element(e.kind, e.start + d, e.end + d) : e \in elements}

a ** b == [cells    |-> a.cells \o b.cells,
           elements |-> a.elements \cup Moved(b.elements, Len(a.cells))]

Record(kind, a) ==
    [a EXCEPT !.elements = @ \cup {Element(kind, 0, Len(a.cells))}]

Nothing == Piece(<<>>)
End == Piece(<<0, MCNL>>)
Object(payload) ==
    Piece(<<Len(payload), MCNL>> \o payload \o (IF payload = <<>> THEN <<>> ELSE <<MCNL>>))

Header == Record("global_header", Object(<<1>>) ** End)
Dataset == Record("dataset", Object(<<1>>) ** Object(<<MCNL, 2>>) ** Object(<<>>))
Note == Record("note", Object(<<2>>) ** Object(<<>>) ** Object(<<1>>))
Parameter == Record("parameter", Piece(<<1, MCNL, 3, MCNL>>))
Parameters(list) == list ** Piece(<<0, MCNL, 0, MCNL>>)

Plain == Record("annotation", Object(<<1>>) ** Object(<<1>>) ** Object(<<1>>) ** Object(<<>>))
Group(inner) ==
    Record("annotation", Object(<<1>>) ** Object(<<1, 1>>) ** Piece(<<1, MCNL>>)
                         ** inner ** End ** Object(<<1>>))
Curve == Record("curve", Object(<<1>>) ** Object(<<>>))
Break == Record("axis_break", Object(<<1>>))
Axis == Record("axis_parameter", Object(<<2>>))
Layer(annotations, curves, breaks, axes) ==
    Record("layer", Object(<<1>>) ** annotations ** End ** curves ** End ** breaks ** End
                    ** axes ** End ** End ** End)
Window(layers) == Record("window", Object(<<1>>) ** layers ** End)

Leaf == Record("project_leaf", Object(<<>>) ** Object(<<1, 0>>) ** End)
Folder(properties, files, leaves, folders, inner) ==
    Record("project_folder", Object(<<1>>) ** End ** Object(<<1>>) ** properties
        ** Object(<<files>>) ** leaves ** Object(<<folders>>) ** inner)
Bare == Folder(Piece(<<0, MCNL>>), 0, Nothing, 0, Nothing)
Tree(folder) == Record("project_tree", Object(<<1>>) ** Object(<<1>>) ** folder ** End)

First == Record("attachment", Piece(<<1, 1, 2, MCNL>>) ** Piece(<<5, 5, MCNL>>))
Second == Record("attachment", Piece(<<4, 1, 1>>) ** Piece(<<5, 5>>))
FirstGroup == Object(<<MCAttachMark, 1>>) ** First
Attachments(groups) == Record("attachment_list", groups)

Project(datasets, windows, parameters, rest) ==
    Header ** datasets ** End ** windows ** End ** Parameters(parameters) ** rest

(* Projects with every kind of record, short enough to damage anywhere. *)
MCProjects == {
    Header ** End ** End,
    Project(Dataset ** Dataset, Nothing, Nothing, Note ** End),
    Project(Nothing, Window(Layer(Plain ** Group(Plain), Curve, Break, Axis)), Nothing, Nothing),
    Project(Dataset, Window(Layer(Nothing, Nothing, Nothing, Nothing)) ** Window(Nothing),
            Parameter, Note ** Note ** End),
    Project(Nothing, Nothing, Parameter ** Parameter,
            End ** Tree(Folder(Piece(<<1, MCNL>>) ** Object(<<2>>), 2, Leaf ** Leaf, 0, Nothing))
                ** Attachments(FirstGroup ** Second ** Second)),
    Project(Nothing, Nothing, Nothing,
            End ** Tree(Folder(Piece(<<0, MCNL>>), 1, Leaf, 2, Bare ** Bare))
                ** Attachments(FirstGroup)),
    Project(Dataset, Nothing, Nothing, End ** Tree(Bare) ** Attachments(Second ** Second))}
============================================================================
