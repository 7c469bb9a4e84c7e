------------------------------ MODULE OpjWalk ------------------------------
(***************************************************************************)
(* The sequential walk of an OPJ file (opj/stream.py, opj/walker.py,       *)
(* opj/structures/walker_tail.py): a cursor that reads sizes, delimiters   *)
(* and payloads one after the other, through nested lists of records, and  *)
(* notes the range of every record it completes.                           *)
(*                                                                         *)
(* A file is a sequence of cells after the signature line.  A cell stands  *)
(* for one u32 or f64 field, one delimiter or one unit of payload: a size  *)
(* is read from one cell, its "\n" from the next one, and counts cells.    *)
(* A cell read out of place is a number or a delimiter all the same, as a  *)
(* byte is.                                                                *)
(*                                                                         *)
(* Callers walk a file strictly first and tolerantly when that fails (or   *)
(* tolerantly only); the two walks run here one after the other, on an     *)
(* intact file, on a file cut short or with one cell changed.  A strict    *)
(* walk raises what it meets, a tolerant one returns from the record or    *)
(* the list it is in, and the next part reads on from where the cursor is. *)
(***************************************************************************)
EXTENDS Integers, Sequences

CONSTANTS
    Projects,     \* what Origin wrote: [cells, elements], see Written
    Cells,        \* the values a damaged cell can take
    NL,           \* the delimiter "\n", which is also a number
    GroupData,    \* the sizes of data 1 that make an annotation a group (0x5E, 0x0A)
    AttachMark    \* the first field of the first attachment group (0x1000)

ASSUME CellsAssumption ==
    /\ NL \in Nat \ {0}
    /\ Cells \subseteq Nat
    /\ \A p \in Projects : p.cells \in Seq(Nat)

VARIABLES
    project,      \* what Origin wrote
    file,         \* the cells to walk
    tolerant,     \* the mode of this walk
    cursor,       \* how many cells lie before the cursor (OpjStream._offset)
    section,      \* the number of sections walk_opj_file has begun
    stack,        \* the calls in progress, the innermost first
    found,        \* the elements of the finished sections
    outcome,      \* "walking", "complete", "error" or "truncated"
    strict        \* the result of the strict walk, once it has ended

vars == <<project, file, tolerant, cursor, section, stack, found, outcome, strict>>

inputVars == <<project, file, tolerant, strict>>

----------------------------------------------------------------------------
(* OpjStream: what the cells after position p hold. *)

HasSize(p) == p + 2 <= Len(file) /\ file[p + 2] = NL

Size(p) == file[p + 1]

\* Mutant: a size that runs past the end is like any malformed one.
SizeFaultIsError(p) == "error"

SizeFault(p) == IF p + 2 > Len(file) THEN "truncated" ELSE "error"

(* read_object: the payload and one delimiter, nothing when the size is 0. *)
HasObject(p, size) ==
    size = 0 \/ (p + size + 1 <= Len(file) /\ file[p + size + 1] = NL)

ObjectEnd(p, size) == IF size = 0 THEN p ELSE p + size + 1

ObjectFault(p, size) == IF p + size + 1 > Len(file) THEN "truncated" ELSE "error"

\* Mutant: the cursor is moved before the bytes are known to be there.
StrandedPastTheEnd(p, size) == p + size + 1

(* Where a read_object that fails leaves the cursor. *)
Stranded(p, size) ==
    CASE p + size > Len(file) -> p
      [] p + size = Len(file) -> p + size
      [] OTHER                -> p + size + 1

(* A size and the object it announces. *)
HasField(p) == HasSize(p) /\ HasObject(p + 2, Size(p))

FieldEnd(p) == ObjectEnd(p + 2, Size(p))

FieldFault(p) == IF HasSize(p) THEN ObjectFault(p + 2, Size(p)) ELSE SizeFault(p)

FieldStranded(p) == IF HasSize(p) THEN Stranded(p + 2, Size(p)) ELSE p

(* The first number of a field's payload, 0 when there is none. *)
Count(p) == IF Size(p) > 0 THEN file[p + 3] ELSE 0

(* _read_line: the position after the line that begins at p. *)
HasLine(p) == \E i \in (p + 1) .. Len(file) : file[i] = NL

LineEnd(p) ==
    CHOOSE i \in (p + 1) .. Len(file) :
        file[i] = NL /\ \A j \in (p + 1) .. (i - 1) : file[j] # NL

----------------------------------------------------------------------------
(* What each kind of record is made of, in the order the walker reads it:  *)
(*   "first"     a size, 0 when the list ends here, and its object         *)
(*   "object"    a size and its object                                     *)
(*   "group"     the same, or a nested list of annotations                 *)
(*   "mark"      a size that should be 0                                   *)
(*   "times"     a size that says how many properties follow               *)
(*   "counted"   an object that says how many leaves or folders follow     *)
(*   "leaves", "folders", "properties"   that many of them                 *)
(* and the name of another kind for one list or record of it.              *)
Layout == [
    global_header   |-> <<"object", "mark">>,
    dataset         |-> <<"first", "object", "object">>,
    window          |-> <<"first", "layer">>,
    layer           |-> <<"first", "annotation", "curve", "axis_break",
                          "axis_parameter", "axis_parameter", "axis_parameter">>,
    annotation      |-> <<"first", "object", "group", "object">>,
    curve           |-> <<"first", "object">>,
    axis_break      |-> <<"first">>,
    axis_parameter  |-> <<"first">>,
    parameter       |-> <<"line">>,
    note            |-> <<"first", "object", "object">>,
    project_tree    |-> <<"object", "object", "project_folder", "mark">>,
    project_folder  |-> <<"object", "mark", "object", "times", "properties",
                          "counted", "leaves", "counted", "folders">>,
    project_leaf    |-> <<"object", "object", "mark">>,
    attachment_list |-> <<"group_1", "attachments_1", "attachments_2">>]

Kinds == DOMAIN Layout

Sections == <<"global_header", "dataset", "window", "parameter", "note",
              "project_tree", "attachment_list">>

(* The kinds that come as lists: a record that cannot be read ends the     *)
(* list, and the list keeps what it has.  Other kinds return nothing then. *)
Lists == {"dataset", "window", "layer", "annotation", "curve", "axis_break",
          "axis_parameter", "parameter", "note"}

Element(kind, start, end) == [kind |-> kind, start |-> start, end |-> end]

Frame(kind, start, kids) ==
    [kind |-> kind, start |-> start, step |-> 1, n |-> 0, kids |-> kids]

Top == Head(stack)

AtEnd(frame) == frame.step > Len(Layout[frame.kind])

Instruction(frame) ==
    IF AtEnd(frame) THEN "emit" ELSE Layout[frame.kind][frame.step]

At(instructions) ==
    outcome = "walking" /\ stack # <<>> /\ Instruction(Top) \in instructions

Stepped(frame) == [frame EXCEPT !.step = @ + 1]

\* Mutant: the folders are read until all of them are there.
ResumedUntilRead(frame, kids, ok) ==
    LET caller == [frame EXCEPT !.kids = @ \cup kids]
    IN  CASE Instruction(frame) = "leaves"  -> [caller EXCEPT !.n = IF ok THEN @ - 1 ELSE 0]
          [] Instruction(frame) = "folders" -> [caller EXCEPT !.n = IF ok THEN @ - 1 ELSE @]
          [] OTHER                          -> Stepped(caller)

(* The caller once a call it made has returned: a leaf that could not be   *)
(* read ends the loop over the leaves.                                     *)
Resumed(frame, kids, ok) ==
    LET caller == [frame EXCEPT !.kids = @ \cup kids]
    IN  CASE Instruction(frame) = "leaves"  -> [caller EXCEPT !.n = IF ok THEN @ - 1 ELSE 0]
          [] Instruction(frame) = "folders" -> [caller EXCEPT !.n = @ - 1]
          [] OTHER                          -> Stepped(caller)

(* How a call goes on, calls another, returns, gives up or raises. *)
Continue(c, frame) ==
    /\ cursor' = c
    /\ stack' = <<frame>> \o Tail(stack)
    /\ UNCHANGED <<section, found, outcome>>

Call(kind, c) ==
    /\ cursor' = c
    /\ stack' = <<Frame(kind, c, {})>> \o stack
    /\ UNCHANGED <<section, found, outcome>>

Return(c, kids, ok) ==
    /\ cursor' = c
    /\ IF Len(stack) = 1
       THEN stack' = <<>> /\ found' = found \cup kids
       ELSE /\ stack' = <<Resumed(stack[2], kids, ok)>> \o Tail(Tail(stack))
            /\ UNCHANGED found
    /\ UNCHANGED <<section, outcome>>

Raise(fault) ==
    /\ outcome' = fault
    /\ UNCHANGED <<cursor, section, stack, found>>

\* Mutants: a list that cannot go on drops what it has, or goes back to the
\* record it could not read.
FailDropsTheList(c, fault) ==
    IF ~tolerant THEN Raise(fault)
    ELSE IF Top.kind = "project_tree" /\ Instruction(Top) = "mark"
    THEN Continue(c, Stepped(Top))
    ELSE Return(c, {}, FALSE)

FailGoesBack(c, fault) ==
    IF ~tolerant THEN Raise(fault)
    ELSE IF Top.kind \in Lists THEN Return(Top.start, Top.kids, TRUE)
    ELSE IF Top.kind = "project_tree" /\ Instruction(Top) = "mark"
    THEN Continue(c, Stepped(Top))
    ELSE Return(c, {}, FALSE)

(* A read failed and left the cursor at c.  The tree notes itself even     *)
(* without its end mark (walker_tail.py:202-211).                          *)
Fail(c, fault) ==
    IF ~tolerant THEN Raise(fault)
    ELSE IF Top.kind \in Lists THEN Return(c, Top.kids, TRUE)
    ELSE IF Top.kind = "project_tree" /\ Instruction(Top) = "mark"
    THEN Continue(c, Stepped(Top))
    ELSE Return(c, {}, FALSE)

----------------------------------------------------------------------------
Damaged(cells) ==
    {cells} \cup {SubSeq(cells, 1, k) : k \in 0 .. (Len(cells) - 1)}
            \cup {[cells EXCEPT ![i] = v] : i \in DOMAIN cells, v \in Cells}

Init ==
    /\ project \in Projects
    /\ file \in Damaged(project.cells)
    /\ tolerant = FALSE
    /\ cursor = 0
    /\ section = 0
    /\ stack = <<>>
    /\ found = {}
    /\ outcome = "walking"
    /\ strict = [outcome |-> "none", elements |-> {}]

(* walk_opj_file begins the next section, unless the file has ended; the   *)
(* global header is read in any case.                                      *)
BeginSection ==
    /\ outcome = "walking" /\ stack = <<>>
    /\ section < Len(Sections) /\ (section = 0 \/ cursor < Len(file))
    /\ section' = section + 1
    /\ stack' = <<Frame(Sections[section + 1], cursor, {})>>
    /\ UNCHANGED <<cursor, found, outcome, inputVars>>

Complete ==
    /\ outcome = "walking" /\ stack = <<>>
    /\ section = Len(Sections) \/ (section > 0 /\ cursor >= Len(file))
    /\ outcome' = "complete"
    /\ UNCHANGED <<cursor, section, stack, found, inputVars>>

(* A list ends at a size 0. *)
EndList ==
    /\ At({"first"})
    /\ HasSize(cursor) /\ Size(cursor) = 0
    /\ Return(cursor + 2, Top.kids, TRUE)
    /\ UNCHANGED inputVars

(* data 1 and data 2 of an annotation announce a nested list.              *)
IsGroup ==
    /\ Instruction(Top) = "group" /\ Top.n \in GroupData
    /\ HasSize(cursor) /\ Size(cursor) = 1

ReadField ==
    /\ At({"first", "object", "group", "counted", "properties"})
    /\ Instruction(Top) = "first" => ~(HasSize(cursor) /\ Size(cursor) = 0)
    /\ Instruction(Top) = "properties" => Top.n > 0
    /\ ~IsGroup
    /\ IF ~HasField(cursor) THEN Fail(FieldStranded(cursor), FieldFault(cursor))
       ELSE Continue(FieldEnd(cursor),
                CASE Instruction(Top) = "properties" -> [Top EXCEPT !.n = @ - 1]
                  [] Instruction(Top) = "counted"    -> [Stepped(Top) EXCEPT !.n = Count(cursor)]
                  [] OTHER                           -> [Stepped(Top) EXCEPT !.n = Size(cursor)])
    /\ UNCHANGED inputVars

EnterGroup ==
    /\ At({"group"}) /\ IsGroup
    /\ Call("annotation", cursor + 2)
    /\ UNCHANGED inputVars

\* Mutant: a strict walk passes over a mark that is not 0.
ReadMarkLeniently ==
    /\ At({"mark"})
    /\ IF ~HasSize(cursor) THEN Fail(cursor, SizeFault(cursor))
       ELSE IF Size(cursor) # 0 /\ Top.kind = "project_leaf" /\ tolerant
       THEN Fail(cursor + 2, "error")
       ELSE Continue(cursor + 2, Stepped(Top))
    /\ UNCHANGED inputVars

(* A mark other than 0 is an error of a strict walk; a tolerant walk gives *)
(* the leaf up and passes over the others.                                 *)
ReadMark ==
    /\ At({"mark"})
    /\ IF ~HasSize(cursor) THEN Fail(cursor, SizeFault(cursor))
       ELSE IF Size(cursor) # 0 /\ (~tolerant \/ Top.kind = "project_leaf")
       THEN Fail(cursor + 2, "error")
       ELSE Continue(cursor + 2, Stepped(Top))
    /\ UNCHANGED inputVars

ReadTimes ==
    /\ At({"times"})
    /\ IF HasSize(cursor)
       THEN Continue(cursor + 2, [Stepped(Top) EXCEPT !.n = Size(cursor)])
       ELSE Fail(cursor, SizeFault(cursor))
    /\ UNCHANGED inputVars

EndLoop ==
    /\ At({"properties", "leaves", "folders"}) /\ Top.n = 0
    /\ Continue(cursor, Stepped(Top))
    /\ UNCHANGED inputVars

CallLeaf ==
    /\ At({"leaves"}) /\ Top.n > 0
    /\ Call("project_leaf", cursor)
    /\ UNCHANGED inputVars

CallFolder ==
    /\ At({"folders"}) /\ Top.n > 0
    /\ Call("project_folder", cursor)
    /\ UNCHANGED inputVars

CallPart ==
    /\ At(Kinds)
    /\ Call(Instruction(Top), cursor)
    /\ UNCHANGED inputVars

(* The record is complete: a list begins its next record, another call     *)
(* returns the element with those inside it.                               *)
Emit ==
    /\ At({"emit"})
    /\ LET kids == Top.kids \cup {Element(Top.kind, Top.start, cursor)}
       IN  IF Top.kind \in Lists
           THEN Continue(cursor, Frame(Top.kind, cursor, kids))
           ELSE Return(cursor, kids, TRUE)
    /\ UNCHANGED inputVars

----------------------------------------------------------------------------
(* _walk_parameters: lines of text, each with a value, up to an empty line *)
(* or one that begins with a zero byte.                                    *)
\* Mutant: only an empty line ends the parameters.
IsEmptyLine(p) == file[p + 1] = NL

IsTerminator(p) == file[p + 1] \in {NL, 0}

ReadParameter ==
    /\ At({"line"})
    /\ HasLine(cursor) /\ ~IsTerminator(cursor)
    /\ LET value == LineEnd(cursor) IN
       IF value + 2 > Len(file) THEN Fail(value, "error")
       ELSE IF file[value + 2] # NL THEN Fail(value + 2, "error")
       ELSE Continue(value + 2, Stepped(Top))
    /\ UNCHANGED inputVars

EndParameters ==
    /\ At({"line"})
    /\ HasLine(cursor) => IsTerminator(cursor)
    /\ IF cursor = Len(file) THEN Return(cursor, Top.kids, TRUE)
       ELSE IF ~HasLine(cursor) THEN Fail(Len(file), "error")
       ELSE LET mark == LineEnd(cursor) IN
            IF file[cursor + 1] = NL /\ mark = Len(file) THEN Return(mark, Top.kids, TRUE)
            ELSE IF ~HasSize(mark) THEN Fail(mark, SizeFault(mark))
            ELSE IF Size(mark) # 0 /\ ~tolerant THEN Raise("error")
            ELSE Return(mark + 2, Top.kids, TRUE)
    /\ UNCHANGED inputVars

----------------------------------------------------------------------------
(* _walk_attachments.  Two numbers in an object announce the first group;  *)
(* a number that is not their size has been read all the same.             *)
BeginAttachments ==
    /\ At({"group_1"})
    /\ IF cursor = Len(file) THEN Return(cursor, {}, TRUE)
       ELSE IF Size(cursor) # 2 THEN Continue(cursor + 1, [Top EXCEPT !.step = 3])
       ELSE IF ~HasField(cursor) THEN Fail(FieldStranded(cursor), FieldFault(cursor))
       ELSE IF file[cursor + 3] = AttachMark
       THEN Continue(FieldEnd(cursor), [Stepped(Top) EXCEPT !.n = file[cursor + 4]])
       ELSE IF tolerant THEN Continue(FieldEnd(cursor), [Top EXCEPT !.step = 4])
       ELSE Raise("error")
    /\ UNCHANGED inputVars

(* The first group: an object of HeaderCells numbers, the third of which   *)
(* is the size of the object after it.                                     *)
HeaderCells == 3

ReadAttachment1 ==
    /\ At({"attachments_1"}) /\ Top.n > 0
    /\ LET data == cursor + HeaderCells + 1
           size == file[cursor + 3]
       IN  IF ~HasObject(cursor, HeaderCells)
           THEN Fail(Stranded(cursor, HeaderCells), ObjectFault(cursor, HeaderCells))
           ELSE IF ~HasObject(data, size)
           THEN Fail(Stranded(data, size), ObjectFault(data, size))
           ELSE Continue(ObjectEnd(data, size),
                    [Top EXCEPT !.n = @ - 1,
                                !.kids = @ \cup {Element("attachment", cursor, ObjectEnd(data, size))}])
    /\ UNCHANGED inputVars

EndAttachments1 ==
    /\ At({"attachments_1"}) /\ Top.n = 0
    /\ Continue(cursor, Stepped(Top))
    /\ UNCHANGED inputVars

\* Mutant: the size of a payload is believed.
ReadAttachment2Anyway ==
    /\ At({"attachments_2"})
    /\ LET name    == cursor + HeaderCells
           payload == cursor + file[cursor + 1]
           end     == payload + file[cursor + 3]
       IN  IF name > Len(file) \/ file[cursor + 1] < HeaderCells THEN Continue(cursor, Stepped(Top))
           ELSE IF payload > Len(file) THEN Continue(name, Stepped(Top))
           ELSE Continue(end, [Top EXCEPT !.kids = @ \cup {Element("attachment", cursor, end)}])
    /\ UNCHANGED inputVars

(* The second group: three numbers (the size of the header with the name,  *)
(* a type, the size of the payload), the name, the payload, no delimiters. *)
ReadAttachment2 ==
    /\ At({"attachments_2"})
    /\ LET name    == cursor + HeaderCells
           payload == cursor + file[cursor + 1]
           end     == payload + file[cursor + 3]
       IN  IF name > Len(file) \/ file[cursor + 1] < HeaderCells THEN Continue(cursor, Stepped(Top))
           ELSE IF payload > Len(file) THEN Continue(name, Stepped(Top))
           ELSE IF end > Len(file) THEN Continue(cursor, Stepped(Top))
           ELSE Continue(end, [Top EXCEPT !.kids = @ \cup {Element("attachment", cursor, end)}])
    /\ UNCHANGED inputVars

----------------------------------------------------------------------------
(* A walk in progress, with what its calls have noted and may yet drop.    *)
Noted == found \cup UNION {stack[i].kids : i \in DOMAIN stack}

(* The tolerant walk of the same bytes.                                    *)
WalkAgain ==
    /\ outcome # "walking" /\ ~tolerant
    /\ tolerant' = TRUE
    /\ cursor' = 0 /\ section' = 0 /\ stack' = <<>> /\ found' = {} /\ outcome' = "walking"
    /\ strict' = [outcome |-> outcome, elements |-> Noted]
    /\ UNCHANGED <<project, file>>

Step ==
    \/ BeginSection \/ Complete
    \/ EndList \/ ReadField \/ EnterGroup \/ ReadMark \/ ReadTimes
    \/ EndLoop \/ CallLeaf \/ CallFolder \/ CallPart \/ Emit
    \/ ReadParameter \/ EndParameters
    \/ BeginAttachments \/ ReadAttachment1 \/ EndAttachments1 \/ ReadAttachment2

Next == Step \/ WalkAgain

Spec == Init /\ [][Next]_vars /\ WF_vars(Next)

----------------------------------------------------------------------------
Elements == [kind : Kinds \cup {"attachment"}, start : Nat, end : Nat]

Frames == [kind : Kinds, start : Nat, step : Nat \ {0}, n : Nat, kids : SUBSET Elements]

Outcomes == {"walking", "complete", "error", "truncated"}

(* The cursor stays in the file, and the calls in progress are frames.     *)
TypeInv ==
    /\ project \in Projects
    /\ file \in Seq(Nat)
    /\ tolerant \in BOOLEAN
    /\ cursor \in 0 .. Len(file)
    /\ section \in 0 .. Len(Sections)
    /\ stack \in Seq(Frames)
    /\ found \subseteq Elements
    /\ outcome \in Outcomes
    /\ strict \in [outcome : Outcomes \cup {"none"}, elements : SUBSET Elements]

(* Every range the walk notes lies within the bytes it has read, in either *)
(* mode and wherever a failed read has left the cursor: what is exported   *)
(* with a range can be found there.                                        *)
Placed ==
    /\ \A e \in Noted : e.start < e.end /\ e.end <= cursor
    /\ cursor <= Len(file)

Disjoint(a, b) == a.end <= b.start \/ b.end <= a.start

Inside(a, b) == b.start <= a.start /\ a.end <= b.end

(* Two ranges of a walk are apart, or one record is part of the other: no  *)
(* byte is given to two records side by side.                              *)
Nested == \A a, b \in Noted : Disjoint(a, b) \/ Inside(a, b) \/ Inside(b, a)

Ended == outcome # "walking"

(* A project that has attachments of the second group only.  What is not   *)
(* the size of the first group is not given back (walker_tail.py:233-240): *)
(* the second group is read from its second number on and is not found.    *)
SecondGroupOnly ==
    \E e \in project.elements : e.kind = "attachment_list" /\ project.cells[e.start + 1] # 2

Missed == {e \in project.elements :
              SecondGroupOnly /\ e.kind \in {"attachment", "attachment_list"}}

(* Both walks of a file as Origin wrote it end well and note the records   *)
(* that are in it, all of them and at their place, no less and no more.    *)
(* The exception are the attachments of a project without a first group,   *)
(* which are missed: for such a project the other records are.             *)
IntactFound ==
    (Ended /\ file = project.cells) =>
        /\ outcome = "complete"
        /\ {e \in found : SecondGroupOnly => e.kind \notin {"attachment", "attachment_list"}}
              = project.elements \ Missed

(* Where a strict walk succeeds, a tolerant one notes the same: sections,  *)
(* windows and notes come from different walks of one file                 *)
(* (records.py:559, 918-928, boundaries.py:432-440).                       *)
WalksAgree ==
    (Ended /\ tolerant /\ strict.outcome = "complete") => found = strict.elements

(* The cells up to the damage are what Origin wrote.                       *)
SoundUpTo(k) ==
    k <= Len(file) /\ SubSeq(file, 1, k) = SubSeq(project.cells, 1, k)

(* The kinds a call may drop again when what follows them is missing.      *)
Droppable == {"project_folder", "project_leaf", "attachment"}

(* Damage costs a tolerant walk no record that ends before it, except      *)
(* parts of an unfinished folder or attachment group, and the attachments  *)
(* that an intact file loses too.                                          *)
DamageKeepsWhatPrecedes ==
    (Ended /\ tolerant) =>
        \A e \in project.elements \ Missed :
            (SoundUpTo(e.end) /\ e.kind \notin Droppable) => e \in found

IsCut == file # project.cells /\ SoundUpTo(Len(file))

(* A cut inside a record is evident from the strict walk, whose verdict is *)
(* what opj_truncation_offset reports: some read ran past the end.  Not so *)
(* for a parameter and for the second attachment group: there the walk     *)
(* raises a plain OpjStreamError or stops without any.                     *)
CutIsEvident ==
    (Ended /\ ~tolerant /\ IsCut /\ outcome # "truncated") =>
        \A e \in project.elements :
            (e.start < Len(file) /\ Len(file) < e.end) =>
                e.kind \in {"parameter", "attachment", "attachment_list"}

(* Both walks end, whatever the cells say.                                 *)
WalksEnd == <>(Ended /\ tolerant)

============================================================================
