----------------------------- MODULE ViewerFrame -----------------------------
(***************************************************************************)
(* The window of the viewer (app.py and the frame_*.py mixins of           *)
(* deopjufy_view): projects and their leaves in the tree, tabs and         *)
(* workbooks in the document area, the message page that replaces the      *)
(* document area when there is nothing to show, and the retrievals in      *)
(* flight.                                                                 *)
(*                                                                         *)
(* Handlers run one at a time on the GUI thread.  A future of the backend  *)
(* is resolved by a worker at any time, and its callback posts a handler   *)
(* with wx.CallAfter; posted handlers run in the order they were posted,   *)
(* with handlers of the user's own actions in between.                     *)
(*                                                                         *)
(* A target is a leaf of a project.  Tabular leaves with the same exact    *)
(* folders form a book: two or more visible ones share one workbook page.  *)
(* The target_leaves of the code are exactly the leaves VisibleIn gives.   *)
(***************************************************************************)
EXTENDS Naturals, Sequences, FiniteSets

CONSTANTS
    Paths,      \* resolved paths of the projects
    Targets,    \* the leaves of all the projects
    PathOf,     \* PathOf[t]: the project of leaf t
    Books,      \* the workbook keys: a path and folders
    BookOf,     \* BookOf[t]: the key of a tabular leaf in a folder, or None
    Rank,       \* Rank[t]: the order preferred_leaf and the sheets are sorted by
    Hidden,     \* the leaves that are recovery evidence, hidden by default
    Untabled,   \* the tabular leaves whose retrieval carries no table
    MayFail,    \* calls of the backend may raise
    MaxGets,    \* bounds the retrievals in flight when the user acts
    MaxPages,   \* bounds the pages of single items
    MaxPosted,  \* bounds the handlers that wait to run when the user acts
    None

\* The key of a workbook has the path of its project.  The user may act at first.
ASSUME ConstantsAssumption ==
    /\ PathOf \in [Targets -> Paths]
    /\ BookOf \in [Targets -> Books \cup {None}]
    /\ \A s, t \in Targets : BookOf[s] = BookOf[t] /\ BookOf[t] # None => PathOf[s] = PathOf[t]
    /\ None \notin Targets /\ None \notin Books /\ None \notin Nat
    /\ Books \cap Nat = {}
    /\ IsFiniteSet(Targets) /\ Cardinality(Targets) <= MaxPages
    /\ Rank \in [Targets -> Nat]
    /\ Hidden \subseteq Targets
    /\ Untabled \subseteq Targets
    /\ MayFail \in BOOLEAN
    /\ MaxGets \in Nat /\ MaxPages \in Nat /\ MaxPosted \in Nat

VARIABLES
    node,       \* node[p]: absent from document_nodes, loading, failed, or open (in catalogs)
    evidence,   \* show_recovery_evidence
    active,     \* active_target
    pending,    \* pending_targets
    pages,      \* the pages of the notebook
    selected,   \* the page the notebook shows, or None
    books,      \* workbooks: the sheets a page was built for, the one it shows, and
                \* the ones whose panel holds a loading view
    tabs,       \* tabs[t]: host_page of the tab of t, or None
    preview,    \* what preview_host shows: the message page or the documents
    message,    \* what the message page says
    listing,    \* the projects whose catalog future is not resolved
    gets,       \* gets[t]: the unresolved futures of submit_get
    posted,     \* the handlers given to wx.CallAfter
    fault,      \* how the last handler that raised failed
    closed

vars == <<node, evidence, active, pending, pages, selected, books, tabs, preview,
          message, listing, gets, posted, fault, closed>>

docVars == <<pages, selected, books, tabs>>
workVars == <<listing, gets>>
-----------------------------------------------------------------------------
Pages == Books \cup (1 .. MaxPages)

NoBook == [sheets |-> {}, shown |-> None, loading |-> {}]

Handlers ==
    [call : {"catalog_done"}, path : Paths, ok : BOOLEAN]
    \cup [call : {"get_done"}, target : Targets, ok : BOOLEAN]
    \cup [call : {"complete_get", "activate_target"}, target : Targets]

Faults == {"none", "sheet_missing", "leaf_missing", "submit_refused"}

TypeOK ==
    /\ node \in [Paths -> {"absent", "loading", "failed", "open"}]
    /\ evidence \in BOOLEAN
    /\ active \in Targets \cup {None}
    /\ pending \in SUBSET Targets
    /\ pages \in SUBSET Pages
    /\ selected \in Pages \cup {None}
    /\ books \in [Books -> [sheets : SUBSET Targets, shown : Targets \cup {None},
                           loading : SUBSET Targets]]
    /\ tabs \in [Targets -> Pages \cup {None}]
    /\ preview \in {"message", "documents"}
    /\ message \in {"welcome", "busy", "select", "failed"}
    /\ listing \in SUBSET Paths
    /\ gets \in [Targets -> Nat]
    /\ posted \in Seq(Handlers)
    /\ fault \in Faults
    /\ closed \in BOOLEAN

Init ==
    /\ node = [p \in Paths |-> "absent"]
    /\ evidence = FALSE
    /\ active = None
    /\ pending = {}
    /\ pages = {}
    /\ selected = None
    /\ books = [b \in Books |-> NoBook]
    /\ tabs = [t \in Targets |-> None]
    /\ preview = "message"
    /\ message = "welcome"
    /\ listing = {}
    /\ gets = [t \in Targets |-> 0]
    /\ posted = <<>>
    /\ fault = "none"
    /\ closed = FALSE
-----------------------------------------------------------------------------
(* Helpers. *)

\* The leaves in the tree, for the projects in opened and a setting of the evidence toggle.
VisibleIn(opened, ev) ==
    {t \in Targets : PathOf[t] \in opened /\ (ev \/ t \notin Hidden)}

Opened == {p \in Paths : node[p] = "open"}

Visible == VisibleIn(Opened, evidence)

\* sibling_sheets: the tabular leaves in the tree that have the folders of t.
Siblings(t, leaves) ==
    IF t \in leaves /\ BookOf[t] # None
    THEN {s \in leaves : BookOf[s] = BookOf[t]}
    ELSE {}

InWorkbook(t, leaves) == Cardinality(Siblings(t, leaves)) >= 2

First(leaves) == CHOOSE t \in leaves : \A s \in leaves : Rank[t] <= Rank[s]

NewPage == CHOOSE n \in 1 .. MaxPages : n \notin pages

\* _workbook_for_target: the workbook there is, or one for the sheets in the tree now.
BookFor(t, leaves) ==
    IF BookOf[t] \in pages
    THEN books[BookOf[t]]
    ELSE [sheets |-> Siblings(t, leaves), shown |-> First(Siblings(t, leaves)), loading |-> {}]

\* _current_state: the target whose tab the page shows, or None.
TargetShownOn(page, loaded) ==
    CASE page = None -> None
      [] page \in Books -> IF loaded[books[page].shown] # None THEN books[page].shown ELSE None
      [] OTHER -> IF \E t \in Targets : loaded[t] = page
                  THEN CHOOSE t \in Targets : loaded[t] = page
                  ELSE None

TargetShown == TargetShownOn(selected, tabs)

\* _show_message, and _show_loading and others that ask for it when there is no page.
ShowMessage(text) ==
    /\ message' = text
    /\ preview' = "message"

ShowMessageIf(condition, text) ==
    IF condition THEN ShowMessage(text) ELSE UNCHANGED <<message, preview>>

\* _remove_welcome
ShowDocuments ==
    /\ preview' = "documents"
    /\ UNCHANGED message

ActivateCall(t) == [call |-> "activate_target", target |-> t]
-----------------------------------------------------------------------------
(* _activate_target.  leaves are the leaves in the tree and page is the page the   *)
(* notebook shows when it is called; queue is what it leaves in posted.            *)

\* backend.submit_get raises once the pool is shut down.
Retrieve(t) ==
    /\ pending' = pending \cup {t}
    /\ IF closed
       THEN fault' = "submit_refused" /\ UNCHANGED gets
       ELSE fault' = "none" /\ gets' = [gets EXCEPT ![t] = @ + 1]

NoRetrieval(outcome) ==
    /\ fault' = outcome
    /\ UNCHANGED <<pending, gets>>

\* A workbook needs the documents on screen first, so the call is posted again.
DeferActivation(t, page, queue) ==
    /\ ShowDocuments
    /\ posted' = Append(queue, ActivateCall(t))
    /\ selected' = page
    /\ NoRetrieval("none")
    /\ UNCHANGED <<pages, books, tabs>>

\* The workbook is selected and turned to the sheet.  A leaf that was not in the tree
\* when the page was built has no sheet there, and the handler raises.
ActivateSheet(t, leaves, queue) ==
    LET b == BookOf[t]
        book == BookFor(t, leaves)
    IN  /\ ShowDocuments
        /\ posted' = queue
        /\ pages' = pages \cup {b}
        /\ selected' = b
        /\ UNCHANGED tabs
        /\ \/ /\ t \notin book.sheets
              /\ books' = [books EXCEPT ![b] = book]
              /\ NoRetrieval("sheet_missing")
           \/ /\ t \in book.sheets
              /\ tabs[t] # None \/ t \in pending
              /\ books' = [books EXCEPT ![b] = [book EXCEPT !.shown = t]]
              /\ NoRetrieval("none")
           \/ /\ t \in book.sheets
              /\ tabs[t] = None /\ t \notin pending
              /\ books' = [books EXCEPT ![b] = [book EXCEPT !.shown = t, !.loading = @ \cup {t}]]
              /\ Retrieve(t)

\* Any other leaf has, or gets, a page of its own.
ActivateItem(t, page, queue) ==
    /\ posted' = queue
    /\ selected' = IF tabs[t] \in pages THEN tabs[t] ELSE page
    /\ UNCHANGED <<pages, books, tabs>>
    /\ \/ /\ tabs[t] # None \/ t \in pending
          /\ NoRetrieval("none")
          /\ UNCHANGED <<message, preview>>
       \/ /\ tabs[t] = None /\ t \notin pending
          /\ Retrieve(t)
          /\ ShowMessageIf(pages = {}, "busy")

Activate(t, leaves, page, queue) ==
    /\ active' = t
    /\ IF ~InWorkbook(t, leaves) THEN ActivateItem(t, page, queue)
       ELSE IF preview = "message" THEN DeferActivation(t, page, queue)
       ELSE ActivateSheet(t, leaves, queue)

\* A leaf is selected in the tree, whose event activates it, and activated again: where
\* the first call waits for the documents the second finds them on screen.
ActivateTwice(t, leaves, queue) ==
    IF InWorkbook(t, leaves) /\ preview = "message"
    THEN /\ active' = t
         /\ ActivateSheet(t, leaves, Append(queue, ActivateCall(t)))
    ELSE Activate(t, leaves, selected, queue)
-----------------------------------------------------------------------------
(* The user. *)

InFlight == Cardinality({g \in Targets \X (1 .. MaxGets) : g[2] <= gets[g[1]]})

\* Bounds what is in flight when the user acts; the frame itself has no such limit.
UserActs ==
    /\ ~closed
    /\ Len(posted) < MaxPosted
    /\ InFlight < MaxGets
    /\ Cardinality((1 .. MaxPages) \ pages) >= Cardinality(Targets)

\* open_paths, of the paths that are not in document_nodes yet.
OpenPaths(new) ==
    /\ UserActs
    /\ new # {} /\ \A p \in new : node[p] = "absent"
    /\ node' = [p \in Paths |-> IF p \in new THEN "loading" ELSE node[p]]
    /\ listing' = listing \cup new
    /\ ShowMessageIf(pages = {}, "busy")
    /\ fault' = "none"
    /\ UNCHANGED <<evidence, active, pending, docVars, gets, posted, closed>>

\* A leaf is selected or activated in the tree, or found by the search.
SelectLeaf(t) ==
    /\ UserActs
    /\ t \in Visible
    /\ Activate(t, Visible, selected, posted)
    /\ UNCHANGED <<node, evidence, listing, closed>>

\* Another sheet of the workbook on screen: by its button, or the next or previous one.
\* A sheet whose leaf is not in the tree now is missing from target_leaves.
SwitchSheet(t, button) ==
    /\ UserActs
    /\ selected \in Books /\ t \in books[selected].sheets \ {books[selected].shown}
    /\ button => preview = "documents"
    /\ IF t \in Visible
       THEN Activate(t, Visible, selected, posted)
       ELSE /\ active' = IF button THEN t ELSE active
            /\ NoRetrieval("leaf_missing")
            /\ UNCHANGED <<docVars, preview, message, posted>>
    /\ UNCHANGED <<node, evidence, listing, closed>>

\* A button of the document bar, or the next or previous document: _document_selected.
SelectPage(page) ==
    LET shown == TargetShownOn(page, tabs)
        sheet == books[page].shown
    IN  /\ UserActs
        /\ page \in pages \ {selected}
        /\ \/ /\ shown # None
              /\ \/ shown \in Visible /\ Activate(shown, Visible, page, posted)
                 \/ /\ active' = shown
                    /\ selected' = page
                    /\ NoRetrieval("none")
                    /\ UNCHANGED <<pages, books, tabs, preview, message, posted>>
           \/ /\ shown = None
              /\ page \in Books /\ sheet \in Visible
              /\ Activate(sheet, Visible, page, posted)
           \/ /\ shown = None
              /\ page \in Books => sheet \notin Visible
              /\ selected' = page
              /\ NoRetrieval(IF page \in Books THEN "leaf_missing" ELSE "none")
              /\ UNCHANGED <<active, pages, books, tabs, preview, message, posted>>
        /\ UNCHANGED <<node, evidence, listing, closed>>

\* Mutant: only the sheet on screen is forgotten.
ForgetsShownSheet(page) ==
    IF page \in Books THEN {books[page].shown} ELSE {t \in Targets : tabs[t] = page}

\* The targets _forget_page_state forgets with a page.
TargetsOf(page) ==
    IF page \in Books THEN books[page].sheets ELSE {t \in Targets : tabs[t] = page}

\* _on_close_tab: the notebook shows one of the pages that are left.
CloseTab(next) ==
    LET rest == pages \ {selected}
        loaded == [t \in Targets |-> IF t \in TargetsOf(selected) THEN None ELSE tabs[t]]
        shown == TargetShownOn(next, loaded)
    IN  /\ UserActs
        /\ selected # None
        /\ next \in IF rest = {} THEN {None} ELSE rest
        /\ pages' = rest
        /\ selected' = next
        /\ tabs' = loaded
        /\ books' = [b \in Books |-> IF b = selected THEN NoBook ELSE books[b]]
        /\ pending' = pending \ TargetsOf(selected)
        /\ active' = shown
        /\ ShowMessageIf(shown = None /\ rest = {}, IF Opened # {} THEN "select" ELSE "welcome")
        /\ fault' = "none"
        /\ UNCHANGED <<node, evidence, listing, gets, posted, closed>>

\* _rebuild_catalog_trees, after one of the toggles of the View menu.
RebuildTrees(ev) ==
    LET leaves == VisibleIn(Opened, ev) IN
    /\ UserActs
    /\ evidence' = ev
    /\ IF active \in leaves
       THEN Activate(active, leaves, selected, posted)
       ELSE /\ NoRetrieval("none")
            /\ UNCHANGED <<active, docVars, preview, message, posted>>
    /\ UNCHANGED <<node, listing, closed>>

\* _on_close, and close() of the backend.
CloseFrame ==
    /\ ~closed
    /\ closed' = TRUE
    /\ UNCHANGED <<node, evidence, active, pending, docVars, preview, message, listing, gets,
                   posted, fault>>
-----------------------------------------------------------------------------
(* The futures of the backend. *)

\* Mutant: a handler may be dropped while the window is open.
CallAfterDrops(handler) ==
    \/ posted' = Append(posted, handler)
    \/ UNCHANGED posted

\* _call_after: the worker may have looked at closed before the window was closed.
CallAfter(handler) ==
    \/ posted' = Append(posted, handler)
    \/ closed /\ UNCHANGED posted

FrameUnchanged == UNCHANGED <<node, evidence, active, pending, docVars, preview, message, fault,
                              closed>>

CatalogResolves(p, ok) ==
    /\ p \in listing
    /\ ok \/ MayFail
    /\ listing' = listing \ {p}
    /\ CallAfter([call |-> "catalog_done", path |-> p, ok |-> ok])
    /\ UNCHANGED gets
    /\ FrameUnchanged

GetResolves(t, ok) ==
    /\ gets[t] > 0
    /\ ok \/ MayFail
    /\ gets' = [gets EXCEPT ![t] = @ - 1]
    /\ CallAfter([call |-> "get_done", target |-> t, ok |-> ok])
    /\ UNCHANGED listing
    /\ FrameUnchanged
-----------------------------------------------------------------------------
(* The handlers posted to the GUI thread. *)

Handles(call) == posted # <<>> /\ Head(posted).call = call

\* A handler that finds the window closed.
Ignored ==
    /\ posted' = Tail(posted)
    /\ UNCHANGED <<node, evidence, active, docVars, preview, message, workVars, fault, closed>>

CatalogDone ==
    LET p == Head(posted).path
        nothingShown == pages = {} /\ pending = {}
        leaves == VisibleIn(Opened \cup {p}, evidence)
        own == {t \in leaves : PathOf[t] = p}
    IN  /\ Handles("catalog_done")
        /\ \/ closed /\ Ignored /\ UNCHANGED pending
           \/ /\ ~closed /\ ~Head(posted).ok
              /\ node' = [node EXCEPT ![p] = "failed"]
              /\ ShowMessageIf(nothingShown, "failed")
              /\ posted' = Tail(posted)
              /\ NoRetrieval("none")
              /\ UNCHANGED <<evidence, active, docVars, listing, closed>>
           \/ /\ ~closed /\ Head(posted).ok
              /\ node' = [node EXCEPT ![p] = "open"]
              /\ IF nothingShown /\ own # {}
                 THEN ActivateTwice(First(own), leaves, Tail(posted))
                 ELSE /\ ShowMessageIf(nothingShown, "select")
                      /\ posted' = Tail(posted)
                      /\ NoRetrieval("none")
                      /\ UNCHANGED <<active, docVars>>
              /\ UNCHANGED <<evidence, listing, closed>>

\* _select_target_page, with the books and pages that are there by now.
SelectTargetPage(t, bs, ps, page) ==
    IF InWorkbook(t, Visible)
    THEN /\ pages' = ps \cup {BookOf[t]}
         /\ selected' = BookOf[t]
         /\ LET book == IF BookOf[t] \in ps THEN bs[BookOf[t]] ELSE BookFor(t, Visible) IN
            IF t \in book.sheets
            THEN /\ books' = [bs EXCEPT ![BookOf[t]] = [book EXCEPT !.shown = t]]
                 /\ fault' = "none"
            ELSE /\ books' = bs
                 /\ fault' = "sheet_missing"
    ELSE /\ pages' = ps
         /\ selected' = page
         /\ books' = bs
         /\ fault' = "none"

\* Mutant: what was loaded is only selected when it is the first page.
SelectIfFirst(t, bs, ps, page) ==
    /\ pages' = ps
    /\ books' = bs
    /\ selected' = IF pages = {} THEN page ELSE selected
    /\ fault' = "none"

\* The last step of _complete_get: the tab is selected if it is still the active target.
SelectIfActive(t, bs, ps, page) ==
    IF t = active
    THEN SelectTargetPage(t, bs, ps, page)
    ELSE /\ pages' = ps
         /\ books' = bs
         /\ selected' = IF pages = {} THEN page ELSE selected
         /\ fault' = "none"

\* _open_payload_tab and the rest of _complete_get.
CompleteGet(t) ==
    LET b == BookOf[t]
        book == BookFor(t, Visible)
        inSheet == InWorkbook(t, Visible) /\ t \notin Untabled
        filled == [books EXCEPT ![b] = [book EXCEPT !.loading = @ \ {t}]]
    IN  \/ /\ tabs[t] # None
           /\ SelectIfActive(t, books, pages, IF tabs[t] \in pages THEN tabs[t] ELSE selected)
           /\ UNCHANGED tabs
        \/ /\ tabs[t] = None /\ inSheet /\ t \notin book.sheets
           /\ fault' = "sheet_missing"
           /\ UNCHANGED docVars
        \/ /\ tabs[t] = None /\ inSheet /\ t \in book.sheets
           /\ tabs' = [tabs EXCEPT ![t] = b]
           /\ SelectIfActive(t, filled, pages \cup {b}, b)
        \/ /\ tabs[t] = None /\ ~inSheet
           /\ tabs' = [tabs EXCEPT ![t] = NewPage]
           /\ SelectIfActive(t, books, pages \cup {NewPage}, NewPage)

\* A retrieval that failed is reported on the sheet of its workbook, which is built for it.
GetFailed(t) ==
    LET b == BookOf[t]
        book == BookFor(t, Visible)
    IN  /\ ShowMessageIf(pages = {}, "failed")
        /\ IF ~InWorkbook(t, Visible)
           THEN fault' = "none" /\ UNCHANGED <<pages, selected, books>>
           ELSE /\ pages' = pages \cup {b}
                /\ selected' = IF pages = {} THEN b ELSE selected
                /\ books' = [books EXCEPT ![b] = [book EXCEPT !.loading = @ \ {t}]]
                /\ fault' = IF t \in book.sheets THEN "none" ELSE "sheet_missing"
        /\ UNCHANGED tabs

GetDone ==
    LET t == Head(posted).target IN
    /\ Handles("get_done")
    /\ pending' = pending \ {t}
    /\ \/ closed /\ Ignored
       \/ /\ ~closed
          /\ \/ /\ ~Head(posted).ok
                /\ GetFailed(t)
                /\ posted' = Tail(posted)
             \/ /\ Head(posted).ok /\ preview = "message"
                /\ ShowDocuments
                /\ posted' = Append(Tail(posted), [call |-> "complete_get", target |-> t])
                /\ fault' = "none"
                /\ UNCHANGED docVars
             \/ /\ Head(posted).ok /\ preview = "documents"
                /\ CompleteGet(t)
                /\ posted' = Tail(posted)
                /\ UNCHANGED <<preview, message>>
          /\ UNCHANGED <<node, evidence, active, workVars, closed>>

CompleteGetPosted ==
    /\ Handles("complete_get")
    /\ \/ closed /\ Ignored /\ UNCHANGED pending
       \/ /\ ~closed
          /\ CompleteGet(Head(posted).target)
          /\ posted' = Tail(posted)
          /\ UNCHANGED <<node, evidence, active, pending, preview, message, workVars, closed>>

\* The activation that waited for the documents; it does not look at closed.
ActivatePosted ==
    /\ Handles("activate_target")
    /\ Activate(Head(posted).target, Visible, selected, Tail(posted))
    /\ UNCHANGED <<node, evidence, listing, closed>>
-----------------------------------------------------------------------------
Dispatch == CatalogDone \/ GetDone \/ CompleteGetPosted \/ ActivatePosted

Resolve ==
    \/ \E p \in Paths, ok \in BOOLEAN : CatalogResolves(p, ok)
    \/ \E t \in Targets, ok \in BOOLEAN : GetResolves(t, ok)

User ==
    \/ \E new \in SUBSET Paths : OpenPaths(new)
    \/ \E t \in Targets : SelectLeaf(t)
    \/ \E t \in Targets, button \in BOOLEAN : SwitchSheet(t, button)
    \/ \E page \in pages : SelectPage(page)
    \/ \E next \in pages \cup {None} : CloseTab(next)
    \/ \E ev \in BOOLEAN : RebuildTrees(ev)
    \/ CloseFrame

\* The window is closed, nothing is in flight and no handler waits: the process ends.
Exited ==
    /\ closed
    /\ posted = <<>> /\ listing = {} /\ \A t \in Targets : gets[t] = 0
    /\ UNCHANGED vars

Next == User \/ Resolve \/ Dispatch \/ Exited

Spec == Init /\ [][Next]_vars

\* The event loop goes on, and the backend resolves every future.
Fairness ==
    /\ WF_vars(Dispatch)
    /\ \A p \in Paths : WF_vars(\E ok \in BOOLEAN : CatalogResolves(p, ok))
    /\ \A t \in Targets : WF_vars(\E ok \in BOOLEAN : GetResolves(t, ok))

FairSpec == Spec /\ Fairness
-----------------------------------------------------------------------------
(* Properties. *)

\* A handler of the kind call waits to run for t.
Waits(call, t) == \E n \in 1 .. Len(posted) : posted[n].call = call /\ posted[n].target = t

\* The leaves of an open project stay in the tree, and every tabular leaf has a table.
Steady == Hidden = {} /\ Untabled = {}

\* The retrieval of a pending target is in flight, whatever was closed, toggled or opened again
\* since it was asked for, so the target can be loaded again later.
PendingIsInFlight == ~closed => \A t \in pending : gets[t] > 0 \/ Waits("get_done", t)

\* The state has its type.  Tabs are on pages the notebook has, a workbook has the tabs of its
\* sheets only and is forgotten with its page.  If leaves are steady, every other page shows an
\* item, and a sheet with a loading view is being retrieved.
TabsHaveTheirPages ==
    /\ TypeOK
    /\ \A t \in Targets :
          /\ tabs[t] # None => tabs[t] \in pages
          /\ tabs[t] \in Books => t \in books[tabs[t]].sheets
    /\ \A b \in Books : b \in pages <=> books[b] # NoBook
    /\ \A t, u \in Targets : t # u /\ tabs[t] = tabs[u] => tabs[t] \in Books \cup {None}
    /\ selected = None <=> pages = {}
    /\ Steady => /\ \A n \in pages \ Books : \E t \in Targets : tabs[t] = n
                 /\ ~closed => \A b \in Books : \A t \in books[b].loading :
                                   t \in pending \/ Waits("complete_get", t)

\* Nothing waits to run, and nothing is being loaded.
Quiet == posted = <<>> /\ pending = {} /\ listing = {} /\ ~closed

\* When all is loaded, the documents are on screen and leaves are steady, they show the item
\* opened last.
OpenedItemIsSelected ==
    Steady /\ Quiet /\ active # None /\ tabs[active] # None /\ preview = "documents"
    => TargetShown = active

\* The manual says that the keys select the previous or next sheet, and Enter opens the
\* selected leaf: no handler finds a leaf or a sheet missing from the tables of the frame.
EverySheetCanBeShown == fault \notin {"sheet_missing", "leaf_missing"}

\* A retrieval the user asked for is no longer pending some time later, whatever else the
\* window does meanwhile: a target that stayed in pending_targets could never be loaded again.
RetrievalsEnd == \A t \in Targets : t \in pending ~> (t \notin pending \/ closed)

\* A project that is being opened does not stay at "[loading]" in the tree.
OpeningEnds == \A p \in Paths : node[p] = "loading" ~> (node[p] # "loading" \/ closed)
=============================================================================
