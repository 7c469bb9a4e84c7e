------------------------- MODULE ViewerFrameProofs -------------------------
(***************************************************************************)
(* The tables of the window, for any leaves, books and bounds.             *)
(*                                                                         *)
(* FlightInv: what is pending has an unresolved future or an answer in the *)
(* queue.  A handler adds a pending target only where it asks the backend  *)
(* (Asks), a future that is resolved becomes an answer, and only the       *)
(* handler of an answer takes it away, with the target.                    *)
(*                                                                         *)
(* FlowInv: what is in flight is of projects that are being opened, once   *)
(* each, or of open ones, so an open project never goes back.  The proofs  *)
(* about the documents need it.                                            *)
(*                                                                         *)
(* DocInv: each step selects a page, opens one leaf or closes one page     *)
(* (DocStep).  The three keep that tabs are on pages there are, workbooks  *)
(* have the tabs of their own sheets, and there is a page left for every   *)
(* leaf without a tab (Room), so that a new page is never one in use.      *)
(*                                                                         *)
(* If leaves are steady, whether a leaf is a sheet (Shared) depends on the *)
(* constants alone once its project is open, so a leaf is not on a page of *)
(* its own first and in a workbook later (SteadyDoc); and a loading view   *)
(* is taken down by the handler that ends its retrieval (LoadingFits).     *)
(*                                                                         *)
(* ShownFits: the active target, once it has a tab, is on the selected     *)
(* page and sheet, or its activation still waits to run.  It needs that a  *)
(* workbook has all the sheets of its key from the moment it is built      *)
(* (WholeDoc), or an activated sheet could be missing.                     *)
(***************************************************************************)
EXTENDS ViewerFrame, TLAPS, FiniteSetTheorems, WellFoundedInduction

USE ConstantsAssumption

\* A set of leaves that is not empty has a first one.
LEMMA FirstIsOne ==
    ASSUME NEW leaves \in SUBSET Targets, leaves # {}
    PROVE  First(leaves) \in leaves
<1> DEFINE below == OpToRel(<, Nat)
<1>1. \A m, n \in Nat : <<m, n>> \in below <=> m < n
  BY DEF OpToRel
<1> DEFINE ranks == {Rank[t] : t \in leaves}
<1>2. ranks \subseteq Nat /\ ranks # {}
  OBVIOUS
<1>3. IsWellFoundedOn(below, Nat)
  BY NatLessThanWellFounded
<1> HIDE DEF below, ranks
<1>4. PICK n \in ranks : \A m \in ranks : ~(<<m, n>> \in below)
  BY <1>2, <1>3, WFMin
<1>5. n \in Nat /\ \A m \in ranks : m \in Nat /\ n <= m
  <2>1. n \in Nat /\ ranks \subseteq Nat
    BY <1>2
  <2>2. ASSUME NEW m \in ranks PROVE n <= m
    <3>1. m \in Nat /\ ~(m < n)
      BY <1>1, <1>4, <2>1
    <3> QED BY <2>1, <3>1
  <2> QED BY <2>1, <2>2
<1>6. PICK t \in leaves : n = Rank[t]
  BY DEF ranks
<1>7. \A s \in leaves : Rank[t] <= Rank[s]
  BY <1>5, <1>6 DEF ranks
<1> QED BY <1>6, <1>7 DEF First
-----------------------------------------------------------------------------
(* Retrievals in flight.                                                   *)

\* A handler of the kind call waits for t in the queue.
Queued(queue, call, t) == \E n \in 1 .. Len(queue) : queue[n].call = call /\ queue[n].target = t

Answered(queue, t) == Queued(queue, "get_done", t)

FlightType ==
    /\ pending \in SUBSET Targets
    /\ gets \in [Targets -> Nat]
    /\ posted \in Seq(Handlers)
    /\ closed \in BOOLEAN

FlightInv == FlightType /\ PendingIsInFlight

\* What is asked of the backend by a handler that may retrieve t and may post its activation.
Asks(t, queue) ==
    /\ Retrieve(t) \/ UNCHANGED <<pending, gets>>
    /\ posted' \in {queue, Append(queue, ActivateCall(t))}

\* A handler more loses none.
LEMMA AppendKeepsQueued ==
    ASSUME NEW queue \in Seq(Handlers), NEW h \in Handlers
    PROVE  /\ Append(queue, h) \in Seq(Handlers)
           /\ \A call, t : Queued(queue, call, t) => Queued(Append(queue, h), call, t)
           /\ Queued(Append(queue, h), h.call, h.target)
<1>1. /\ Append(queue, h) \in Seq(Handlers) /\ Len(Append(queue, h)) = Len(queue) + 1
      /\ \A n \in 1 .. Len(queue) : Append(queue, h)[n] = queue[n]
      /\ Append(queue, h)[Len(queue) + 1] = h
      /\ Len(queue) \in Nat
  OBVIOUS
<1>2. \A n \in 1 .. Len(queue) : n \in 1 .. Len(queue) + 1
  BY <1>1
<1>3. Len(queue) + 1 \in 1 .. Len(queue) + 1
  BY <1>1
<1> QED BY <1>1, <1>2, <1>3 DEF Queued

\* The handler that runs takes only itself out of the queue.
LEMMA TailKeepsQueued ==
    ASSUME NEW queue \in Seq(Handlers), queue # <<>>
    PROVE  /\ Tail(queue) \in Seq(Handlers) /\ Head(queue) \in Handlers
           /\ \A call, t : Queued(queue, call, t) => \/ Queued(Tail(queue), call, t)
                                                     \/ Head(queue).call = call /\ Head(queue).target = t
<1>1. /\ Tail(queue) \in Seq(Handlers) /\ Len(Tail(queue)) = Len(queue) - 1
      /\ \A n \in 1 .. Len(queue) - 1 : Tail(queue)[n] = queue[n + 1]
      /\ Len(queue) \in Nat /\ Head(queue) = queue[1] /\ Head(queue) \in Handlers
  OBVIOUS
<1>2. SUFFICES ASSUME NEW call, NEW t, Queued(queue, call, t)
               PROVE  Queued(Tail(queue), call, t) \/ (queue[1].call = call /\ queue[1].target = t)
  BY <1>1
<1>3. PICK n \in 1 .. Len(queue) : queue[n].call = call /\ queue[n].target = t
  BY <1>2 DEF Queued
<1>4. CASE n # 1
  <2>1. n - 1 \in 1 .. Len(Tail(queue)) /\ (n - 1) + 1 = n
    BY <1>1, <1>3, <1>4
  <2>2. Tail(queue)[n - 1] = queue[n]
    BY <1>1, <2>1
  <2> QED BY <1>3, <2>1, <2>2 DEF Queued
<1> QED BY <1>3, <1>4

\* The two shapes of PendingIsInFlight: the answer is one of the handlers that wait.
LEMMA WaitsIsAnswered ==
    /\ PendingIsInFlight <=> (~closed => \A t \in pending : gets[t] > 0 \/ Answered(posted, t))
    /\ PendingIsInFlight' <=> (~closed' => \A t \in pending' : gets'[t] > 0 \/ Answered(posted', t))
<1>1. \A t : Waits("get_done", t) <=> Answered(posted, t)
  BY DEF Waits, Answered, Queued
<1>2. \A t : Waits("get_done", t)' <=> Answered(posted', t)
  BY DEF Waits, Answered, Queued
<1> QED BY <1>1, <1>2 DEF PendingIsInFlight

\* A leaf is activated, whatever its page is: it is retrieved, or nothing is asked.
LEMMA ActivationAsks ==
    ASSUME NEW t, NEW leaves, NEW page, NEW queue, Activate(t, leaves, page, queue)
    PROVE  Asks(t, queue)
BY DEF Activate, ActivateItem, DeferActivation, ActivateSheet, NoRetrieval, Asks

\* The second of two activations of a leaf asks as the first does, behind its own handler.
LEMMA SecondActivationAsks ==
    ASSUME NEW t, NEW leaves, NEW queue, ActivateTwice(t, leaves, queue)
    PROVE  Asks(t, queue) \/ Asks(t, Append(queue, ActivateCall(t)))
<1>1. CASE InWorkbook(t, leaves) /\ preview = "message"
  BY <1>1 DEF ActivateTwice, ActivateSheet, NoRetrieval, Asks
<1>2. CASE ~(InWorkbook(t, leaves) /\ preview = "message")
  BY <1>2, ActivationAsks DEF ActivateTwice
<1> QED BY <1>1, <1>2

\* A handler that leaves the answers in its queue keeps the invariant, whether it retrieves t or not.
LEMMA AskingKeeps ==
    ASSUME FlightInv, NEW t \in Targets, NEW queue \in Seq(Handlers), Asks(t, queue),
           \A u \in pending : Answered(posted, u) => Answered(queue, u), UNCHANGED closed
    PROVE  FlightInv'
<1>1. ActivateCall(t) \in Handlers
  BY DEF ActivateCall, Handlers
<1>2. /\ posted' \in Seq(Handlers)
      /\ \A u \in pending : Answered(posted, u) => Answered(posted', u)
  <2> DEFINE h == ActivateCall(t)
  <2>1. posted' = queue \/ posted' = Append(queue, h)
    BY DEF Asks
  <2>2. h \in Handlers
    BY <1>1
  <2> HIDE DEF h
  <2>3. Append(queue, h) \in Seq(Handlers) /\ \A u : Answered(queue, u) => Answered(Append(queue, h), u)
    BY <2>2, AppendKeepsQueued DEF Answered
  <2> QED BY <2>1, <2>3
<1>3. CASE UNCHANGED <<pending, gets>>
  BY <1>2, <1>3, WaitsIsAnswered DEF FlightInv, FlightType
<1>4. CASE Retrieve(t)
  <2>1. pending' = pending \cup {t}
    BY <1>4 DEF Retrieve
  <2>2. CASE closed
    BY <1>2, <1>4, <2>1, <2>2, WaitsIsAnswered DEF FlightInv, FlightType, Retrieve
  <2>3. CASE ~closed
    <3>1. gets' = [gets EXCEPT ![t] = @ + 1]
      BY <1>4, <2>3 DEF Retrieve
    <3>2. gets' \in [Targets -> Nat] /\ gets'[t] > 0 /\ \A u \in Targets : gets[u] > 0 => gets'[u] > 0
      BY <3>1 DEF FlightInv, FlightType
    <3> QED BY <1>2, <2>1, <3>2, WaitsIsAnswered DEF FlightInv, FlightType
  <2> QED BY <2>2, <2>3
<1> QED BY <1>3, <1>4 DEF Asks

\* A handler that asks for nothing, and drops pending targets at most.
LEMMA SettlingKeeps ==
    ASSUME FlightInv, pending' \in SUBSET pending, UNCHANGED <<gets, closed>>,
           posted' \in Seq(Handlers), \A u \in pending' : Answered(posted, u) => Answered(posted', u)
    PROVE  FlightInv'
BY WaitsIsAnswered DEF FlightInv, FlightType

\* The user never loses a retrieval.
LEMMA UserKeeps ==
    ASSUME FlightInv, User
    PROVE  FlightInv'
<1> USE DEF docVars, workVars
<1>a. posted \in Seq(Handlers)
  BY DEF FlightInv, FlightType
<1>b. Visible \subseteq Targets /\ \A opened, ev : VisibleIn(opened, ev) \subseteq Targets
  BY DEF Visible, VisibleIn
<1>c. ASSUME NEW t \in Targets, NEW leaves, NEW page, Activate(t, leaves, page, posted), UNCHANGED closed
      PROVE  FlightInv'
  BY <1>a, <1>c, ActivationAsks, AskingKeeps
<1>d. ASSUME UNCHANGED <<pending, gets, posted, closed>> PROVE FlightInv'
  BY <1>a, <1>d, SettlingKeeps
<1>1. ASSUME NEW new \in SUBSET Paths, OpenPaths(new) PROVE FlightInv'
  BY <1>1, <1>d DEF OpenPaths
<1>2. ASSUME NEW t \in Targets, SelectLeaf(t) PROVE FlightInv'
  BY <1>2, <1>c DEF SelectLeaf
<1>3. ASSUME NEW t \in Targets, NEW button \in BOOLEAN, SwitchSheet(t, button) PROVE FlightInv'
  BY <1>3, <1>c, <1>d DEF SwitchSheet, NoRetrieval
<1>4. ASSUME NEW page \in pages, SelectPage(page) PROVE FlightInv'
  BY <1>4, <1>b, <1>c, <1>d DEF SelectPage, NoRetrieval
<1>5. ASSUME NEW next \in pages \cup {None}, CloseTab(next) PROVE FlightInv'
  BY <1>5, <1>a, SettlingKeeps DEF CloseTab
<1>6. ASSUME NEW ev \in BOOLEAN, RebuildTrees(ev) PROVE FlightInv'
  BY <1>6, <1>b, <1>c, <1>d DEF RebuildTrees, NoRetrieval
<1>7. CASE CloseFrame
  BY <1>7, WaitsIsAnswered DEF CloseFrame, FlightInv, FlightType
<1> QED BY <1>1, <1>2, <1>3, <1>4, <1>5, <1>6, <1>7 DEF User

\* A future that is resolved leaves its answer, unless the window is closed.
LEMMA ResolveKeeps ==
    ASSUME FlightInv, Resolve
    PROVE  FlightInv'
<1> USE DEF docVars
<1>1. ASSUME NEW p \in Paths, NEW ok \in BOOLEAN, CatalogResolves(p, ok) PROVE FlightInv'
  <2> DEFINE h == [call |-> "catalog_done", path |-> p, ok |-> ok]
  <2>1. h \in Handlers /\ (posted' = Append(posted, h) \/ UNCHANGED posted)
    BY <1>1 DEF Handlers, CatalogResolves, CallAfter
  <2> HIDE DEF h
  <2>2. posted' \in Seq(Handlers) /\ \A u : Answered(posted, u) => Answered(posted', u)
    <3>1. Append(posted, h) \in Seq(Handlers) /\ \A u : Answered(posted, u) => Answered(Append(posted, h), u)
      BY <2>1, AppendKeepsQueued DEF Answered, FlightInv, FlightType
    <3> QED BY <2>1, <3>1 DEF FlightInv, FlightType
  <2> QED BY <1>1, <2>2, SettlingKeeps DEF CatalogResolves, FrameUnchanged
<1>2. ASSUME NEW t \in Targets, NEW ok \in BOOLEAN, GetResolves(t, ok) PROVE FlightInv'
  <2> DEFINE h == [call |-> "get_done", target |-> t, ok |-> ok]
  <2>1. /\ h \in Handlers /\ h.call = "get_done" /\ h.target = t
        /\ posted' = Append(posted, h) \/ (closed /\ UNCHANGED posted)
    BY <1>2 DEF Handlers, GetResolves, CallAfter
  <2> HIDE DEF h
  <2>2. /\ posted' \in Seq(Handlers) /\ \A u : Answered(posted, u) => Answered(posted', u)
        /\ ~closed => Answered(posted', t)
    <3>1. /\ Append(posted, h) \in Seq(Handlers) /\ Answered(Append(posted, h), t)
          /\ \A u : Answered(posted, u) => Answered(Append(posted, h), u)
      BY <2>1, AppendKeepsQueued DEF Answered, FlightInv, FlightType
    <3> QED BY <2>1, <3>1 DEF FlightInv, FlightType
  <2>3. /\ gets' \in [Targets -> Nat] /\ \A u \in Targets \ {t} : gets'[u] = gets[u]
        /\ UNCHANGED <<pending, closed>>
    BY <1>2 DEF GetResolves, FrameUnchanged, FlightInv, FlightType
  <2> QED BY <2>2, <2>3, WaitsIsAnswered DEF FlightInv, FlightType
<1> QED BY <1>1, <1>2 DEF Resolve

\* A handler that runs takes at most the target of its own answer out of the pending ones.
LEMMA DispatchKeeps ==
    ASSUME FlightInv, Dispatch
    PROVE  FlightInv'
<1> USE DEF docVars, workVars
<1>a. posted \in Seq(Handlers) /\ posted # <<>>
  BY DEF FlightInv, FlightType, Dispatch, CatalogDone, GetDone, CompleteGetPosted, ActivatePosted, Handles
<1>b. /\ Tail(posted) \in Seq(Handlers) /\ Head(posted) \in Handlers
      /\ Head(posted).call # "get_done" =>
            \A u : Answered(posted, u) => Answered(Tail(posted), u)
      /\ \A u : Answered(posted, u) => Answered(Tail(posted), u) \/ Head(posted).target = u
  BY <1>a, TailKeepsQueued DEF Answered
<1>1. CASE CatalogDone
  <2>1. \A u : Answered(posted, u) => Answered(Tail(posted), u)
    BY <1>1, <1>b DEF CatalogDone, Handles
  <2>2. CASE posted' = Tail(posted) /\ UNCHANGED <<pending, gets, closed>>
    BY <1>b, <2>1, <2>2, SettlingKeeps
  <2>3. ASSUME NEW own \in SUBSET Targets, NEW leaves, own # {},
               ActivateTwice(First(own), leaves, Tail(posted)), UNCHANGED closed
        PROVE  FlightInv'
    <3>1. First(own) \in Targets
      BY <2>3, FirstIsOne
    <3>2. ActivateCall(First(own)) \in Handlers
      BY <3>1 DEF ActivateCall, Handlers
    <3>3. Asks(First(own), Tail(posted)) \/ Asks(First(own), Append(Tail(posted), ActivateCall(First(own))))
      BY <2>3, SecondActivationAsks
    <3> QED BY <1>b, <2>1, <2>3, <3>1, <3>2, <3>3, AskingKeeps, AppendKeepsQueued DEF Answered
  <2>4. \A leaves, p : {t \in VisibleIn(leaves, evidence) : PathOf[t] = p} \in SUBSET Targets
    BY DEF VisibleIn
  <2>5. CASE closed
    BY <1>1, <2>2, <2>5 DEF CatalogDone, Ignored
  <2>6. CASE ~closed
    BY <1>1, <2>2, <2>3, <2>4, <2>6 DEF CatalogDone, NoRetrieval
  <2> QED BY <2>5, <2>6
<1>2. CASE GetDone
  <2> DEFINE t == Head(posted).target
             h == [call |-> "complete_get", target |-> t]
  <2>1. pending' = pending \ {t} /\ UNCHANGED <<gets, closed>>
    BY <1>2 DEF GetDone, Ignored
  <2>2. t \in Targets
    BY <1>2, <1>b DEF GetDone, Handles, Handlers
  <2>3. h \in Handlers
    BY <2>2 DEF Handlers
  <2>4. posted' = Tail(posted) \/ posted' = Append(Tail(posted), h)
    BY <1>2 DEF GetDone, Ignored
  <2> HIDE DEF h
  <2>5. posted' \in Seq(Handlers) /\ \A u : Answered(Tail(posted), u) => Answered(posted', u)
    <3>1. /\ Append(Tail(posted), h) \in Seq(Handlers)
          /\ \A u : Answered(Tail(posted), u) => Answered(Append(Tail(posted), h), u)
      BY <1>b, <2>3, AppendKeepsQueued DEF Answered
    <3> QED BY <1>b, <2>4, <3>1
  <2> QED BY <1>b, <2>1, <2>5, SettlingKeeps
<1>3. CASE CompleteGetPosted
  <2>1. Head(posted).call # "get_done" /\ posted' = Tail(posted) /\ UNCHANGED <<pending, gets, closed>>
    BY <1>3 DEF CompleteGetPosted, Handles, Ignored
  <2> QED BY <1>b, <2>1, SettlingKeeps
<1>4. CASE ActivatePosted
  <2>1. Head(posted).target \in Targets /\ Head(posted).call # "get_done"
    BY <1>4, <1>b DEF ActivatePosted, Handles, Handlers
  <2>2. Asks(Head(posted).target, Tail(posted)) /\ UNCHANGED closed
    BY <1>4, ActivationAsks DEF ActivatePosted
  <2> QED BY <1>b, <2>1, <2>2, AskingKeeps
<1> QED BY <1>1, <1>2, <1>3, <1>4 DEF Dispatch

\* While the window is open, a pending target has a retrieval in flight or an answer that waits, so
\* that _get_done always comes to take it out of pending_targets.
THEOREM RetrievalsAreInFlight == Spec => []PendingIsInFlight
<1>1. Init => FlightInv
  <2>1. Init => FlightType
    <3>1. <<>> \in Seq(Handlers) /\ [t \in Targets |-> 0] \in [Targets -> Nat]
      OBVIOUS
    <3> QED BY <3>1 DEF Init, FlightType
  <2>2. Init => PendingIsInFlight
    BY DEF Init, PendingIsInFlight
  <2> QED BY <2>1, <2>2 DEF FlightInv
<1>2. FlightInv /\ [Next]_vars => FlightInv'
  <2>1. ASSUME FlightInv, UNCHANGED vars PROVE FlightInv'
    BY <2>1, SettlingKeeps DEF vars, FlightInv, FlightType
  <2> QED BY <2>1, UserKeeps, ResolveKeeps, DispatchKeeps DEF Next, Exited
<1> QED BY <1>1, <1>2, PTL DEF Spec, FlightInv
-----------------------------------------------------------------------------
(* Projects: what is in flight is of projects that are being opened, or open. *)

IsCatalog(h, p) == h.call = "catalog_done" /\ h.path = p

\* A catalog that waits is the only one of its project, which is loading; a leaf that waits is
\* of an open project.
Fits(queue, state, listed) ==
    /\ \A n \in 1 .. Len(queue) :
          IF queue[n].call = "catalog_done"
          THEN state[queue[n].path] = "loading" /\ queue[n].path \notin listed
          ELSE state[PathOf[queue[n].target]] = "open"
    /\ \A m, n \in 1 .. Len(queue) : \A p : IsCatalog(queue[m], p) /\ IsCatalog(queue[n], p) => m = n

FlowType ==
    /\ node \in [Paths -> {"absent", "loading", "failed", "open"}]
    /\ listing \in SUBSET Paths
    /\ evidence \in BOOLEAN

FlowInv ==
    /\ FlowType
    /\ \A p \in listing : node[p] = "loading"
    /\ \A t \in Targets : gets[t] > 0 => node[PathOf[t]] = "open"
    /\ Fits(posted, node, listing)

\* One handler more.
LEMMA AppendFits ==
    ASSUME NEW queue \in Seq(Handlers), NEW h \in Handlers, NEW state, NEW listed,
           Fits(queue, state, listed),
           IF h.call = "catalog_done"
           THEN /\ state[h.path] = "loading" /\ h.path \notin listed
                /\ \A n \in 1 .. Len(queue) : ~IsCatalog(queue[n], h.path)
           ELSE state[PathOf[h.target]] = "open"
    PROVE  Fits(Append(queue, h), state, listed)
<1> DEFINE more == Append(queue, h)
           len == Len(queue)
<1>1. /\ Len(more) = len + 1 /\ len \in Nat
      /\ \A n \in 1 .. len : more[n] = queue[n]
      /\ more[len + 1] = h
  OBVIOUS
<1>2. \A n \in 1 .. len + 1 : n = len + 1 \/ n \in 1 .. len
  BY <1>1
<1> HIDE DEF more, len
<1>3. \A n \in 1 .. len + 1 :
          IF more[n].call = "catalog_done"
          THEN state[more[n].path] = "loading" /\ more[n].path \notin listed
          ELSE state[PathOf[more[n].target]] = "open"
  BY <1>1, <1>2 DEF Fits, len
<1>4. ASSUME NEW m \in 1 .. len + 1, NEW n \in 1 .. len + 1, NEW p,
             IsCatalog(more[m], p), IsCatalog(more[n], p)
      PROVE  m = n
  <2>1. CASE m \in 1 .. len /\ n \in 1 .. len
    BY <1>1, <1>4, <2>1 DEF Fits, len
  <2>2. ASSUME NEW k \in 1 .. len, IsCatalog(more[k], p), IsCatalog(h, p) PROVE FALSE
    BY <1>1, <2>2 DEF IsCatalog, len
  <2> QED BY <1>1, <1>2, <1>4, <2>1, <2>2
<1> QED BY <1>1, <1>3, <1>4 DEF Fits, more

\* One handler less: the one that runs.
LEMMA TailFits ==
    ASSUME NEW queue \in Seq(Handlers), queue # <<>>, NEW state, NEW listed, Fits(queue, state, listed)
    PROVE  /\ Fits(Tail(queue), state, listed)
           /\ IF Head(queue).call = "catalog_done"
              THEN /\ state[Head(queue).path] = "loading" /\ Head(queue).path \notin listed
                   /\ \A n \in 1 .. Len(Tail(queue)) : ~IsCatalog(Tail(queue)[n], Head(queue).path)
              ELSE state[PathOf[Head(queue).target]] = "open"
<1> DEFINE less == Tail(queue)
           len == Len(queue)
<1>1. /\ Len(less) = len - 1 /\ len \in Nat /\ len > 0
      /\ \A n \in 1 .. len - 1 : less[n] = queue[n + 1]
      /\ Head(queue) = queue[1]
  OBVIOUS
<1>2. \A n \in 1 .. len - 1 : n + 1 \in 1 .. len /\ n + 1 # 1
  BY <1>1
<1>3. 1 \in 1 .. len
  BY <1>1
<1> HIDE DEF less, len
<1>4. \A n \in 1 .. len - 1 :
          IF less[n].call = "catalog_done"
          THEN state[less[n].path] = "loading" /\ less[n].path \notin listed
          ELSE state[PathOf[less[n].target]] = "open"
  BY <1>1, <1>2 DEF Fits, len
<1>5. ASSUME NEW m \in 1 .. len - 1, NEW n \in 1 .. len - 1, NEW p,
             IsCatalog(less[m], p), IsCatalog(less[n], p)
      PROVE  m = n
  <2>1. IsCatalog(queue[m + 1], p) /\ IsCatalog(queue[n + 1], p)
    BY <1>1, <1>5
  <2>2. m + 1 = n + 1
    BY <1>2, <2>1 DEF Fits, len
  <2> QED BY <1>1, <2>2
<1>6. ASSUME NEW n \in 1 .. len - 1, Head(queue).call = "catalog_done", IsCatalog(less[n], Head(queue).path)
      PROVE  FALSE
  <2>1. IsCatalog(queue[n + 1], Head(queue).path) /\ IsCatalog(queue[1], Head(queue).path)
    BY <1>1, <1>6 DEF IsCatalog
  <2>2. n + 1 = 1
    BY <1>2, <1>3, <2>1 DEF Fits, len
  <2> QED BY <1>2, <2>2
<1>7. IF Head(queue).call = "catalog_done"
      THEN state[Head(queue).path] = "loading" /\ Head(queue).path \notin listed
      ELSE state[PathOf[Head(queue).target]] = "open"
  BY <1>1, <1>3 DEF Fits, len
<1> QED BY <1>1, <1>4, <1>5, <1>6, <1>7 DEF Fits, less

\* A leaf of an open project is asked for, by a handler whose queue fits.
LEMMA AskingFits ==
    ASSUME FlightInv, NEW t \in Targets, NEW queue \in Seq(Handlers), Asks(t, queue),
           FlowType', \A p \in listing' : node'[p] = "loading",
           \A u \in Targets : gets[u] > 0 => node'[PathOf[u]] = "open",
           node'[PathOf[t]] = "open", Fits(queue, node', listing')
    PROVE  FlowInv'
<1>1. ActivateCall(t) \in Handlers /\ ActivateCall(t).call # "catalog_done" /\ ActivateCall(t).target = t
  BY DEF ActivateCall, Handlers
<1>2. Fits(Append(queue, ActivateCall(t)), node', listing')
  BY <1>1, AppendFits
<1>3. Fits(posted', node', listing')
  BY <1>2 DEF Asks
<1>4. \A u \in Targets : gets'[u] > 0 => node'[PathOf[u]] = "open"
  <2>1. \A u \in Targets \ {t} : gets'[u] = gets[u] \/ gets' = gets
    BY DEF Asks, Retrieve, FlightInv, FlightType
  <2> QED BY <2>1
<1> QED BY <1>3, <1>4 DEF FlowInv

\* The user asks for leaves of open projects only, and opens projects that are not there yet.
LEMMA UserFits ==
    ASSUME FlightInv, FlowInv, User
    PROVE  FlowInv'
<1> USE DEF docVars, workVars
<1>a. posted \in Seq(Handlers)
  BY DEF FlightInv, FlightType
<1>b. \A t, ev : t \in VisibleIn(Opened, ev) => t \in Targets /\ node[PathOf[t]] = "open"
  BY DEF VisibleIn, Opened
<1>c. ASSUME NEW t, NEW leaves, NEW page, NEW ev, t \in VisibleIn(Opened, ev),
             Activate(t, leaves, page, posted), UNCHANGED <<node, listing>>, evidence' \in BOOLEAN
      PROVE  FlowInv'
  <2>1. t \in Targets /\ node[PathOf[t]] = "open"
    BY <1>b, <1>c
  <2>2. Asks(t, posted)
    BY <1>c, ActivationAsks
  <2> QED BY <1>a, <1>c, <2>1, <2>2, AskingFits DEF FlowInv, FlowType
<1>d. ASSUME UNCHANGED <<node, listing, gets, posted>>, evidence' \in BOOLEAN PROVE FlowInv'
  BY <1>d DEF FlowInv, FlowType
<1>e. evidence \in BOOLEAN
  BY DEF FlowInv, FlowType
<1>1. ASSUME NEW new \in SUBSET Paths, OpenPaths(new) PROVE FlowInv'
  <2>1. /\ node' = [p \in Paths |-> IF p \in new THEN "loading" ELSE node[p]]
        /\ listing' = listing \cup new /\ UNCHANGED <<gets, posted, evidence>>
        /\ \A p \in new : node[p] = "absent"
    BY <1>1 DEF OpenPaths
  <2>2. \A p \in Paths : node[p] # "absent" => node'[p] = node[p] /\ p \notin new
    BY <2>1
  <2>3. FlowType' /\ \A p \in listing' : node'[p] = "loading"
    BY <2>1 DEF FlowInv, FlowType
  <2>4. \A n \in 1 .. Len(posted) :
            /\ posted[n].call = "catalog_done" => posted[n].path \in Paths
            /\ posted[n].call # "catalog_done" => PathOf[posted[n].target] \in Paths
    <3>1. \A n \in 1 .. Len(posted) : posted[n] \in Handlers
      BY <1>a
    <3> QED BY <3>1 DEF Handlers
  <2>5. Fits(posted, node', listing')
    BY <2>1, <2>2, <2>4 DEF FlowInv, Fits
  <2>6. \A t \in Targets : gets'[t] > 0 => node'[PathOf[t]] = "open"
    BY <2>1, <2>2 DEF FlowInv
  <2> QED BY <2>1, <2>3, <2>5, <2>6 DEF FlowInv
<1>2. ASSUME NEW t \in Targets, SelectLeaf(t) PROVE FlowInv'
  BY <1>2, <1>c, <1>e DEF SelectLeaf, Visible
<1>3. ASSUME NEW t \in Targets, NEW button \in BOOLEAN, SwitchSheet(t, button) PROVE FlowInv'
  BY <1>3, <1>c, <1>d, <1>e DEF SwitchSheet, NoRetrieval, Visible
<1>4. ASSUME NEW page \in pages, SelectPage(page) PROVE FlowInv'
  BY <1>4, <1>c, <1>d, <1>e DEF SelectPage, NoRetrieval, Visible
<1>5. ASSUME NEW next \in pages \cup {None}, CloseTab(next) PROVE FlowInv'
  BY <1>5, <1>d, <1>e DEF CloseTab
<1>6. ASSUME NEW ev \in BOOLEAN, RebuildTrees(ev) PROVE FlowInv'
  BY <1>6, <1>c, <1>d DEF RebuildTrees, NoRetrieval
<1>7. CASE CloseFrame
  BY <1>7, <1>d, <1>e DEF CloseFrame
<1> QED BY <1>1, <1>2, <1>3, <1>4, <1>5, <1>6, <1>7 DEF User

\* A future that is resolved hands its project or leaf to the handler it posts.
LEMMA ResolveFits ==
    ASSUME FlightInv, FlowInv, Resolve
    PROVE  FlowInv'
<1> USE DEF docVars
<1>a. posted \in Seq(Handlers)
  BY DEF FlightInv, FlightType
<1>1. ASSUME NEW p \in Paths, NEW ok \in BOOLEAN, CatalogResolves(p, ok) PROVE FlowInv'
  <2> DEFINE h == [call |-> "catalog_done", path |-> p, ok |-> ok]
  <2>1. /\ h \in Handlers /\ h.call = "catalog_done" /\ h.path = p
        /\ posted' = Append(posted, h) \/ UNCHANGED posted
        /\ p \in listing /\ listing' = listing \ {p} /\ UNCHANGED <<node, evidence, gets>>
    BY <1>1 DEF Handlers, CatalogResolves, CallAfter, FrameUnchanged
  <2> HIDE DEF h
  <2>2. Fits(posted, node, listing') /\ \A n \in 1 .. Len(posted) : ~IsCatalog(posted[n], p)
    BY <2>1 DEF FlowInv, Fits, IsCatalog
  <2>3. Fits(Append(posted, h), node, listing')
    BY <1>a, <2>1, <2>2, AppendFits DEF FlowInv
  <2> QED BY <2>1, <2>2, <2>3 DEF FlowInv, FlowType
<1>2. ASSUME NEW t \in Targets, NEW ok \in BOOLEAN, GetResolves(t, ok) PROVE FlowInv'
  <2> DEFINE h == [call |-> "get_done", target |-> t, ok |-> ok]
  <2>1. /\ h \in Handlers /\ h.call = "get_done" /\ h.target = t
        /\ posted' = Append(posted, h) \/ UNCHANGED posted
        /\ gets[t] > 0 /\ gets' = [gets EXCEPT ![t] = @ - 1] /\ UNCHANGED <<node, evidence, listing>>
    BY <1>2 DEF Handlers, GetResolves, CallAfter, FrameUnchanged
  <2> HIDE DEF h
  <2>2. Fits(Append(posted, h), node, listing)
    BY <1>a, <2>1, AppendFits DEF FlowInv
  <2>3. \A u \in Targets : gets'[u] > 0 => gets[u] > 0
    BY <2>1 DEF FlightInv, FlightType
  <2> QED BY <2>1, <2>2, <2>3 DEF FlowInv, FlowType
<1> QED BY <1>1, <1>2 DEF Resolve

\* A handler that runs asks for leaves of the projects that are open then.
LEMMA DispatchFits ==
    ASSUME FlightInv, FlowInv, Dispatch
    PROVE  FlowInv'
<1> USE DEF docVars, workVars
<1>a. posted \in Seq(Handlers) /\ posted # <<>>
  BY DEF FlightInv, FlightType, Dispatch, CatalogDone, GetDone, CompleteGetPosted, ActivatePosted, Handles
<1> DEFINE h == Head(posted)
           rest == Tail(posted)
<1>b. rest \in Seq(Handlers) /\ h \in Handlers
  BY <1>a, TailKeepsQueued
<1>c. /\ Fits(rest, node, listing)
      /\ IF h.call = "catalog_done"
         THEN /\ node[h.path] = "loading" /\ h.path \notin listing
              /\ \A n \in 1 .. Len(rest) : ~IsCatalog(rest[n], h.path)
         ELSE node[PathOf[h.target]] = "open"
  BY <1>a, TailFits DEF FlowInv
<1>d. /\ h.call = "catalog_done" => h.path \in Paths
      /\ h.call # "catalog_done" => h.target \in Targets
  BY <1>b DEF Handlers
<1> HIDE DEF h, rest
<1>e. ASSUME posted' = rest, UNCHANGED <<node, evidence, listing, gets>> PROVE FlowInv'
  BY <1>c, <1>e DEF FlowInv, FlowType
<1>1. CASE CatalogDone
  <2> DEFINE p == h.path
  <2>1. h.call = "catalog_done" /\ p \in Paths
    BY <1>1, <1>d DEF CatalogDone, Handles, h
  <2>2. CASE closed
    BY <1>1, <1>e, <2>2 DEF CatalogDone, Ignored, rest
  <2>3. CASE ~closed
    <3> DEFINE opened == Opened \cup {p}
               own == {t \in VisibleIn(opened, evidence) : PathOf[t] = p}
    <3>1. \/ /\ node' = [node EXCEPT ![p] = "failed"]
             /\ posted' = rest /\ UNCHANGED <<evidence, listing, gets>>
          \/ /\ node' = [node EXCEPT ![p] = "open"] /\ UNCHANGED <<evidence, listing>>
             /\ \/ posted' = rest /\ UNCHANGED gets
                \/ own # {} /\ ActivateTwice(First(own), VisibleIn(opened, evidence), rest)
      BY <1>1, <2>3 DEF CatalogDone, NoRetrieval, h, rest
    <3>2. node' \in [Paths -> {"absent", "loading", "failed", "open"}] /\ \A q \in Paths \ {p} : node'[q] = node[q]
      BY <2>1, <3>1 DEF FlowInv, FlowType
    <3>3. FlowType' /\ \A q \in listing' : node'[q] = "loading"
      BY <1>c, <2>1, <3>1, <3>2 DEF FlowInv, FlowType
    <3>4. \A t \in Targets : gets[t] > 0 => node'[PathOf[t]] = "open"
      BY <1>c, <2>1, <3>2 DEF FlowInv
    <3>5. Fits(rest, node', listing')
      <4>1. \A n \in 1 .. Len(rest) : rest[n] \in Handlers
        BY <1>b
      <4>2. \A n \in 1 .. Len(rest) : IF rest[n].call = "catalog_done"
                                      THEN rest[n].path \in Paths \ {p}
                                      ELSE PathOf[rest[n].target] \in Paths
        BY <1>c, <2>1, <4>1 DEF Handlers, IsCatalog
      <4>3. listing' = listing
        BY <3>1
      <4>4. \A n \in 1 .. Len(rest) : IF rest[n].call = "catalog_done"
                                      THEN node'[rest[n].path] = node[rest[n].path]
                                      ELSE node'[PathOf[rest[n].target]] = node[PathOf[rest[n].target]]
        BY <1>c, <2>1, <3>2, <4>2 DEF Fits
      <4> QED BY <1>c, <4>3, <4>4 DEF Fits
    <3>6. CASE posted' = rest /\ UNCHANGED gets
      BY <3>3, <3>4, <3>5, <3>6 DEF FlowInv
    <3>7. CASE /\ own # {} /\ ActivateTwice(First(own), VisibleIn(opened, evidence), rest)
               /\ node' = [node EXCEPT ![p] = "open"]
      <4> DEFINE t == First(own)
      <4>1. t \in own
        BY <3>7, FirstIsOne DEF VisibleIn
      <4>2. t \in Targets /\ PathOf[t] = p
        BY <4>1 DEF VisibleIn
      <4>3. node'[PathOf[t]] = "open"
        BY <2>1, <3>7, <4>2 DEF FlowInv, FlowType
      <4>4. Asks(t, rest) \/ Asks(t, Append(rest, ActivateCall(t)))
        BY <3>7, SecondActivationAsks
      <4>5. ActivateCall(t) \in Handlers /\ ActivateCall(t).call # "catalog_done" /\ ActivateCall(t).target = t
        BY <4>2 DEF ActivateCall, Handlers
      <4> HIDE DEF t
      <4>6. Append(rest, ActivateCall(t)) \in Seq(Handlers) /\ Fits(Append(rest, ActivateCall(t)), node', listing')
        BY <1>b, <3>5, <4>3, <4>5, AppendFits, AppendKeepsQueued
      <4> QED BY <1>b, <3>3, <3>4, <3>5, <4>2, <4>3, <4>4, <4>6, AskingFits
    <3> QED BY <3>1, <3>6, <3>7
  <2> QED BY <2>2, <2>3
<1>2. CASE GetDone
  <2> DEFINE done == [call |-> "complete_get", target |-> h.target]
  <2>1. h.target \in Targets /\ node[PathOf[h.target]] = "open"
    BY <1>2, <1>c, <1>d DEF GetDone, Handles, h
  <2>2. /\ posted' = rest \/ posted' = Append(rest, done)
        /\ UNCHANGED <<node, evidence, listing, gets>>
    BY <1>2 DEF GetDone, Ignored, h, rest
  <2>3. done \in Handlers /\ done.call # "catalog_done" /\ done.target = h.target
    BY <2>1 DEF Handlers
  <2> HIDE DEF done
  <2>4. Fits(Append(rest, done), node, listing)
    BY <1>b, <1>c, <2>1, <2>3, AppendFits
  <2> QED BY <1>c, <2>2, <2>4 DEF FlowInv, FlowType
<1>3. CASE CompleteGetPosted
  BY <1>3, <1>e DEF CompleteGetPosted, Ignored, rest
<1>4. CASE ActivatePosted
  <2>1. h.target \in Targets /\ node[PathOf[h.target]] = "open"
    BY <1>4, <1>c, <1>d DEF ActivatePosted, Handles, h
  <2>2. Asks(h.target, rest) /\ UNCHANGED <<node, evidence, listing>>
    BY <1>4, ActivationAsks DEF ActivatePosted, h, rest
  <2> QED BY <1>b, <1>c, <2>1, <2>2, AskingFits DEF FlowInv, FlowType
<1> QED BY <1>1, <1>2, <1>3, <1>4 DEF Dispatch
-----------------------------------------------------------------------------
(* Opening a leaf.                                                         *)

DocType ==
    /\ pages \in SUBSET Pages
    /\ selected \in Pages \cup {None}
    /\ books \in [Books -> [sheets : SUBSET Targets, shown : Targets \cup {None},
                           loading : SUBSET Targets]]
    /\ tabs \in [Targets -> Pages \cup {None}]

\* There is a page left for every leaf without a tab.
Unloaded == {t \in Targets : tabs[t] = None}
Free == (1 .. MaxPages) \ pages
Room == Cardinality(Unloaded) <= Cardinality(Free)

TabsFit ==
    /\ \A t \in Targets : tabs[t] # None => tabs[t] \in pages
    /\ \A t \in Targets : tabs[t] \in Books => t \in books[tabs[t]].sheets
    /\ \A t, u \in Targets : t # u /\ tabs[t] = tabs[u] => tabs[t] \in Books \cup {None}

BooksFit ==
    /\ \A b \in Books \cap pages : books[b].sheets # {} /\ books[b].shown \in books[b].sheets
    /\ \A b \in Books \ pages : books[b] = NoBook
    /\ \A b \in Books : /\ \A t \in books[b].sheets : BookOf[t] = b
                        /\ books[b].loading \subseteq books[b].sheets

SelectionFits == IF pages = {} THEN selected = None ELSE selected \in pages

DocInv == DocType /\ Room /\ TabsFit /\ BooksFit /\ SelectionFits

\* The page of a leaf is turned, filled or built: it may turn to t, and only the loading view
\* of t comes or goes.
Turned(t, was, now) ==
    /\ now \in [sheets : SUBSET Targets, shown : Targets \cup {None}, loading : SUBSET Targets]
    /\ now.sheets = was.sheets
    /\ now.shown \in was.sheets \cup {was.shown}
    /\ now.loading \ {t} = was.loading \ {t}
    /\ t \in now.loading => t \in now.sheets

BookGrows(t, leaves) ==
    \/ books' = books /\ pages' \cap Books = pages \cap Books
    \/ /\ InWorkbook(t, leaves)
       /\ pages' \cap Books = (pages \cap Books) \cup {BookOf[t]}
       /\ \E now : Turned(t, BookFor(t, leaves), now) /\ books' = [books EXCEPT ![BookOf[t]] = now]

TabGrows(t, leaves) ==
    \/ tabs' = tabs /\ pages' \ Books = pages \ Books
    \/ /\ tabs[t] = None
       /\ tabs' = [tabs EXCEPT ![t] = NewPage]
       /\ pages' \ Books = (pages \ Books) \cup {NewPage}
    \/ /\ tabs[t] = None /\ InWorkbook(t, leaves)
       /\ tabs' = [tabs EXCEPT ![t] = BookOf[t]]
       /\ pages' \ Books = pages \ Books
       /\ BookOf[t] \in pages' /\ t \in books'[BookOf[t]].sheets

Grows(t, leaves) ==
    /\ pages' \in SUBSET (pages \cup Books \cup {NewPage})
    /\ BookGrows(t, leaves) /\ TabGrows(t, leaves)
    /\ SelectionFits'

\* A leaf of a workbook has a key, and the page it is built on has its sheets.
LEMMA WorkbookHasKey ==
    ASSUME NEW t \in Targets, NEW leaves \in SUBSET Targets, InWorkbook(t, leaves)
    PROVE  /\ BookOf[t] \in Books /\ t \in leaves
           /\ t \in Siblings(t, leaves) /\ Siblings(t, leaves) \in SUBSET Targets
           /\ \A s \in Siblings(t, leaves) : BookOf[s] = BookOf[t]
<1>1. Siblings(t, leaves) # {}
  <2>1. Cardinality({}) = 0
    BY FS_EmptySet
  <2> QED BY <2>1 DEF InWorkbook
<1> QED BY <1>1 DEF Siblings

\* The workbook of a leaf has sheets of its key, and shows one of them.
LEMMA BookForFits ==
    ASSUME DocType, BooksFit, NEW t \in Targets, NEW leaves \in SUBSET Targets, InWorkbook(t, leaves)
    PROVE  LET book == BookFor(t, leaves) IN
           /\ book \in [sheets : SUBSET Targets, shown : Targets \cup {None}, loading : SUBSET Targets]
           /\ book.sheets # {} /\ book.shown \in book.sheets
           /\ \A s \in book.sheets : BookOf[s] = BookOf[t]
           /\ book.loading \subseteq book.sheets
           /\ BookOf[t] \in pages => book = books[BookOf[t]]
           /\ BookOf[t] \notin pages => book.loading = {} /\ t \in book.sheets
<1>1. BookOf[t] \in Books /\ t \in Siblings(t, leaves) /\ Siblings(t, leaves) \in SUBSET Targets
      /\ \A s \in Siblings(t, leaves) : BookOf[s] = BookOf[t]
  BY WorkbookHasKey
<1>2. CASE BookOf[t] \in pages
  BY <1>1, <1>2 DEF BookFor, DocType, BooksFit
<1>3. CASE BookOf[t] \notin pages
  <2>1. First(Siblings(t, leaves)) \in Siblings(t, leaves)
    BY <1>1, FirstIsOne
  <2> QED BY <1>1, <1>3, <2>1 DEF BookFor
<1> QED BY <1>2, <1>3

\* A leaf without a tab finds a page.
LEMMA NewPageIsFree ==
    ASSUME DocType, Room, NEW t \in Targets, tabs[t] = None
    PROVE  NewPage \in Free
<1>1. IsFiniteSet(Unloaded) /\ IsFiniteSet(Free)
  <2>1. IsFiniteSet(1 .. MaxPages)
    BY FS_Interval
  <2> QED BY <2>1, FS_Subset DEF Unloaded, Free
<1>2. Cardinality(Unloaded) > 0
  <2>1. Unloaded # {}
    BY DEF Unloaded
  <2> QED BY <1>1, <2>1, FS_EmptySet, FS_CardinalityType
<1>3. Free # {}
  BY <1>1, <1>2, FS_EmptySet, FS_CardinalityType DEF Room
<1> QED BY <1>3 DEF NewPage, Free

\* A page more and a leaf without a tab less leaves room.
LEMMA RoomKeeps ==
    ASSUME DocType, Room, NEW t \in Targets, NEW leaves \in SUBSET Targets,
           TabGrows(t, leaves), pages' \in SUBSET (pages \cup Books \cup {NewPage}), DocType'
    PROVE  Room'
<1>1. IsFiniteSet(Unloaded) /\ IsFiniteSet(Free)
  <2>1. IsFiniteSet(1 .. MaxPages)
    BY FS_Interval
  <2> QED BY <2>1, FS_Subset DEF Unloaded, Free
<1>2. \A n \in 1 .. MaxPages : n \notin Books
  OBVIOUS
<1>3. CASE tabs' = tabs /\ pages' \ Books = pages \ Books
  <2>1. Unloaded' = Unloaded /\ Free' = Free
    BY <1>2, <1>3 DEF Unloaded, Free
  <2> QED BY <2>1 DEF Room
<1>4. CASE /\ tabs[t] = None
           /\ tabs' = [tabs EXCEPT ![t] = NewPage]
           /\ pages' \ Books = (pages \ Books) \cup {NewPage}
  <2>1. NewPage \in Free
    BY <1>4, NewPageIsFree
  <2>2. Free' = Free \ {NewPage}
    BY <1>2, <1>4, <2>1 DEF Free
  <2>3. Unloaded' = Unloaded \ {t} /\ t \in Unloaded
    <3>1. NewPage # None
      BY <2>1 DEF Free
    <3> QED BY <1>4, <3>1 DEF Unloaded, DocType
  <2>4. /\ Cardinality(Free') = Cardinality(Free) - 1
        /\ Cardinality(Unloaded') = Cardinality(Unloaded) - 1
    BY <1>1, <2>1, <2>2, <2>3, FS_RemoveElement
  <2> QED BY <1>1, <2>4, FS_CardinalityType DEF Room
<1>5. CASE /\ tabs[t] = None /\ InWorkbook(t, leaves)
           /\ tabs' = [tabs EXCEPT ![t] = BookOf[t]]
           /\ pages' \ Books = pages \ Books
  <2>1. Free' = Free
    BY <1>2, <1>5 DEF Free
  <2>2. Unloaded' = Unloaded \ {t} /\ t \in Unloaded
    <3>1. BookOf[t] # None
      BY <1>5, WorkbookHasKey
    <3> QED BY <1>5, <3>1 DEF Unloaded, DocType
  <2>3. Cardinality(Unloaded') = Cardinality(Unloaded) - 1
    BY <1>1, <2>2, FS_RemoveElement
  <2> QED BY <1>1, <2>1, <2>3, FS_CardinalityType DEF Room
<1> QED BY <1>3, <1>4, <1>5 DEF TabGrows

\* What is turned or built has the type of a workbook, and the sheets of its key.
LEMMA BookGrowsKeeps ==
    ASSUME DocType, BooksFit, NEW t \in Targets, NEW leaves \in SUBSET Targets, BookGrows(t, leaves)
    PROVE  /\ BooksFit'
           /\ books' \in [Books -> [sheets : SUBSET Targets, shown : Targets \cup {None},
                                    loading : SUBSET Targets]]
           /\ \A b \in Books \cap pages : b \in pages' /\ books'[b].sheets = books[b].sheets
<1>1. CASE books' = books /\ pages' \cap Books = pages \cap Books
  BY <1>1 DEF BooksFit, DocType
<1>2. CASE /\ InWorkbook(t, leaves)
           /\ pages' \cap Books = (pages \cap Books) \cup {BookOf[t]}
           /\ \E now : Turned(t, BookFor(t, leaves), now) /\ books' = [books EXCEPT ![BookOf[t]] = now]
  <2> DEFINE was == BookFor(t, leaves)
  <2>1. PICK now : Turned(t, was, now) /\ books' = [books EXCEPT ![BookOf[t]] = now]
    BY <1>2
  <2>2. BookOf[t] \in Books
    BY <1>2, WorkbookHasKey
  <2>3. /\ was.sheets # {} /\ \A s \in was.sheets : BookOf[s] = BookOf[t]
        /\ was.shown \in was.sheets /\ was.loading \subseteq was.sheets
        /\ BookOf[t] \in pages => was = books[BookOf[t]]
    BY <1>2, BookForFits
  <2> HIDE DEF was
  <2>4. /\ now.sheets # {} /\ \A s \in now.sheets : BookOf[s] = BookOf[t]
        /\ now.shown \in now.sheets /\ now.loading \subseteq now.sheets
        /\ now \in [sheets : SUBSET Targets, shown : Targets \cup {None}, loading : SUBSET Targets]
        /\ BookOf[t] \in pages => now.sheets = books[BookOf[t]].sheets
    BY <2>1, <2>3 DEF Turned
  <2>5. /\ books'[BookOf[t]] = now
        /\ \A b \in Books \ {BookOf[t]} : books'[b] = books[b]
    BY <2>1, <2>2 DEF DocType
  <2>6. BooksFit'
    BY <1>2, <2>2, <2>4, <2>5 DEF BooksFit
  <2>7. books' \in [Books -> [sheets : SUBSET Targets, shown : Targets \cup {None},
                              loading : SUBSET Targets]]
    BY <2>1, <2>2, <2>4 DEF DocType
  <2> QED BY <1>2, <2>4, <2>5, <2>6, <2>7
<1> QED BY <1>1, <1>2 DEF BookGrows

\* Opening a leaf keeps the tables in agreement.
LEMMA GrowsKeeps ==
    ASSUME DocInv, NEW t \in Targets, NEW leaves \in SUBSET Targets, Grows(t, leaves)
    PROVE  DocInv'
<1>1. /\ BooksFit'
      /\ books' \in [Books -> [sheets : SUBSET Targets, shown : Targets \cup {None},
                               loading : SUBSET Targets]]
      /\ \A b \in Books \cap pages : b \in pages' /\ books'[b].sheets = books[b].sheets
  BY BookGrowsKeeps DEF DocInv, Grows
<1>2. tabs[t] = None => NewPage \in 1 .. MaxPages /\ NewPage \notin pages /\ NewPage \notin Books
  BY NewPageIsFree DEF DocInv, Free
<1>3. \A p \in pages : p \in pages'
  <2>1. \A p \in pages \ Books : p \in pages'
    BY DEF Grows, TabGrows
  <2> QED BY <1>1, <2>1
<1>4. pages' \in SUBSET Pages
  <2>1. pages' \ Books \subseteq Pages
    BY <1>2 DEF Grows, TabGrows, DocInv, DocType, Pages
  <2> QED BY <2>1 DEF Pages
<1>5. tabs' \in [Targets -> Pages \cup {None}]
  BY <1>2, WorkbookHasKey DEF Grows, TabGrows, DocInv, DocType, Pages
<1>6. DocType'
  <2>1. selected' \in Pages \cup {None}
    BY <1>4 DEF Grows, SelectionFits
  <2> QED BY <1>1, <1>4, <1>5, <2>1 DEF DocType
<1>7. Room'
  BY <1>6, RoomKeeps DEF DocInv, Grows
<1>8. TabsFit'
  <2>1. CASE tabs' = tabs
    BY <1>1, <1>3, <2>1 DEF DocInv, TabsFit
  <2>2. CASE /\ tabs[t] = None
             /\ tabs' = [tabs EXCEPT ![t] = NewPage]
             /\ pages' \ Books = (pages \ Books) \cup {NewPage}
    <3>1. /\ NewPage \in pages' /\ NewPage \notin Books
          /\ \A s \in Targets : tabs[s] # NewPage
      BY <1>2, <2>2 DEF DocInv, TabsFit
    <3>2. tabs'[t] = NewPage /\ \A s \in Targets \ {t} : tabs'[s] = tabs[s]
      BY <2>2 DEF DocInv, DocType
    <3> QED BY <1>1, <1>3, <3>1, <3>2 DEF DocInv, TabsFit
  <2>3. CASE /\ tabs[t] = None /\ InWorkbook(t, leaves)
             /\ tabs' = [tabs EXCEPT ![t] = BookOf[t]]
             /\ BookOf[t] \in pages' /\ t \in books'[BookOf[t]].sheets
    <3>1. tabs'[t] = BookOf[t] /\ \A s \in Targets \ {t} : tabs'[s] = tabs[s]
      BY <2>3 DEF DocInv, DocType
    <3>2. BookOf[t] \in Books
      BY <2>3, WorkbookHasKey
    <3> QED BY <1>1, <1>3, <2>3, <3>1, <3>2 DEF DocInv, TabsFit
  <2> QED BY <2>1, <2>2, <2>3 DEF Grows, TabGrows
<1> QED BY <1>1, <1>6, <1>7, <1>8 DEF DocInv, Grows
-----------------------------------------------------------------------------
(* Selecting and closing pages.                                            *)

\* Another page is selected, and the rest stays.
LEMMA SelectKeeps ==
    ASSUME DocInv, UNCHANGED <<pages, books, tabs>>, SelectionFits'
    PROVE  DocInv'
<1>1. selected' \in Pages \cup {None}
  BY DEF DocInv, DocType, SelectionFits
<1>2. DocType' /\ Unloaded' = Unloaded /\ Free' = Free
  BY <1>1 DEF DocInv, DocType, Unloaded, Free
<1> QED BY <1>2 DEF DocInv, Room, TabsFit, BooksFit

\* A page that is closed takes its tabs along.
LEMMA CloseKeeps ==
    ASSUME DocInv, NEW next \in pages \cup {None}, CloseTab(next)
    PROVE  DocInv'
<1> DEFINE gone == TargetsOf(selected)
<1>1. /\ pages' = pages \ {selected} /\ selected' = next /\ selected # None
      /\ next \in IF pages' = {} THEN {None} ELSE pages'
      /\ tabs' = [t \in Targets |-> IF t \in gone THEN None ELSE tabs[t]]
      /\ books' = [b \in Books |-> IF b = selected THEN NoBook ELSE books[b]]
      /\ Cardinality(Free) >= Cardinality(Targets)
  BY DEF CloseTab, UserActs, Free
<1>2. \A t \in Targets : tabs[t] = selected => t \in gone
  BY DEF TargetsOf, DocInv, TabsFit
<1>3. SelectionFits'
  BY <1>1 DEF SelectionFits
<1>4. DocType'
  <2>1. NoBook \in [sheets : SUBSET Targets, shown : Targets \cup {None}, loading : SUBSET Targets]
    BY DEF NoBook
  <2>2. \A b \in Books : books'[b] = IF b = selected THEN NoBook ELSE books[b]
    BY <1>1
  <2>3. books' \in [Books -> [sheets : SUBSET Targets, shown : Targets \cup {None},
                              loading : SUBSET Targets]]
    BY <1>1, <2>1 DEF DocInv, DocType
  <2>4. tabs' \in [Targets -> Pages \cup {None}]
    BY <1>1 DEF DocInv, DocType
  <2> HIDE DEF gone
  <2> QED BY <1>1, <2>3, <2>4 DEF DocInv, DocType
<1>5. Room'
  <2>1. IsFiniteSet(Free') /\ Free \subseteq Free'
    <3>1. IsFiniteSet(1 .. MaxPages)
      BY FS_Interval
    <3> QED BY <1>1, <3>1, FS_Subset DEF Free
  <2>2. Unloaded' \subseteq Targets
    BY DEF Unloaded
  <2>3. Cardinality(Free) <= Cardinality(Free') /\ Cardinality(Unloaded') <= Cardinality(Targets)
    BY <2>1, <2>2, FS_Subset
  <2>4. /\ Cardinality(Free) \in Nat /\ Cardinality(Free') \in Nat
        /\ Cardinality(Targets) \in Nat /\ Cardinality(Unloaded') \in Nat
    BY <2>1, <2>2, FS_Subset, FS_CardinalityType
  <2> QED BY <1>1, <2>3, <2>4 DEF Room
<1> HIDE DEF gone
<1>6. \A t \in Targets : tabs'[t] # None => tabs'[t] = tabs[t] /\ tabs[t] # selected
  BY <1>1, <1>2
<1>7. \A b \in Books : books'[b] = IF b = selected THEN NoBook ELSE books[b]
  BY <1>1
<1>8. TabsFit'
  <2>1. \A t \in Targets : tabs'[t] # None => tabs'[t] \in pages'
    BY <1>1, <1>6 DEF DocInv, TabsFit
  <2>2. \A t \in Targets : tabs'[t] \in Books => t \in books'[tabs'[t]].sheets
    BY <1>6, <1>7 DEF DocInv, TabsFit
  <2>3. \A t, u \in Targets : t # u /\ tabs'[t] = tabs'[u] => tabs'[t] \in Books \cup {None}
    BY <1>6 DEF DocInv, TabsFit
  <2> QED BY <2>1, <2>2, <2>3 DEF TabsFit
<1>9. BooksFit'
  BY <1>1, <1>7 DEF DocInv, BooksFit, NoBook
<1> QED BY <1>3, <1>4, <1>5, <1>8, <1>9 DEF DocInv
-----------------------------------------------------------------------------
(* The handlers open leaves, select pages, or close one.                   *)

PageFits(page) == IF pages = {} THEN page = None ELSE page \in pages

Selects == UNCHANGED <<pages, books, tabs>> /\ SelectionFits'

\* Opening t, with what tells a page of its own from a sheet, and when a loading view appears.
Opens(t, leaves) ==
    /\ Grows(t, leaves)
    /\ tabs' # tabs =>
          /\ tabs'[t] \in Books => t \notin books'[tabs'[t]].loading
          /\ tabs'[t] \notin Books => t \in Untabled \/ ~InWorkbook(t, leaves)
    /\ tabs' = tabs =>
          \A b \in Books : t \in books'[b].loading => t \in books[b].loading \/ tabs[t] = None

\* The page of a workbook is there, or is built: only its view of t changes.
LEMMA BookOpens ==
    ASSUME DocInv, NEW t \in Targets, NEW leaves \in SUBSET Targets, InWorkbook(t, leaves),
           NEW now, Turned(t, BookFor(t, leaves), now),
           books' = [books EXCEPT ![BookOf[t]] = now],
           pages' \cap Books = (pages \cap Books) \cup {BookOf[t]}
    PROVE  /\ BookGrows(t, leaves)
           /\ books'[BookOf[t]] = now /\ BookOf[t] \in pages'
           /\ \A b \in Books : t \in books'[b].loading => t \in books[b].loading \/ t \in now.loading
<1>1. BookOf[t] \in Books
  BY WorkbookHasKey
<1>2. books'[BookOf[t]] = now /\ \A b \in Books \ {BookOf[t]} : books'[b] = books[b]
  BY <1>1 DEF DocInv, DocType
<1> QED BY <1>1, <1>2 DEF BookGrows

\* The sheet of an activated leaf is shown, and loads if it is not loaded.
LEMMA SheetOpens ==
    ASSUME DocInv, NEW t \in Targets, NEW leaves \in SUBSET Targets, InWorkbook(t, leaves),
           NEW queue, ActivateSheet(t, leaves, queue)
    PROVE  Opens(t, leaves)
<1> DEFINE b == BookOf[t]
           book == BookFor(t, leaves)
<1>1. b \in Books
  BY WorkbookHasKey
<1>2. /\ book \in [sheets : SUBSET Targets, shown : Targets \cup {None}, loading : SUBSET Targets]
      /\ book.loading \subseteq book.sheets
      /\ b \in pages => book = books[b]
      /\ b \notin pages => book.loading = {}
  BY BookForFits DEF DocInv
<1>3. pages' = pages \cup {b} /\ selected' = b /\ tabs' = tabs
  BY DEF ActivateSheet
<1>4. PICK now : /\ Turned(t, book, now) /\ books' = [books EXCEPT ![b] = now]
                 /\ t \in now.loading => t \in book.loading \/ tabs[t] = None
  <2> DEFINE turned == [book EXCEPT !.shown = t]
             filling == [book EXCEPT !.shown = t, !.loading = @ \cup {t}]
  <2>1. \/ books' = [books EXCEPT ![b] = book]
        \/ t \in book.sheets /\ books' = [books EXCEPT ![b] = turned]
        \/ t \in book.sheets /\ tabs[t] = None /\ books' = [books EXCEPT ![b] = filling]
    BY DEF ActivateSheet
  <2> HIDE DEF book
  <2>2. Turned(t, book, book)
    BY <1>2 DEF Turned
  <2>3. t \in book.sheets => Turned(t, book, turned) /\ turned.loading = book.loading
    BY <1>2 DEF Turned
  <2>4. t \in book.sheets => Turned(t, book, filling)
    BY <1>2 DEF Turned
  <2> QED BY <2>1, <2>2, <2>3, <2>4
<1>5. pages' \cap Books = (pages \cap Books) \cup {b} /\ pages' \ Books = pages \ Books
  BY <1>1, <1>3
<1>6. book.loading \subseteq books[b].loading
  BY <1>1, <1>2 DEF DocInv, DocType
<1> HIDE DEF book
<1>7. /\ BookGrows(t, leaves)
      /\ \A c \in Books : t \in books'[c].loading => t \in books[c].loading \/ t \in now.loading
  BY <1>4, <1>5, BookOpens DEF book
<1>8. \A c \in Books : t \in books'[c].loading => t \in books[c].loading \/ tabs[t] = None
  <2>1. books'[b] = now /\ \A c \in Books \ {b} : books'[c] = books[c]
    BY <1>1, <1>4 DEF DocInv, DocType
  <2> QED BY <1>1, <1>4, <1>6, <2>1
<1>9. SelectionFits' /\ pages' \in SUBSET (pages \cup Books \cup {NewPage})
  BY <1>1, <1>3 DEF SelectionFits
<1> QED BY <1>3, <1>5, <1>7, <1>8, <1>9 DEF Opens, Grows, TabGrows

\* An activation opens the sheet of a leaf, or selects a page.
LEMMA ActivationOpens ==
    ASSUME DocInv, NEW t \in Targets, NEW leaves \in SUBSET Targets, NEW page, PageFits(page),
           NEW queue, Activate(t, leaves, page, queue)
    PROVE  Selects \/ Opens(t, leaves)
<1>1. CASE ~InWorkbook(t, leaves)
  BY <1>1 DEF Activate, ActivateItem, Selects, SelectionFits, PageFits
<1>2. CASE InWorkbook(t, leaves) /\ preview = "message"
  BY <1>2 DEF Activate, DeferActivation, Selects, SelectionFits, PageFits
<1>3. CASE InWorkbook(t, leaves) /\ preview # "message"
  BY <1>3, SheetOpens DEF Activate
<1> QED BY <1>1, <1>2, <1>3

\* So does the activation of a leaf that is selected first.
LEMMA SecondActivationOpens ==
    ASSUME DocInv, NEW t \in Targets, NEW leaves \in SUBSET Targets, NEW queue,
           ActivateTwice(t, leaves, queue)
    PROVE  Selects \/ Opens(t, leaves)
<1>1. PageFits(selected)
  BY DEF DocInv, SelectionFits, PageFits
<1> QED BY <1>1, SheetOpens, ActivationOpens DEF ActivateTwice

\* The report of a failed retrieval takes the loading view down.
LEMMA FailureOpens ==
    ASSUME DocInv, NEW t \in Targets, GetFailed(t), Visible \in SUBSET Targets
    PROVE  Selects \/ Opens(t, Visible)
<1>1. CASE ~InWorkbook(t, Visible)
  BY <1>1 DEF GetFailed, Selects, SelectionFits, DocInv
<1>2. CASE InWorkbook(t, Visible)
  <2> DEFINE b == BookOf[t]
             book == BookFor(t, Visible)
             now == [book EXCEPT !.loading = @ \ {t}]
  <2>1. /\ pages' = pages \cup {b} /\ selected' = IF pages = {} THEN b ELSE selected
        /\ books' = [books EXCEPT ![b] = now] /\ tabs' = tabs
    BY <1>2 DEF GetFailed
  <2>2. b \in Books
    BY <1>2, WorkbookHasKey
  <2>3. book \in [sheets : SUBSET Targets, shown : Targets \cup {None}, loading : SUBSET Targets]
    BY <1>2, BookForFits DEF DocInv
  <2>4. Turned(t, book, now) /\ t \notin now.loading
    BY <2>3 DEF Turned
  <2>5. pages' \cap Books = (pages \cap Books) \cup {b} /\ pages' \ Books = pages \ Books
    BY <2>1, <2>2
  <2> HIDE DEF now
  <2>6. /\ BookGrows(t, Visible)
        /\ \A c \in Books : t \in books'[c].loading => t \in books[c].loading
    BY <1>2, <2>1, <2>4, <2>5, BookOpens
  <2>7. SelectionFits' /\ pages' \in SUBSET (pages \cup Books \cup {NewPage})
    BY <2>1, <2>2 DEF SelectionFits, DocInv
  <2> QED BY <2>1, <2>5, <2>6, <2>7 DEF Opens, Grows, TabGrows
<1> QED BY <1>1, <1>2

\* The target page that is selected is there: nothing but the sheet its workbook shows changes.
LEMMA SelectionOpens ==
    ASSUME DocInv, NEW t \in Targets, Visible \in SUBSET Targets, NEW page \in pages,
           SelectIfActive(t, books, pages, page)
    PROVE  /\ pages' \in SUBSET (pages \cup Books) /\ pages' \ Books = pages \ Books
           /\ BookGrows(t, Visible) /\ SelectionFits'
           /\ \A b \in Books : t \in books'[b].loading => t \in books[b].loading
<1>1. CASE t = active /\ InWorkbook(t, Visible)
  <2> DEFINE b == BookOf[t]
             book == BookFor(t, Visible)
             turned == [book EXCEPT !.shown = t]
  <2>1. b \in Books
    BY <1>1, WorkbookHasKey
  <2>2. /\ book \in [sheets : SUBSET Targets, shown : Targets \cup {None}, loading : SUBSET Targets]
        /\ book.loading \subseteq book.sheets
        /\ b \in pages => book = books[b]
        /\ b \notin pages => book.loading = {} /\ t \in book.sheets
    BY <1>1, BookForFits DEF DocInv
  <2>3. /\ pages' = pages \cup {b} /\ selected' = b
        /\ \/ t \in book.sheets /\ books' = [books EXCEPT ![b] = turned]
           \/ t \notin book.sheets /\ books' = books
    BY <1>1 DEF SelectIfActive, SelectTargetPage, BookFor
  <2> HIDE DEF book
  <2>4. t \in book.sheets => Turned(t, book, turned) /\ turned.loading = book.loading
    BY <2>2 DEF Turned
  <2>5. pages' \in SUBSET (pages \cup Books) /\ pages' \ Books = pages \ Books
        /\ pages' \cap Books = (pages \cap Books) \cup {b} /\ SelectionFits'
    BY <2>1, <2>3 DEF SelectionFits
  <2> HIDE DEF turned
  <2>6. CASE t \in book.sheets /\ books' = [books EXCEPT ![b] = turned]
    <3>1. /\ BookGrows(t, Visible)
          /\ \A c \in Books : t \in books'[c].loading => t \in books[c].loading \/ t \in turned.loading
      BY <1>1, <2>4, <2>5, <2>6, BookOpens DEF book
    <3>2. books'[b] = turned /\ \A c \in Books \ {b} : books'[c] = books[c]
      BY <2>1, <2>6 DEF DocInv, DocType
    <3>3. turned.loading \subseteq books[b].loading
      BY <2>1, <2>2, <2>4, <2>6
    <3> QED BY <2>1, <2>5, <3>1, <3>2, <3>3
  <2>7. CASE t \notin book.sheets /\ books' = books
    <3>1. pages' \cap Books = pages \cap Books
      BY <2>2, <2>5, <2>7
    <3> QED BY <2>5, <2>7, <3>1 DEF BookGrows
  <2> QED BY <2>3, <2>6, <2>7
<1>2. CASE ~(t = active /\ InWorkbook(t, Visible))
  <2>1. pages' = pages /\ books' = books /\ selected' \in {page, selected}
    BY <1>2 DEF SelectIfActive, SelectTargetPage
  <2>2. SelectionFits'
    BY <2>1 DEF DocInv, SelectionFits
  <2> QED BY <2>1, <2>2 DEF BookGrows
<1> QED BY <1>1, <1>2

\* What was retrieved is shown in the sheet of its workbook or on a page of its own.
LEMMA CompletionOpens ==
    ASSUME DocInv, NEW t \in Targets, Visible \in SUBSET Targets, CompleteGet(t)
    PROVE  Selects \/ Opens(t, Visible)
<1> DEFINE b == BookOf[t]
           book == BookFor(t, Visible)
           inSheet == InWorkbook(t, Visible) /\ t \notin Untabled
           view == [book EXCEPT !.loading = @ \ {t}]
           filled == [books EXCEPT ![b] = view]
<1>1. CASE tabs[t] # None /\ tabs' = tabs
           /\ SelectIfActive(t, books, pages, IF tabs[t] \in pages THEN tabs[t] ELSE selected)
  <2>1. tabs[t] \in pages
    BY <1>1 DEF DocInv, TabsFit
  <2>2. /\ pages' \in SUBSET (pages \cup Books) /\ pages' \ Books = pages \ Books
        /\ BookGrows(t, Visible) /\ SelectionFits'
        /\ \A c \in Books : t \in books'[c].loading => t \in books[c].loading
    BY <1>1, <2>1, SelectionOpens
  <2> QED BY <1>1, <2>2 DEF Opens, Grows, TabGrows
<1>2. CASE UNCHANGED docVars
  BY <1>2 DEF docVars, Selects, DocInv, SelectionFits
<1>3. CASE /\ tabs[t] = None /\ inSheet /\ t \in book.sheets
           /\ tabs' = [tabs EXCEPT ![t] = b]
           /\ SelectIfActive(t, filled, pages \cup {b}, b)
  <2>1. b \in Books
    BY <1>3, WorkbookHasKey
  <2>2. book \in [sheets : SUBSET Targets, shown : Targets \cup {None}, loading : SUBSET Targets]
    BY <1>3, BookForFits DEF DocInv
  <2> DEFINE turned == [view EXCEPT !.shown = t]
  <2> HIDE DEF book
  <2>3. /\ Turned(t, book, view) /\ t \notin view.loading
        /\ Turned(t, book, turned) /\ t \notin turned.loading
        /\ view.sheets = book.sheets
    BY <1>3, <2>2 DEF Turned
  <2>4. filled[b] = view
    BY <2>1 DEF DocInv, DocType
  <2>5. /\ pages' = pages \cup {b} /\ selected' \in IF pages = {} THEN {b} ELSE {b, selected}
        /\ books' = filled \/ books' = [filled EXCEPT ![b] = turned]
    <3> HIDE DEF view, filled
    <3>1. CASE t = active
      BY <1>3, <2>3, <2>4, <3>1 DEF SelectIfActive, SelectTargetPage, turned
    <3>2. CASE t # active
      <4>1. pages' = pages \cup {b} /\ books' = filled /\ selected' = IF pages = {} THEN b ELSE selected
        BY <1>3, <3>2 DEF SelectIfActive
      <4> QED BY <4>1
    <3> QED BY <3>1, <3>2
  <2>6. PICK now : Turned(t, book, now) /\ t \notin now.loading /\ books' = [books EXCEPT ![b] = now]
    <3> HIDE DEF view, turned
    <3>1. [filled EXCEPT ![b] = turned] = [books EXCEPT ![b] = turned]
      BY <2>1 DEF DocInv, DocType
    <3> QED BY <2>3, <2>5, <3>1
  <2>7. /\ pages' \cap Books = (pages \cap Books) \cup {b} /\ pages' \ Books = pages \ Books
        /\ pages' \in SUBSET (pages \cup Books \cup {NewPage}) /\ b \in pages'
    BY <2>1, <2>5
  <2>8. BookGrows(t, Visible) /\ books'[b] = now
    BY <1>3, <2>6, <2>7, BookOpens DEF book
  <2>9. SelectionFits'
    BY <2>5 DEF DocInv, SelectionFits
  <2>10. tabs'[t] = b
    BY <1>3 DEF DocInv, DocType
  <2>11. t \in books'[b].sheets
    BY <1>3, <2>6, <2>8 DEF Turned
  <2>12. TabGrows(t, Visible)
    BY <1>3, <2>7, <2>11 DEF TabGrows
  <2> QED BY <1>3, <2>1, <2>6, <2>7, <2>8, <2>9, <2>10, <2>12 DEF Opens, Grows
<1>4. CASE /\ tabs[t] = None /\ ~inSheet
           /\ tabs' = [tabs EXCEPT ![t] = NewPage]
           /\ SelectIfActive(t, books, pages \cup {NewPage}, NewPage)
  <2>1. NewPage \in 1 .. MaxPages /\ NewPage \notin pages /\ NewPage \notin Books
    BY <1>4, NewPageIsFree DEF DocInv, Free
  <2>2. tabs'[t] = NewPage
    BY <1>4 DEF DocInv, DocType
  <2>3. /\ BookGrows(t, Visible) /\ SelectionFits'
        /\ pages' \in SUBSET (pages \cup Books \cup {NewPage})
        /\ pages' \ Books = (pages \ Books) \cup {NewPage}
    <3>1. CASE t = active /\ InWorkbook(t, Visible)
      <4> DEFINE turned == [book EXCEPT !.shown = t]
      <4>1. b \in Books
        BY <3>1, WorkbookHasKey
      <4>2. /\ book \in [sheets : SUBSET Targets, shown : Targets \cup {None}, loading : SUBSET Targets]
            /\ book.loading \subseteq book.sheets
            /\ b \notin pages => t \in book.sheets
        BY <3>1, BookForFits DEF DocInv
      <4>3. b \in pages \cup {NewPage} <=> b \in pages
        BY <2>1, <4>1
      <4>4. /\ pages' = (pages \cup {NewPage}) \cup {b} /\ selected' = b
            /\ \/ t \in book.sheets /\ books' = [books EXCEPT ![b] = turned]
               \/ t \notin book.sheets /\ books' = books
        BY <1>4, <3>1, <4>3 DEF SelectIfActive, SelectTargetPage, BookFor
      <4> HIDE DEF book
      <4>5. t \in book.sheets => Turned(t, book, turned)
        BY <4>2 DEF Turned
      <4>6. /\ pages' \cap Books = (pages \cap Books) \cup {b}
            /\ pages' \ Books = (pages \ Books) \cup {NewPage}
            /\ pages' \in SUBSET (pages \cup Books \cup {NewPage})
        BY <2>1, <4>1, <4>4
      <4> HIDE DEF turned
      <4>7. CASE t \in book.sheets /\ books' = [books EXCEPT ![b] = turned]
        <5>1. BookGrows(t, Visible)
          BY <3>1, <4>5, <4>6, <4>7 DEF BookGrows, book
        <5> QED BY <4>4, <4>6, <5>1 DEF SelectionFits
      <4>8. CASE t \notin book.sheets /\ books' = books
        <5>1. pages' \cap Books = pages \cap Books
          BY <4>2, <4>6, <4>8
        <5> QED BY <4>4, <4>6, <4>8, <5>1 DEF SelectionFits, BookGrows
      <4> QED BY <4>4, <4>7, <4>8
    <3>2. CASE ~(t = active /\ InWorkbook(t, Visible))
      <4>1. /\ pages' = pages \cup {NewPage} /\ books' = books
            /\ selected' = NewPage \/ selected' = IF pages = {} THEN NewPage ELSE selected
        <5>1. CASE t = active
          BY <1>4, <3>2, <5>1 DEF SelectIfActive, SelectTargetPage
        <5>2. CASE t # active
          BY <1>4, <5>2 DEF SelectIfActive
        <5> QED BY <5>1, <5>2
      <4>2. /\ pages' \cap Books = pages \cap Books
            /\ pages' \ Books = (pages \ Books) \cup {NewPage}
        BY <2>1, <4>1
      <4>3. SelectionFits'
        BY <4>1 DEF DocInv, SelectionFits
      <4> QED BY <4>1, <4>2, <4>3 DEF BookGrows
    <3> QED BY <3>1, <3>2
  <2>4. tabs' # tabs
    <3>1. NewPage # None
      BY <2>1
    <3> QED BY <1>4, <2>2, <3>1
  <2> HIDE DEF book
  <2> QED BY <1>4, <2>1, <2>2, <2>3, <2>4 DEF Opens, Grows, TabGrows
<1> QED BY <1>1, <1>2, <1>3, <1>4 DEF CompleteGet

\* What a step does to the documents.
DocStep ==
    \/ Selects
    \/ \E t \in Targets, leaves \in SUBSET Targets :
           leaves = Visible' /\ node'[PathOf[t]] = "open" /\ Opens(t, leaves)
    \/ \E next \in pages \cup {None} : CloseTab(next)

\* A leaf of an open project is activated.
LEMMA ActivationSteps ==
    ASSUME FlowInv, DocInv, NEW t, NEW ev, t \in VisibleIn(Opened, ev), NEW page, PageFits(page), NEW queue,
           Activate(t, Visible', page, queue), UNCHANGED node
    PROVE  DocStep
<1>1. t \in Targets /\ node'[PathOf[t]] = "open"
  BY DEF VisibleIn, Opened
<1>2. Visible' \in SUBSET Targets
  BY DEF Visible, VisibleIn
<1> DEFINE leaves == Visible'
<1> HIDE DEF leaves
<1>3. Activate(t, leaves, page, queue)
  BY DEF leaves
<1>4. Selects \/ Opens(t, leaves)
  BY <1>1, <1>2, <1>3, ActivationOpens DEF leaves
<1> QED BY <1>1, <1>2, <1>4 DEF DocStep, leaves

\* What the user does opens, selects or closes.
LEMMA UserSteps ==
    ASSUME FlowInv, DocInv, User
    PROVE  DocStep
<1> USE DEF docVars, workVars
<1>a. PageFits(selected) /\ \A page \in pages : PageFits(page)
  BY DEF DocInv, SelectionFits, PageFits
<1>b. ASSUME UNCHANGED <<pages, books, tabs>>, selected' = selected \/ selected' \in pages PROVE DocStep
  BY <1>b DEF DocStep, Selects, DocInv, SelectionFits
<1>c. UNCHANGED <<node, evidence>> => Visible' = Visible
  BY DEF Visible, Opened
<1>1. ASSUME NEW new \in SUBSET Paths, OpenPaths(new) PROVE DocStep
  BY <1>1, <1>b DEF OpenPaths
<1>2. ASSUME NEW t \in Targets, SelectLeaf(t) PROVE DocStep
  <2>1. Visible' = Visible /\ Activate(t, Visible, selected, posted) /\ UNCHANGED node /\ t \in VisibleIn(Opened, evidence)
    BY <1>2, <1>c DEF SelectLeaf, Visible
  <2> QED BY <1>a, <2>1, ActivationSteps
<1>3. ASSUME NEW t \in Targets, NEW button \in BOOLEAN, SwitchSheet(t, button) PROVE DocStep
  <2>1. CASE t \in Visible
    <3>1. Visible' = Visible /\ Activate(t, Visible, selected, posted) /\ UNCHANGED node /\ t \in VisibleIn(Opened, evidence)
      BY <1>3, <1>c, <2>1 DEF SwitchSheet, Visible
    <3> QED BY <1>a, <3>1, ActivationSteps
  <2>2. CASE t \notin Visible
    BY <1>3, <1>b, <2>2 DEF SwitchSheet
  <2> QED BY <2>1, <2>2
<1>4. ASSUME NEW page \in pages, SelectPage(page) PROVE DocStep
  <2>1. ASSUME NEW t, t \in Visible, Activate(t, Visible, page, posted) PROVE DocStep
    <3>1. Visible' = Visible /\ UNCHANGED node /\ t \in VisibleIn(Opened, evidence)
      BY <1>4, <1>c, <2>1 DEF SelectPage, Visible
    <3> QED BY <1>a, <2>1, <3>1, ActivationSteps
  <2>2. CASE UNCHANGED <<pages, books, tabs>> /\ selected' = page
    BY <1>b, <2>2
  <2> QED BY <1>4, <2>1, <2>2 DEF SelectPage
<1>5. ASSUME NEW next \in pages \cup {None}, CloseTab(next) PROVE DocStep
  BY <1>5 DEF DocStep
<1>6. ASSUME NEW ev \in BOOLEAN, RebuildTrees(ev) PROVE DocStep
  <2>1. CASE active \in VisibleIn(Opened, ev)
    <3>1. Visible' = VisibleIn(Opened, ev) /\ UNCHANGED node
      BY <1>6 DEF RebuildTrees, Visible, Opened
    <3>2. Activate(active, Visible', selected, posted)
      BY <1>6, <2>1, <3>1 DEF RebuildTrees
    <3> QED BY <1>a, <2>1, <3>1, <3>2, ActivationSteps
  <2>2. CASE active \notin VisibleIn(Opened, ev)
    BY <1>6, <1>b, <2>2 DEF RebuildTrees
  <2> QED BY <2>1, <2>2
<1>7. CASE CloseFrame
  BY <1>7, <1>b DEF CloseFrame
<1> QED BY <1>1, <1>2, <1>3, <1>4, <1>5, <1>6, <1>7 DEF User

\* What a handler does opens or selects.
LEMMA DispatchSteps ==
    ASSUME FlightInv, FlowInv, DocInv, Dispatch
    PROVE  DocStep
<1> USE DEF docVars, workVars
<1>a. posted \in Seq(Handlers) /\ posted # <<>>
  BY DEF FlightInv, FlightType, Dispatch, CatalogDone, GetDone, CompleteGetPosted, ActivatePosted, Handles
<1> DEFINE h == Head(posted)
<1>b. h \in Handlers /\ IF h.call = "catalog_done" THEN TRUE ELSE node[PathOf[h.target]] = "open"
  BY <1>a, TailKeepsQueued, TailFits DEF FlowInv
<1>c. /\ h.call = "catalog_done" => h.path \in Paths
      /\ h.call # "catalog_done" => h.target \in Targets
  BY <1>b DEF Handlers
<1>d. ASSUME UNCHANGED <<pages, selected, books, tabs>> PROVE DocStep
  BY <1>d DEF DocStep, Selects, DocInv, SelectionFits
<1>e. UNCHANGED <<node, evidence>> => Visible' = Visible
  BY DEF Visible, Opened
<1>f. Visible \in SUBSET Targets
  BY DEF Visible, VisibleIn
<1> HIDE DEF h
<1>1. CASE CatalogDone
  <2> DEFINE p == h.path
             opened == Opened \cup {p}
             own == {t \in VisibleIn(opened, evidence) : PathOf[t] = p}
  <2>1. p \in Paths
    BY <1>1, <1>c DEF CatalogDone, Handles, h
  <2>2. \/ UNCHANGED <<pages, selected, books, tabs>>
        \/ /\ node' = [node EXCEPT ![p] = "open"] /\ UNCHANGED evidence
           /\ own # {} /\ ActivateTwice(First(own), VisibleIn(opened, evidence), Tail(posted))
    <3>1. CASE closed
      BY <1>1, <3>1 DEF CatalogDone, Ignored
    <3>2. CASE ~closed
      BY <1>1, <3>2 DEF CatalogDone, h
    <3> QED BY <3>1, <3>2
  <2>3. CASE /\ node' = [node EXCEPT ![p] = "open"] /\ UNCHANGED evidence
             /\ own # {} /\ ActivateTwice(First(own), VisibleIn(opened, evidence), Tail(posted))
    <3> DEFINE leaves == VisibleIn(opened, evidence)
               t == First(own)
    <3>1. leaves \in SUBSET Targets
      BY DEF VisibleIn
    <3>2. t \in Targets /\ PathOf[t] = p
      BY <2>3, FirstIsOne DEF VisibleIn
    <3>3. \A q \in Paths : node'[q] = "open" <=> node[q] = "open" \/ q = p
      BY <2>1, <2>3 DEF FlowInv, FlowType
    <3>4. Opened' = opened
      BY <2>1, <3>3 DEF Opened
    <3>5. leaves = Visible' /\ node'[PathOf[t]] = "open"
      BY <2>1, <2>3, <3>2, <3>3, <3>4 DEF Visible
    <3> HIDE DEF leaves, t
    <3>6. ActivateTwice(t, leaves, Tail(posted))
      BY <2>3 DEF leaves, t
    <3>7. Selects \/ Opens(t, leaves)
      BY <3>1, <3>2, <3>6, SecondActivationOpens
    <3> QED BY <3>1, <3>2, <3>5, <3>7 DEF DocStep
  <2> QED BY <1>d, <2>2, <2>3
<1>2. CASE GetDone
  <2>1. h.target \in Targets /\ node[PathOf[h.target]] = "open"
    BY <1>2, <1>b, <1>c DEF GetDone, Handles, h
  <2>2. CASE closed
    BY <1>2, <1>d, <2>2 DEF GetDone, Ignored
  <2>3. CASE ~closed
    <3>1. /\ UNCHANGED <<node, evidence>>
          /\ \/ GetFailed(h.target) \/ CompleteGet(h.target)
             \/ UNCHANGED <<pages, selected, books, tabs>>
      BY <1>2, <2>3 DEF GetDone, h
    <3>2. Visible' = Visible
      BY <1>e, <3>1
    <3>3. Selects \/ Opens(h.target, Visible) \/ UNCHANGED <<pages, selected, books, tabs>>
      BY <1>f, <2>1, <3>1, FailureOpens, CompletionOpens
    <3> QED BY <1>d, <1>f, <2>1, <3>1, <3>2, <3>3 DEF DocStep
  <2> QED BY <2>2, <2>3
<1>3. CASE CompleteGetPosted
  <2>1. h.target \in Targets /\ node[PathOf[h.target]] = "open"
    BY <1>3, <1>b, <1>c DEF CompleteGetPosted, Handles, h
  <2>2. CASE closed
    BY <1>3, <1>d, <2>2 DEF CompleteGetPosted, Ignored
  <2>3. CASE ~closed
    <3>1. UNCHANGED <<node, evidence>> /\ CompleteGet(h.target)
      BY <1>3, <2>3 DEF CompleteGetPosted, h
    <3>2. Visible' = Visible
      BY <1>e, <3>1
    <3>3. Selects \/ Opens(h.target, Visible)
      BY <1>f, <2>1, <3>1, CompletionOpens
    <3> QED BY <1>f, <2>1, <3>1, <3>2, <3>3 DEF DocStep
  <2> QED BY <2>2, <2>3
<1>4. CASE ActivatePosted
  <2>1. h.target \in Targets /\ node[PathOf[h.target]] = "open"
    BY <1>4, <1>b, <1>c DEF ActivatePosted, Handles, h
  <2>2. PageFits(selected)
    BY DEF DocInv, SelectionFits, PageFits
  <2>3. UNCHANGED <<node, evidence>> /\ Activate(h.target, Visible, selected, Tail(posted))
    BY <1>4 DEF ActivatePosted, h
  <2>4. Visible' = Visible
    BY <1>e, <2>3
  <2>5. Selects \/ Opens(h.target, Visible)
    BY <1>f, <2>1, <2>2, <2>3, ActivationOpens
  <2> QED BY <1>f, <2>1, <2>3, <2>4, <2>5 DEF DocStep
<1> QED BY <1>1, <1>2, <1>3, <1>4 DEF Dispatch

\* The documents keep in order, whatever the step.
LEMMA StepsKeep ==
    ASSUME DocInv, DocStep
    PROVE  DocInv'
BY SelectKeeps, CloseKeeps, GrowsKeeps DEF DocStep, Selects, Opens
-----------------------------------------------------------------------------
(* Steady leaves.                                                          *)

\* The leaf is a sheet of a workbook once its project is open.
Shared(t) == BookOf[t] \in Books /\ Cardinality({s \in Targets : BookOf[s] = BookOf[t]}) >= 2

SteadyDoc ==
    Steady =>
        /\ \A b \in Books : \A t \in books[b].sheets : Shared(t)
        /\ \A t \in Targets : tabs[t] \notin Books \cup {None} => ~Shared(t)
        /\ \A n \in pages \ Books : \E t \in Targets : tabs[t] = n
        /\ \A b \in Books : \A t \in books[b].loading : tabs[t] = None

\* Steady leaves of an open project are in the tree, whatever else is.
LEMMA SteadyIsShared ==
    ASSUME Steady, NEW t \in Targets, NEW opened, PathOf[t] \in opened, NEW ev
    PROVE  InWorkbook(t, VisibleIn(opened, ev)) <=> Shared(t)
<1> DEFINE leaves == VisibleIn(opened, ev)
           family == {s \in Targets : BookOf[s] = BookOf[t]}
<1>1. t \in leaves
  BY DEF VisibleIn, Steady
<1>2. CASE BookOf[t] = None
  <2>1. Siblings(t, leaves) = {}
    BY <1>2 DEF Siblings
  <2>2. ~InWorkbook(t, leaves)
    BY <2>1, FS_EmptySet DEF InWorkbook
  <2> QED BY <1>2, <2>2 DEF Shared
<1>3. CASE BookOf[t] # None
  <2>1. \A s \in family : s \in leaves
    BY <1>3 DEF VisibleIn, Steady
  <2>2. leaves \subseteq Targets
    BY DEF VisibleIn
  <2> HIDE DEF leaves
  <2>3. Siblings(t, leaves) = family
    BY <1>1, <1>3, <2>1, <2>2 DEF Siblings
  <2>4. BookOf[t] \in Books
    BY <1>3
  <2> QED BY <2>3, <2>4 DEF InWorkbook, Shared, leaves
<1> QED BY <1>2, <1>3

\* The sheets and loading views there are after a leaf is opened.
LEMMA BookGrowth ==
    ASSUME DocInv, NEW t \in Targets, NEW leaves \in SUBSET Targets, BookGrows(t, leaves), NEW b \in Books
    PROVE  /\ \A s \in books'[b].sheets :
                  s \in books[b].sheets \/ (InWorkbook(t, leaves) /\ BookOf[s] = BookOf[t])
           /\ \A s \in books'[b].loading : s \in books[b].loading \/ s = t
<1>1. CASE books' = books
  BY <1>1
<1>2. CASE /\ InWorkbook(t, leaves)
           /\ \E now : Turned(t, BookFor(t, leaves), now) /\ books' = [books EXCEPT ![BookOf[t]] = now]
  <2> DEFINE was == BookFor(t, leaves)
  <2>1. PICK now : Turned(t, was, now) /\ books' = [books EXCEPT ![BookOf[t]] = now]
    BY <1>2
  <2>2. BookOf[t] \in Books
    BY <1>2, WorkbookHasKey
  <2>3. /\ \A s \in was.sheets : BookOf[s] = BookOf[t]
        /\ was.loading \subseteq books[BookOf[t]].loading
    BY <1>2, <2>2, BookForFits DEF DocInv
  <2> HIDE DEF was
  <2>4. books'[BookOf[t]] = now /\ \A c \in Books \ {BookOf[t]} : books'[c] = books[c]
    BY <2>1, <2>2 DEF DocInv, DocType
  <2>5. CASE b = BookOf[t]
    BY <1>2, <2>1, <2>3, <2>4, <2>5 DEF Turned
  <2>6. CASE b # BookOf[t]
    BY <2>4, <2>6
  <2> QED BY <2>5, <2>6
<1> QED BY <1>1, <1>2 DEF BookGrows

\* Opening a leaf keeps sheets and pages of their own apart.
LEMMA OpeningKeepsSteady ==
    ASSUME DocInv, SteadyDoc, NEW t \in Targets, NEW leaves \in SUBSET Targets, Opens(t, leaves),
           Steady => (InWorkbook(t, leaves) <=> Shared(t))
    PROVE  SteadyDoc'
<1> SUFFICES ASSUME Steady
             PROVE  /\ \A b \in Books : \A s \in books'[b].sheets : Shared(s)
                    /\ \A s \in Targets : tabs'[s] \notin Books \cup {None} => ~Shared(s)
                    /\ \A n \in pages' \ Books : \E s \in Targets : tabs'[s] = n
                    /\ \A b \in Books : \A s \in books'[b].loading : tabs'[s] = None
  BY DEF SteadyDoc, Steady, Shared
<1>a. Grows(t, leaves) /\ BookGrows(t, leaves) /\ TabGrows(t, leaves)
  BY DEF Opens, Grows
<1>b. DocInv'
  BY <1>a, GrowsKeeps
<1>c. NewPage \in Free \/ tabs[t] # None
  BY NewPageIsFree DEF DocInv
<1>1. \A b \in Books : \A s \in books'[b].sheets : Shared(s)
  <2>1. ASSUME NEW b \in Books, NEW s \in books'[b].sheets PROVE Shared(s)
    <3>1. s \in books[b].sheets \/ (InWorkbook(t, leaves) /\ BookOf[s] = BookOf[t])
      BY <1>a, BookGrowth
    <3>2. CASE s \in books[b].sheets
      BY <3>2 DEF SteadyDoc
    <3>3. CASE InWorkbook(t, leaves) /\ BookOf[s] = BookOf[t]
      BY <3>3 DEF Shared
    <3> QED BY <3>1, <3>2, <3>3
  <2> QED BY <2>1
<1>2. \A s \in Targets : s # t => tabs'[s] = tabs[s]
  BY <1>a DEF TabGrows, DocInv, DocType
<1>3. tabs' # tabs => tabs[t] = None /\ tabs'[t] # None
  <2>1. None \notin Books /\ None \notin 1 .. MaxPages
    OBVIOUS
  <2>2. InWorkbook(t, leaves) => BookOf[t] # None
    BY WorkbookHasKey
  <2> QED BY <1>a, <1>c, <2>1, <2>2 DEF TabGrows, DocInv, DocType, Free
<1>4. \A s \in Targets : tabs'[s] \notin Books \cup {None} => ~Shared(s)
  <2>1. tabs' # tabs /\ tabs'[t] \notin Books => ~Shared(t)
    BY DEF Opens, Steady
  <2> QED BY <1>2, <2>1 DEF SteadyDoc
<1>5. \A n \in pages' \ Books : \E s \in Targets : tabs'[s] = n
  <2>1. ASSUME NEW n \in pages \ Books PROVE \E s \in Targets : tabs'[s] = n
    <3>1. PICK s \in Targets : tabs[s] = n
      BY DEF SteadyDoc
    <3>2. n # None
      BY DEF DocInv, DocType, Pages
    <3>3. tabs'[s] = n
      BY <1>2, <1>3, <3>1, <3>2
    <3> QED BY <3>3
  <2>2. tabs' = [tabs EXCEPT ![t] = NewPage] => tabs'[t] = NewPage
    BY DEF DocInv, DocType
  <2>3. \/ pages' \ Books = pages \ Books
        \/ pages' \ Books = (pages \ Books) \cup {NewPage} /\ tabs' = [tabs EXCEPT ![t] = NewPage]
    BY <1>a DEF TabGrows
  <2> QED BY <2>1, <2>2, <2>3
<1>6. \A b \in Books : \A s \in books'[b].loading : tabs'[s] = None
  <2>1. ASSUME NEW b \in Books, NEW s \in books'[b].loading PROVE tabs'[s] = None
    <3>1. s \in books'[b].sheets /\ s \in Targets /\ BookOf[s] = b
      BY <1>b DEF DocInv, DocType, BooksFit
    <3>2. Shared(s)
      BY <1>1, <3>1
    <3>3. CASE s # t
      <4>1. s \in books[b].loading
        BY <1>a, <3>3, BookGrowth
      <4> QED BY <1>2, <3>1, <3>3, <4>1 DEF SteadyDoc
    <3>4. CASE s = t /\ tabs' = tabs
      <4>1. t \in books[b].loading \/ tabs[t] = None
        BY <3>4 DEF Opens
      <4> QED BY <3>4, <4>1 DEF SteadyDoc
    <3>5. CASE s = t /\ tabs' # tabs
      <4>1. tabs'[t] \notin Books => ~Shared(t)
        BY <3>5 DEF Opens, Steady
      <4>2. tabs'[t] \in Books => tabs'[t] = b
        BY <1>b, <3>1, <3>5 DEF DocInv, TabsFit, BooksFit
      <4> QED BY <3>2, <3>5, <4>1, <4>2 DEF Opens
    <3> QED BY <3>3, <3>4, <3>5
  <2> QED BY <2>1
<1> QED BY <1>1, <1>4, <1>5, <1>6

\* A workbook that is closed has no page of its own among its sheets, so none is left alone.
LEMMA ClosingKeepsSteady ==
    ASSUME DocInv, SteadyDoc, NEW next \in pages \cup {None}, CloseTab(next)
    PROVE  SteadyDoc'
<1> SUFFICES ASSUME Steady
             PROVE  /\ \A b \in Books : \A s \in books'[b].sheets : Shared(s)
                    /\ \A s \in Targets : tabs'[s] \notin Books \cup {None} => ~Shared(s)
                    /\ \A n \in pages' \ Books : \E s \in Targets : tabs'[s] = n
                    /\ \A b \in Books : \A s \in books'[b].loading : tabs'[s] = None
  BY DEF SteadyDoc, Steady, Shared
<1> DEFINE gone == TargetsOf(selected)
<1>1. /\ pages' = pages \ {selected} /\ selected # None
      /\ \A t \in Targets : tabs'[t] = IF t \in gone THEN None ELSE tabs[t]
      /\ \A b \in Books : books'[b] = IF b = selected THEN NoBook ELSE books[b]
  BY DEF CloseTab
<1>2. \A t \in gone : Shared(t) \/ tabs[t] = selected
  BY DEF TargetsOf, SteadyDoc
<1> HIDE DEF gone
<1>3. NoBook.sheets = {} /\ NoBook.loading = {}
  BY DEF NoBook
<1>4. ASSUME NEW n \in pages' \ Books PROVE \E t \in Targets : tabs'[t] = n
  <2>1. n \in pages \ Books /\ n # selected /\ n # None
    BY <1>1 DEF DocInv, DocType, Pages
  <2>2. PICK t \in Targets : tabs[t] = n
    BY <2>1 DEF SteadyDoc
  <2>3. ~Shared(t)
    BY <2>1, <2>2 DEF SteadyDoc
  <2> QED BY <1>1, <1>2, <2>1, <2>2, <2>3
<1>5. \A b \in Books : books'[b].sheets \subseteq books[b].sheets /\ books'[b].loading \subseteq books[b].loading
  BY <1>1, <1>3
<1>6. \A t \in Targets : tabs'[t] = None \/ tabs'[t] = tabs[t]
  BY <1>1
<1>7. \A b \in Books : books[b].loading \subseteq Targets
  BY DEF DocInv, DocType
<1>8. \A b \in Books : \A s \in books'[b].loading : tabs'[s] = None
  BY <1>5, <1>6, <1>7 DEF SteadyDoc
<1> QED BY <1>4, <1>5, <1>6, <1>8 DEF SteadyDoc

\* Steady leaves stay in order, whatever the step.
LEMMA StepsKeepSteady ==
    ASSUME DocInv, SteadyDoc, FlowType', DocStep
    PROVE  SteadyDoc'
<1>1. CASE Selects
  BY <1>1 DEF Selects, SteadyDoc, Steady, Shared
<1>2. ASSUME NEW t \in Targets, NEW leaves \in SUBSET Targets,
             leaves = Visible', node'[PathOf[t]] = "open", Opens(t, leaves)
      PROVE  SteadyDoc'
  <2>1. PathOf[t] \in Opened'
    BY <1>2 DEF Opened
  <2>2. leaves = VisibleIn(Opened', evidence')
    BY <1>2 DEF Visible
  <2>3. Steady => (InWorkbook(t, leaves) <=> Shared(t))
    BY <2>1, <2>2, SteadyIsShared
  <2> QED BY <1>2, <2>3, OpeningKeepsSteady
<1>3. ASSUME NEW next \in pages \cup {None}, CloseTab(next) PROVE SteadyDoc'
  BY <1>3, ClosingKeepsSteady
<1> QED BY <1>1, <1>2, <1>3 DEF DocStep
-----------------------------------------------------------------------------
(* Loading views.                                                          *)

Covered(t) == t \in pending \/ Queued(posted, "complete_get", t)

LoadingFits == Steady /\ ~closed => \A b \in Books : \A t \in books[b].loading : Covered(t)

\* An activation puts a loading view only where it retrieves.
LEMMA ActivationLoads ==
    ASSUME DocInv, NEW t \in Targets, NEW leaves \in SUBSET Targets, NEW page, NEW queue,
           \/ Activate(t, leaves, page, queue)
           \/ InWorkbook(t, leaves) /\ ActivateSheet(t, leaves, queue),
           NEW b \in Books, NEW s \in books'[b].loading
    PROVE  s \in books[b].loading \/ s \in pending'
<1>1. CASE UNCHANGED books
  BY <1>1
<1>2. CASE InWorkbook(t, leaves) /\ ActivateSheet(t, leaves, queue)
  <2> DEFINE book == BookFor(t, leaves)
             c == BookOf[t]
  <2>1. c \in Books
    BY <1>2, WorkbookHasKey
  <2>2. /\ book \in [sheets : SUBSET Targets, shown : Targets \cup {None}, loading : SUBSET Targets]
        /\ book.loading \subseteq books[c].loading
    BY <1>2, <2>1, BookForFits DEF DocInv
  <2> DEFINE turned == [book EXCEPT !.shown = t]
             filling == [book EXCEPT !.shown = t, !.loading = @ \cup {t}]
  <2>3. \/ books' = [books EXCEPT ![c] = book]
        \/ books' = [books EXCEPT ![c] = turned]
        \/ books' = [books EXCEPT ![c] = filling] /\ t \in pending'
    BY <1>2 DEF ActivateSheet, Retrieve
  <2> HIDE DEF book
  <2>6. turned.loading = book.loading /\ filling.loading = book.loading \cup {t}
    BY <2>2
  <2> HIDE DEF turned, filling
  <2>4. \A d \in Books \ {c} : books'[d] = books[d]
    BY <2>3 DEF DocInv, DocType
  <2>5. books'[c].loading = book.loading \/ (books'[c].loading = book.loading \cup {t} /\ t \in pending')
    BY <2>1, <2>3, <2>6 DEF DocInv, DocType
  <2> QED BY <2>2, <2>4, <2>5
<1> QED BY <1>1, <1>2 DEF Activate, ActivateItem, DeferActivation

\* What is queued for a retrieval that ended stays queued, unless it runs.
LEMMA AskingCovers ==
    ASSUME FlightInv, NEW t \in Targets, NEW queue \in Seq(Handlers), Asks(t, queue),
           \A s : Queued(posted, "complete_get", s) => Queued(queue, "complete_get", s)
    PROVE  /\ \A s : Covered(s) => Covered(s)'
           /\ pending \subseteq pending'
<1> DEFINE h == ActivateCall(t)
<1>1. h \in Handlers
  BY DEF ActivateCall, Handlers
<1>2. posted' = queue \/ posted' = Append(queue, h)
  BY DEF Asks
<1> HIDE DEF h
<1>3. \A s : Queued(queue, "complete_get", s) => Queued(Append(queue, h), "complete_get", s)
  BY <1>1, AppendKeepsQueued
<1>4. pending \subseteq pending'
  BY DEF Asks, Retrieve
<1>5. \A s : Queued(posted, "complete_get", s) => Queued(posted', "complete_get", s)
  BY ZenonT(30), <1>2, <1>3
<1> QED BY <1>4, <1>5 DEF Covered

\* A retrieval that ended is shown, or its sheet was missing when the workbook was built.
LEMMA CompletionShows ==
    ASSUME DocInv, NEW t \in Targets, Visible \in SUBSET Targets, CompleteGet(t)
    PROVE  \/ tabs'[t] # None
           \/ UNCHANGED books /\ InWorkbook(t, Visible) /\ t \notin BookFor(t, Visible).sheets
<1>1. None \notin Books /\ None \notin 1 .. MaxPages
  OBVIOUS
<1>2. tabs[t] = None => NewPage \in 1 .. MaxPages
  BY NewPageIsFree DEF DocInv, Free
<1>3. InWorkbook(t, Visible) => BookOf[t] \in Books
  BY WorkbookHasKey
<1>4. tabs \in [Targets -> Pages \cup {None}]
  BY DEF DocInv, DocType
<1> QED BY <1>1, <1>2, <1>3, <1>4 DEF CompleteGet, docVars

\* A sheet that still loads after the retrieval of t ended is another one.
LEMMA CompletionLoads ==
    ASSUME DocInv, SteadyDoc, DocInv', SteadyDoc', Steady, NEW t \in Targets, node[PathOf[t]] = "open",
           FlowType, CompleteGet(t), NEW b \in Books, NEW s \in books'[b].loading
    PROVE  s \in books[b].loading /\ s # t
<1>1. Visible \in SUBSET Targets
  BY DEF Visible, VisibleIn
<1>2. Selects \/ Opens(t, Visible)
  BY <1>1, CompletionOpens
<1>3. s \in books[b].loading \/ s = t
  BY <1>1, <1>2, BookGrowth DEF Selects, Opens, Grows
<1>4. s # t
  <2>1. CASE tabs'[t] # None
    BY <2>1 DEF SteadyDoc
  <2>2. CASE UNCHANGED books /\ InWorkbook(t, Visible) /\ t \notin BookFor(t, Visible).sheets
    <3>1. ASSUME s = t PROVE FALSE
      <4>1. t \in books[b].loading /\ t \in books[b].sheets /\ BookOf[t] = b
        BY <2>2, <3>1 DEF DocInv, BooksFit
      <4>2. b \in pages
        BY <4>1 DEF DocInv, BooksFit, NoBook
      <4>3. BookFor(t, Visible) = books[b]
        BY <4>1, <4>2 DEF BookFor
      <4> QED BY <2>2, <4>1, <4>3
    <3> QED BY <3>1
  <2> QED BY <1>1, <2>1, <2>2, CompletionShows
<1> QED BY <1>3, <1>4

\* So it is when the retrieval failed.
LEMMA FailureLoads ==
    ASSUME DocInv, SteadyDoc, Steady, NEW t \in Targets, node[PathOf[t]] = "open", FlowType,
           GetFailed(t), NEW b \in Books, NEW s \in books'[b].loading
    PROVE  s \in books[b].loading /\ s # t
<1>1. Visible \in SUBSET Targets
  BY DEF Visible, VisibleIn
<1>2. InWorkbook(t, Visible) <=> Shared(t)
  <2>1. PathOf[t] \in Opened
    BY DEF Opened
  <2> QED BY <2>1, SteadyIsShared DEF Visible
<1>3. t \in books[b].loading => Shared(t) /\ BookOf[t] = b
  BY DEF DocInv, BooksFit, SteadyDoc
<1>4. CASE ~InWorkbook(t, Visible)
  BY <1>2, <1>3, <1>4 DEF GetFailed
<1>5. CASE InWorkbook(t, Visible)
  <2> DEFINE c == BookOf[t]
             book == BookFor(t, Visible)
  <2>1. c \in Books
    BY <1>1, <1>5, WorkbookHasKey
  <2>2. /\ book \in [sheets : SUBSET Targets, shown : Targets \cup {None}, loading : SUBSET Targets]
        /\ book.loading \subseteq books[c].loading
    BY <1>1, <1>5, <2>1, BookForFits DEF DocInv
  <2>3. books' = [books EXCEPT ![c] = [book EXCEPT !.loading = @ \ {t}]]
    BY <1>5 DEF GetFailed
  <2> HIDE DEF book
  <2>4. books'[c].loading = book.loading \ {t} /\ \A d \in Books \ {c} : books'[d] = books[d]
    BY <2>1, <2>2, <2>3 DEF DocInv, DocType
  <2> QED BY <1>3, <2>2, <2>4
<1> QED BY <1>4, <1>5

TabsInv == FlightInv /\ FlowInv /\ DocInv /\ SteadyDoc

\* The user closes a loading view with its page, and else leaves its retrieval alone.
LEMMA UserLoads ==
    ASSUME TabsInv, LoadingFits, User
    PROVE  LoadingFits'
<1> USE DEF docVars, workVars
<1>a. posted \in Seq(Handlers)
  BY DEF TabsInv, FlightInv, FlightType
<1>b. ASSUME UNCHANGED <<books, pending, posted, closed>> PROVE LoadingFits'
  BY <1>b DEF LoadingFits, Covered, Steady
<1>c. ASSUME NEW t \in Targets, NEW leaves \in SUBSET Targets, NEW page,
             Activate(t, leaves, page, posted), UNCHANGED closed
      PROVE  LoadingFits'
  <2>1. Asks(t, posted)
    BY <1>c, ActivationAsks
  <2>2. \A s : Covered(s) => Covered(s)'
    BY <1>a, <2>1, AskingCovers DEF TabsInv
  <2>3. \A b \in Books : \A s \in books'[b].loading : s \in books[b].loading \/ s \in pending'
    BY <1>c, ActivationLoads DEF TabsInv
  <2>4. \A s \in pending' : Covered(s)'
    BY DEF Covered
  <2> QED BY <1>c, <2>2, <2>3, <2>4 DEF LoadingFits, Steady
<1>d. /\ Visible \in SUBSET Targets /\ \A ev : VisibleIn(Opened, ev) \in SUBSET Targets
      /\ \A t : t \in Visible => t \in Targets
  BY DEF Visible, VisibleIn
<1>1. ASSUME NEW new \in SUBSET Paths, OpenPaths(new) PROVE LoadingFits'
  BY <1>1, <1>b DEF OpenPaths
<1>2. ASSUME NEW t \in Targets, SelectLeaf(t) PROVE LoadingFits'
  BY <1>2, <1>c, <1>d DEF SelectLeaf
<1>3. ASSUME NEW t \in Targets, NEW button \in BOOLEAN, SwitchSheet(t, button) PROVE LoadingFits'
  BY <1>3, <1>b, <1>c, <1>d DEF SwitchSheet, NoRetrieval
<1>4. ASSUME NEW page \in pages, SelectPage(page) PROVE LoadingFits'
  <2>1. UNCHANGED closed /\ \/ \E t \in Visible : Activate(t, Visible, page, posted)
                            \/ UNCHANGED <<books, pending, posted>>
    BY <1>4 DEF SelectPage, NoRetrieval
  <2> QED BY <1>b, <1>c, <1>d, <2>1
<1>5. ASSUME NEW next \in pages \cup {None}, CloseTab(next) PROVE LoadingFits'
  <2>1. /\ \A b \in Books : books'[b] = IF b = selected THEN NoBook ELSE books[b]
        /\ pending' = pending \ TargetsOf(selected) /\ UNCHANGED <<posted, closed>>
        /\ selected # None
    BY <1>5 DEF CloseTab
  <2>2. ASSUME Steady, NEW b \in Books, NEW t \in books'[b].loading PROVE t \in books[b].loading /\ t \notin TargetsOf(selected)
    <3>1. b # selected /\ t \in books[b].loading
      BY <2>1, <2>2 DEF NoBook
    <3>2. tabs[t] = None /\ BookOf[t] = b
      BY <2>2, <3>1 DEF TabsInv, DocInv, BooksFit, SteadyDoc
    <3>3. t \notin TargetsOf(selected)
      BY <2>1, <3>1, <3>2 DEF TargetsOf, TabsInv, DocInv, BooksFit
    <3> QED BY <3>1, <3>3
  <2> QED BY <2>1, <2>2 DEF LoadingFits, Covered, Steady
<1>6. ASSUME NEW ev \in BOOLEAN, RebuildTrees(ev) PROVE LoadingFits'
  <2>1. UNCHANGED closed /\ \/ active \in VisibleIn(Opened, ev) /\ Activate(active, VisibleIn(Opened, ev), selected, posted)
                            \/ UNCHANGED <<books, pending, posted>>
    BY <1>6 DEF RebuildTrees, NoRetrieval
  <2>2. active \in VisibleIn(Opened, ev) => active \in Targets
    BY DEF VisibleIn
  <2> QED BY <1>b, <1>c, <1>d, <2>1, <2>2
<1>7. CASE CloseFrame
  BY <1>7 DEF CloseFrame, LoadingFits
<1> QED BY <1>1, <1>2, <1>3, <1>4, <1>5, <1>6, <1>7 DEF User

\* A future that is resolved takes nothing out of the queue.
LEMMA ResolveLoads ==
    ASSUME TabsInv, LoadingFits, Resolve
    PROVE  LoadingFits'
<1> USE DEF docVars
<1>1. UNCHANGED <<books, pending, closed>>
  BY DEF Resolve, CatalogResolves, GetResolves, FrameUnchanged
<1>2. posted' = posted \/ \E h \in Handlers : posted' = Append(posted, h)
  <2>1. \A p \in Paths, ok \in BOOLEAN : [call |-> "catalog_done", path |-> p, ok |-> ok] \in Handlers
    BY DEF Handlers
  <2>2. \A t \in Targets, ok \in BOOLEAN : [call |-> "get_done", target |-> t, ok |-> ok] \in Handlers
    BY DEF Handlers
  <2> QED BY <2>1, <2>2 DEF Resolve, CatalogResolves, GetResolves, CallAfter
<1>3. posted \in Seq(Handlers)
  BY DEF TabsInv, FlightInv, FlightType
<1>4. \A s : Queued(posted, "complete_get", s) => Queued(posted', "complete_get", s)
  <2>1. ASSUME NEW h \in Handlers, posted' = Append(posted, h)
        PROVE  \A s : Queued(posted, "complete_get", s) => Queued(posted', "complete_get", s)
    <3>1. \A s : Queued(posted, "complete_get", s) => Queued(Append(posted, h), "complete_get", s)
      BY <1>3, AppendKeepsQueued
    <3> QED BY <2>1, <3>1
  <2>2. CASE posted' = posted
    BY <2>2
  <2> QED BY <1>2, <2>1, <2>2
<1> QED BY <1>1, <1>4 DEF LoadingFits, Covered, Steady

\* The handler that ends a retrieval takes the loading view down, or leaves that to the next one.
LEMMA DispatchLoads ==
    ASSUME TabsInv, TabsInv', LoadingFits, Dispatch
    PROVE  LoadingFits'
<1> USE DEF docVars, workVars
<1>a. posted \in Seq(Handlers) /\ posted # <<>>
  BY DEF TabsInv, FlightInv, FlightType, Dispatch, CatalogDone, GetDone, CompleteGetPosted, ActivatePosted, Handles
<1> DEFINE h == Head(posted)
           rest == Tail(posted)
<1>b. /\ rest \in Seq(Handlers) /\ h \in Handlers
      /\ IF h.call = "catalog_done" THEN TRUE ELSE node[PathOf[h.target]] = "open"
  BY <1>a, TailKeepsQueued, TailFits DEF TabsInv, FlowInv
<1>c. /\ h.call = "catalog_done" => h.path \in Paths
      /\ h.call # "catalog_done" => h.target \in Targets
  BY <1>b DEF Handlers
<1>d. /\ h.call # "complete_get" =>
            \A s : Queued(posted, "complete_get", s) => Queued(rest, "complete_get", s)
      /\ \A s : Queued(posted, "complete_get", s) => Queued(rest, "complete_get", s) \/ s = h.target
  BY <1>a, TailKeepsQueued
<1>e. SUFFICES ASSUME ~closed' PROVE LoadingFits'
  BY DEF LoadingFits
<1>f. ~closed
  BY <1>e DEF Dispatch, CatalogDone, GetDone, CompleteGetPosted, ActivatePosted, Ignored
<1>g. FlowType /\ \A t : Covered(t)' <=> t \in pending' \/ Queued(posted', "complete_get", t)
  BY DEF Covered, TabsInv, FlowInv
<1> HIDE DEF h, rest
<1>h. ASSUME NEW t \in Targets, NEW leaves \in SUBSET Targets, NEW page, NEW queue \in Seq(Handlers),
             \/ Activate(t, leaves, page, queue)
             \/ InWorkbook(t, leaves) /\ ActivateSheet(t, leaves, queue),
             Asks(t, queue),
             \A s : Queued(posted, "complete_get", s) => Queued(queue, "complete_get", s)
      PROVE  LoadingFits'
  <2>1. \A s : Covered(s) => Covered(s)'
    BY <1>h, AskingCovers DEF TabsInv
  <2>2. \A b \in Books : \A s \in books'[b].loading : s \in books[b].loading \/ s \in pending'
    BY <1>h, ActivationLoads DEF TabsInv
  <2> QED BY <1>f, <1>g, <2>1, <2>2 DEF LoadingFits, Steady
<1>i. ASSUME UNCHANGED <<books, pending>>, posted' = rest, h.call # "complete_get" PROVE LoadingFits'
  BY <1>d, <1>f, <1>g, <1>i DEF LoadingFits, Covered, Steady
<1>1. CASE CatalogDone
  <2> DEFINE p == h.path
             opened == Opened \cup {p}
             leaves == VisibleIn(opened, evidence)
             own == {t \in leaves : PathOf[t] = p}
  <2>1. h.call # "complete_get"
    BY <1>1 DEF CatalogDone, Handles, h
  <2>2. \/ UNCHANGED <<books, pending>> /\ posted' = rest
        \/ own # {} /\ ActivateTwice(First(own), leaves, rest)
    BY <1>1, <1>f DEF CatalogDone, NoRetrieval, h, rest
  <2>3. CASE own # {} /\ ActivateTwice(First(own), leaves, rest)
    <3> DEFINE t == First(own)
               more == Append(rest, ActivateCall(t))
    <3>1. t \in Targets /\ leaves \in SUBSET Targets
      BY <2>3, FirstIsOne DEF VisibleIn
    <3> HIDE DEF leaves, t
    <3>2. CASE InWorkbook(t, leaves) /\ preview = "message"
      <4>1. ActivateSheet(t, leaves, more)
        BY <2>3, <3>2 DEF ActivateTwice, t
      <4>2. Asks(t, more)
        BY <4>1 DEF ActivateSheet, NoRetrieval, Asks
      <4>3. ActivateCall(t) \in Handlers
        BY <3>1 DEF ActivateCall, Handlers
      <4>4. more \in Seq(Handlers) /\ \A s : Queued(rest, "complete_get", s) => Queued(more, "complete_get", s)
        BY <1>b, <4>3, AppendKeepsQueued
      <4> HIDE DEF more
      <4> QED BY <1>d, <1>h, <2>1, <3>1, <3>2, <4>1, <4>2, <4>4
    <3>3. CASE ~(InWorkbook(t, leaves) /\ preview = "message")
      <4>1. Activate(t, leaves, selected, rest)
        BY <2>3, <3>3 DEF ActivateTwice, t
      <4>2. Asks(t, rest)
        BY <4>1, ActivationAsks
      <4> QED BY <1>b, <1>d, <1>h, <2>1, <3>1, <4>1, <4>2
    <3> QED BY <3>2, <3>3
  <2> QED BY <1>i, <2>1, <2>2, <2>3
<1>2. CASE GetDone
  <2> DEFINE t == h.target
             done == [call |-> "complete_get", target |-> t]
  <2>1. t \in Targets /\ node[PathOf[t]] = "open" /\ h.call # "complete_get" /\ pending' = pending \ {t}
    BY <1>2, <1>b, <1>c DEF GetDone, Handles, h
  <2>2. \/ GetFailed(t) /\ posted' = rest
        \/ UNCHANGED books /\ posted' = Append(rest, done)
        \/ CompleteGet(t) /\ posted' = rest
    BY <1>2, <1>f DEF GetDone, h, rest
  <2>3. CASE (GetFailed(t) \/ CompleteGet(t)) /\ posted' = rest
    <3>1. ASSUME Steady, NEW b \in Books, NEW s \in books'[b].loading
          PROVE  s \in books[b].loading /\ s # t
      BY <1>g, <2>1, <2>3, <3>1, CompletionLoads, FailureLoads DEF TabsInv
    <3> QED BY <1>d, <1>f, <1>g, <2>1, <2>3, <3>1 DEF LoadingFits, Covered, Steady
  <2>4. CASE UNCHANGED books /\ posted' = Append(rest, done)
    <3>1. done \in Handlers /\ done.call = "complete_get" /\ done.target = t
      BY <2>1 DEF Handlers
    <3> HIDE DEF done
    <3>2. /\ \A s : Queued(rest, "complete_get", s) => Queued(posted', "complete_get", s)
          /\ Queued(posted', "complete_get", t)
      BY <1>b, <2>4, <3>1, AppendKeepsQueued
    <3> QED BY <1>d, <1>f, <1>g, <2>1, <2>4, <3>2 DEF LoadingFits, Covered, Steady
  <2> QED BY <2>2, <2>3, <2>4
<1>3. CASE CompleteGetPosted
  <2> DEFINE t == h.target
  <2>1. t \in Targets /\ node[PathOf[t]] = "open" /\ CompleteGet(t) /\ posted' = rest /\ UNCHANGED pending
    BY <1>3, <1>b, <1>c, <1>f DEF CompleteGetPosted, Handles, h, rest
  <2>2. ASSUME Steady, NEW b \in Books, NEW s \in books'[b].loading
        PROVE  s \in books[b].loading /\ s # t
    BY <1>g, <2>1, <2>2, CompletionLoads DEF TabsInv
  <2> QED BY <1>d, <1>f, <1>g, <2>1, <2>2 DEF LoadingFits, Covered, Steady
<1>4. CASE ActivatePosted
  <2> DEFINE t == h.target
  <2>1. t \in Targets /\ h.call # "complete_get" /\ Activate(t, Visible, selected, rest)
    BY <1>4, <1>c DEF ActivatePosted, Handles, h, rest
  <2>2. Asks(t, rest) /\ Visible \in SUBSET Targets
    BY <2>1, ActivationAsks DEF Visible, VisibleIn
  <2> QED BY <1>b, <1>d, <1>h, <2>1, <2>2
<1> QED BY <1>1, <1>2, <1>3, <1>4 DEF Dispatch
-----------------------------------------------------------------------------
(* The tables agree.                                                       *)

RestType ==
    /\ active \in Targets \cup {None}
    /\ preview \in {"message", "documents"}
    /\ message \in {"welcome", "busy", "select", "failed"}
    /\ fault \in Faults

\* The page that is shown shows a leaf or none.
LEMMA ShownIsTarget ==
    ASSUME DocType, NEW page
    PROVE  \A loaded : TargetShownOn(page, loaded) \in Targets \cup {None}
<1>1. ASSUME NEW loaded, \E t \in Targets : loaded[t] = page
      PROVE  (CHOOSE t \in Targets : loaded[t] = page) \in Targets
  BY <1>1
<1>2. page \in Books => books[page].shown \in Targets \cup {None}
  BY DEF DocType
<1> QED BY <1>1, <1>2 DEF TargetShownOn

\* What an activation sets has its type.
LEMMA ActivationTypes ==
    ASSUME RestType, NEW t \in Targets, NEW leaves, NEW page, NEW queue,
           Activate(t, leaves, page, queue) \/ ActivateTwice(t, leaves, queue)
    PROVE  RestType'
<1> USE DEF RestType, Faults, NoRetrieval, Retrieve, ShowDocuments, ShowMessageIf, ShowMessage
<1>1. ASSUME NEW q, ActivateSheet(t, leaves, q), active' = t PROVE RestType'
  <2>1. fault' \in Faults
    BY <1>1 DEF ActivateSheet
  <2>2. preview' = "documents" /\ message' = message
    BY <1>1 DEF ActivateSheet
  <2> QED BY <1>1, <2>1, <2>2
<1>2. ASSUME NEW p, Activate(t, leaves, p, queue) PROVE RestType'
  <2>1. active' = t
    BY <1>2 DEF Activate
  <2>2. CASE ActivateItem(t, p, queue)
    BY <2>1, <2>2 DEF ActivateItem
  <2>3. CASE DeferActivation(t, p, queue)
    BY <2>1, <2>3 DEF DeferActivation
  <2> QED BY <1>1, <1>2, <2>1, <2>2, <2>3 DEF Activate
<1> QED BY <1>1, <1>2 DEF ActivateTwice

\* What any other handler sets has its type.
LEMMA StepsType ==
    ASSUME TabsInv, RestType, User \/ Resolve \/ Dispatch
    PROVE  RestType'
<1> USE DEF docVars, workVars
<1>a. \A t : (t \in Visible => t \in Targets) /\ \A o, ev : t \in VisibleIn(o, ev) => t \in Targets
  BY DEF Visible, VisibleIn
<1>b. ASSUME UNCHANGED <<active, preview, message>>, fault' \in Faults PROVE RestType'
  BY <1>b DEF RestType
<1>c. {"none", "sheet_missing", "leaf_missing"} \subseteq Faults /\ fault \in Faults
  BY DEF Faults, RestType
<1>d. \A page, loaded : TargetShownOn(page, loaded) \in Targets \cup {None}
  BY ShownIsTarget DEF TabsInv, DocInv
<1>e. ASSUME NEW condition, NEW text \in {"welcome", "busy", "select", "failed"}, ShowMessageIf(condition, text),
             active' \in Targets \cup {None}, fault' \in Faults
      PROVE  RestType'
  BY <1>e DEF RestType, ShowMessageIf, ShowMessage
<1>f. active \in Targets \cup {None}
  BY DEF RestType
<1>1. ASSUME NEW new \in SUBSET Paths, OpenPaths(new) PROVE RestType'
  BY <1>1, <1>c, <1>e, <1>f DEF OpenPaths
<1>2. ASSUME NEW t \in Targets, SelectLeaf(t) PROVE RestType'
  BY <1>2, ActivationTypes DEF SelectLeaf
<1>3. ASSUME NEW t \in Targets, NEW button \in BOOLEAN, SwitchSheet(t, button) PROVE RestType'
  <2>1. CASE t \in Visible
    BY <1>3, <2>1, ActivationTypes DEF SwitchSheet
  <2>2. CASE t \notin Visible
    BY <1>3, <1>c, <2>2 DEF SwitchSheet, NoRetrieval, RestType
  <2> QED BY <2>1, <2>2
<1>4. ASSUME NEW page \in pages, SelectPage(page) PROVE RestType'
  <2>1. \/ \E t \in Visible : Activate(t, Visible, page, posted)
        \/ UNCHANGED <<preview, message>> /\ fault' \in Faults
           /\ active' \in {active, TargetShownOn(page, tabs)}
    BY <1>4, <1>c DEF SelectPage, NoRetrieval
  <2> QED BY <1>a, <1>d, <1>f, <2>1, ActivationTypes DEF RestType
<1>5. ASSUME NEW next \in pages \cup {None}, CloseTab(next) PROVE RestType'
  <2>1. \E condition, loaded : /\ ShowMessageIf(condition, IF Opened # {} THEN "select" ELSE "welcome")
                               /\ active' = TargetShownOn(next, loaded)
    BY <1>5 DEF CloseTab
  <2>2. fault' = "none"
    BY <1>5 DEF CloseTab
  <2> QED BY <1>c, <1>d, <1>e, <2>1, <2>2
<1>6. ASSUME NEW ev \in BOOLEAN, RebuildTrees(ev) PROVE RestType'
  <2>1. CASE active \in VisibleIn(Opened, ev)
    BY <1>6, <1>a, <2>1, ActivationTypes DEF RebuildTrees
  <2>2. CASE active \notin VisibleIn(Opened, ev)
    BY <1>6, <1>b, <1>c, <2>2 DEF RebuildTrees, NoRetrieval
  <2> QED BY <2>1, <2>2
<1>7. CASE CloseFrame
  BY <1>7, <1>b, <1>c DEF CloseFrame
<1>8. CASE Resolve
  BY <1>8, <1>b, <1>c DEF Resolve, CatalogResolves, GetResolves, FrameUnchanged
<1>9. CASE CatalogDone
  <2> DEFINE p == Head(posted).path
             leaves == VisibleIn(Opened \cup {p}, evidence)
             own == {t \in leaves : PathOf[t] = p}
  <2>1. CASE closed
    BY <1>9, <1>b, <1>c, <2>1 DEF CatalogDone, Ignored
  <2>2. CASE ~closed
    <3>1. \/ \E condition : /\ ShowMessageIf(condition, "failed") \/ ShowMessageIf(condition, "select")
                            /\ active' = active /\ fault' = "none"
          \/ own # {} /\ ActivateTwice(First(own), leaves, Tail(posted))
      BY <1>9, <2>2 DEF CatalogDone, NoRetrieval
    <3>2. own # {} => First(own) \in Targets
      BY FirstIsOne DEF VisibleIn
    <3> HIDE DEF leaves, own
    <3> QED BY <1>c, <1>e, <1>f, <3>1, <3>2, ActivationTypes
  <2> QED BY <2>1, <2>2
<1>10. ASSUME NEW t, CompleteGet(t) PROVE fault' \in Faults
  BY <1>10, <1>c DEF CompleteGet, SelectIfActive, SelectTargetPage
<1>11. CASE GetDone
  <2>1. CASE closed
    BY <1>11, <1>b, <1>c, <2>1 DEF GetDone, Ignored
  <2>2. CASE ~closed
    <3> DEFINE t == Head(posted).target
    <3>1. active' = active /\ \/ GetFailed(t)
                              \/ ShowDocuments /\ fault' = "none"
                              \/ CompleteGet(t) /\ UNCHANGED <<preview, message>>
      BY <1>11, <2>2 DEF GetDone
    <3>2. GetFailed(t) => ShowMessageIf(pages = {}, "failed") /\ fault' \in Faults
      BY <1>c DEF GetFailed
    <3> QED BY <1>b, <1>c, <1>e, <1>f, <1>10, <3>1, <3>2 DEF ShowDocuments, RestType
  <2> QED BY <2>1, <2>2
<1>12. CASE CompleteGetPosted
  <2>1. CASE closed
    BY <1>12, <1>b, <1>c, <2>1 DEF CompleteGetPosted, Ignored
  <2>2. CASE ~closed
    BY <1>12, <1>b, <1>10, <2>2 DEF CompleteGetPosted
  <2> QED BY <2>1, <2>2
<1>13. CASE ActivatePosted
  <2>1. Head(posted).target \in Targets
    <3>1. posted \in Seq(Handlers) /\ posted # <<>>
      BY <1>13 DEF ActivatePosted, Handles, TabsInv, FlightInv, FlightType
    <3>2. Head(posted) \in Handlers
      BY <3>1, TailKeepsQueued
    <3> QED BY <1>13, <3>2 DEF ActivatePosted, Handles, Handlers
  <2> QED BY <1>13, <2>1, ActivationTypes DEF ActivatePosted
<1> QED BY <1>1, <1>2, <1>3, <1>4, <1>5, <1>6, <1>7, <1>8, <1>9, <1>11, <1>12, <1>13 DEF User, Dispatch

-----------------------------------------------------------------------------
IInv == TabsInv /\ LoadingFits /\ RestType

\* At first nothing is open.
LEMMA InitHolds == Init => IInv
<1> SUFFICES ASSUME Init PROVE IInv
  OBVIOUS
<1>1. FlightInv
  <2>1. <<>> \in Seq(Handlers) /\ [t \in Targets |-> 0] \in [Targets -> Nat]
    OBVIOUS
  <2> QED BY <2>1 DEF Init, FlightInv, FlightType, PendingIsInFlight
<1>2. FlowInv
  <2>1. Len(posted) = 0 /\ FlowType
    BY DEF Init, FlowType
  <2>2. Fits(posted, node, listing)
    BY <2>1 DEF Fits
  <2> QED BY <2>1, <2>2 DEF Init, FlowInv
<1>3. DocInv
  <2>1. NoBook \in [sheets : SUBSET Targets, shown : Targets \cup {None}, loading : SUBSET Targets]
    BY DEF NoBook
  <2>2. DocType
    BY <2>1 DEF Init, DocType
  <2>3. Unloaded = Targets /\ Free = 1 .. MaxPages
    BY DEF Init, Unloaded, Free
  <2>4. Room
    <3>1. Cardinality(1 .. MaxPages) = MaxPages
      BY FS_Interval
    <3> QED BY <2>3, <3>1 DEF Room
  <2> QED BY <2>2, <2>4 DEF Init, DocInv, TabsFit, BooksFit, SelectionFits, NoBook
<1>4. SteadyDoc /\ LoadingFits /\ RestType
  BY DEF Init, SteadyDoc, LoadingFits, RestType, NoBook, Faults
<1> QED BY <1>1, <1>2, <1>3, <1>4 DEF IInv, TabsInv

\* Each part of the invariant is kept by each step.
LEMMA NextKeeps == IInv /\ [Next]_vars => IInv'
<1> SUFFICES ASSUME IInv, [Next]_vars PROVE IInv'
  OBVIOUS
<1>1. CASE UNCHANGED vars \/ Exited
  <2>1. UNCHANGED vars
    BY <1>1 DEF Exited
  <2>2. FlightInv'
    BY <2>1, SettlingKeeps DEF vars, IInv, TabsInv, FlightInv, FlightType
  <2>3. FlowInv'
    BY <2>1 DEF vars, IInv, TabsInv, FlowInv, FlowType
  <2>4. DocInv' /\ SteadyDoc'
    <3>1. DocStep
      BY <2>1 DEF vars, docVars, DocStep, Selects, SelectionFits, IInv, TabsInv, DocInv
    <3> QED BY <2>3, <3>1, StepsKeep, StepsKeepSteady DEF IInv, TabsInv, FlowInv
  <2>5. LoadingFits' /\ RestType'
    BY <2>1 DEF vars, docVars, IInv, LoadingFits, Covered, Steady, RestType
  <2> QED BY <2>2, <2>3, <2>4, <2>5 DEF IInv, TabsInv
<1>2. CASE User \/ Resolve \/ Dispatch
  <2>1. FlightInv' /\ FlowInv'
    BY <1>2, UserKeeps, ResolveKeeps, DispatchKeeps, UserFits, ResolveFits, DispatchFits DEF IInv, TabsInv
  <2>2. DocStep
    <3>1. CASE Resolve
      BY <3>1 DEF Resolve, CatalogResolves, GetResolves, FrameUnchanged, docVars, DocStep, Selects,
                  SelectionFits, IInv, TabsInv, DocInv
    <3> QED BY <1>2, <3>1, UserSteps, DispatchSteps DEF IInv, TabsInv
  <2>3. DocInv' /\ SteadyDoc'
    BY <2>1, <2>2, StepsKeep, StepsKeepSteady DEF IInv, TabsInv, FlowInv
  <2>4. LoadingFits'
    BY <1>2, <2>1, <2>3, UserLoads, ResolveLoads, DispatchLoads DEF IInv, TabsInv
  <2>5. RestType'
    BY <1>2, StepsType DEF IInv
  <2> QED BY <2>1, <2>3, <2>4, <2>5 DEF IInv, TabsInv
<1> QED BY <1>1, <1>2 DEF Next

\* The invariant says what the property does.
LEMMA IInvAgrees == IInv => TabsHaveTheirPages
<1> SUFFICES ASSUME IInv PROVE TabsHaveTheirPages
  OBVIOUS
<1>1. TypeOK
  <2>1. RestType /\ DocType
    BY DEF IInv, TabsInv, DocInv
  <2>2. FlowType /\ FlightType
    BY DEF IInv, TabsInv, FlowInv, FlightInv
  <2> HIDE DEF IInv
  <2> QED BY <2>1, <2>2, Zenon DEF TypeOK, RestType, DocType, FlowType, FlightType
<1>2. \A b \in Books : b \in pages <=> books[b] # NoBook
  <2>1. NoBook.sheets = {}
    BY DEF NoBook
  <2> QED BY <2>1 DEF IInv, TabsInv, DocInv, BooksFit
<1>3. selected = None <=> pages = {}
  <2>1. None \notin pages
    BY DEF IInv, TabsInv, DocInv, DocType, Pages
  <2> QED BY <2>1 DEF IInv, TabsInv, DocInv, SelectionFits
<1>4. Steady => \A n \in pages \ Books : \E t \in Targets : tabs[t] = n
  BY DEF IInv, TabsInv, SteadyDoc
<1>5. Steady /\ ~closed => \A b \in Books : \A t \in books[b].loading : t \in pending \/ Waits("complete_get", t)
  BY DEF IInv, LoadingFits, Covered, Queued, Waits
<1>6. /\ \A t \in Targets : /\ tabs[t] # None => tabs[t] \in pages
                            /\ tabs[t] \in Books => t \in books[tabs[t]].sheets
      /\ \A t, u \in Targets : t # u /\ tabs[t] = tabs[u] => tabs[t] \in Books \cup {None}
  BY DEF IInv, TabsInv, DocInv, TabsFit
<1> QED BY <1>1, <1>2, <1>3, <1>4, <1>5, <1>6 DEF TabsHaveTheirPages

\* Whatever is opened, toggled and closed while retrievals are in flight, every tab is on a page of
\* the notebook, a workbook has the tabs of its own sheets, and is forgotten with its page; if leaves
\* are steady, no page is left without its item and every loading view is taken down in the end.
THEOREM TablesAgree == Spec => []TabsHaveTheirPages
BY InitHolds, NextKeeps, IInvAgrees, PTL DEF Spec
-----------------------------------------------------------------------------
(* Workbooks of steady leaves.                                             *)

\* A workbook has all the sheets of its key, whose project is open.
WholeDoc ==
    Steady =>
        /\ \A b \in Books : \A s \in books[b].sheets : node[PathOf[s]] = "open"
        /\ \A b \in Books \cap pages : \A s \in Targets : BookOf[s] = b => s \in books[b].sheets

\* A project that is open stays open.
LEMMA OpenStays ==
    ASSUME TabsInv, User \/ Resolve \/ Dispatch, NEW p \in Paths, node[p] = "open"
    PROVE  node'[p] = "open"
<1> USE DEF docVars, workVars
<1>a. posted \in Seq(Handlers) /\ FlowType
  BY DEF TabsInv, FlightInv, FlightType, FlowInv
<1>1. CASE User
  <2>1. UNCHANGED node \/ \E new \in SUBSET Paths : OpenPaths(new)
    BY <1>1 DEF User, SelectLeaf, SwitchSheet, SelectPage, CloseTab, RebuildTrees, CloseFrame
  <2>2. ASSUME NEW new \in SUBSET Paths, OpenPaths(new) PROVE node'[p] = "open"
    BY <2>2 DEF OpenPaths
  <2> QED BY <2>1, <2>2
<1>2. CASE Resolve
  BY <1>2 DEF Resolve, CatalogResolves, GetResolves, FrameUnchanged
<1>3. CASE Dispatch
  <2>1. UNCHANGED node \/ (CatalogDone /\ ~closed)
    BY <1>3 DEF Dispatch, CatalogDone, GetDone, CompleteGetPosted, ActivatePosted, Ignored
  <2>2. CASE CatalogDone /\ ~closed
    <3> DEFINE q == Head(posted).path
    <3>1. posted # <<>> /\ Head(posted).call = "catalog_done"
      BY <2>2 DEF CatalogDone, Handles
    <3>2. node[q] = "loading"
      BY <1>a, <3>1, TailFits DEF TabsInv, FlowInv
    <3>3. node' = [node EXCEPT ![q] = "failed"] \/ node' = [node EXCEPT ![q] = "open"]
      BY <2>2 DEF CatalogDone
    <3> QED BY <1>a, <3>2, <3>3 DEF FlowType
  <2> QED BY <2>1, <2>2
<1> QED BY <1>1, <1>2, <1>3

\* Steady leaves of an open project: all those of a key are in the tree together.
LEMMA FamilyIsVisible ==
    ASSUME Steady, NEW t \in Targets, NEW opened, PathOf[t] \in opened, NEW ev, NEW s \in Targets,
           BookOf[s] = BookOf[t], BookOf[t] # None
    PROVE  s \in VisibleIn(opened, ev) /\ t \in VisibleIn(opened, ev)
BY DEF VisibleIn, Steady

\* A workbook that is built has the sheets of its key, and one that is there keeps them.
LEMMA OpeningKeepsWhole ==
    ASSUME DocInv, WholeDoc, NEW t \in Targets, NEW leaves \in SUBSET Targets, Opens(t, leaves),
           Steady => \A s \in Targets : BookOf[s] = BookOf[t] /\ BookOf[t] # None => s \in leaves,
           node'[PathOf[t]] = "open", \A p \in Paths : node[p] = "open" => node'[p] = "open"
    PROVE  WholeDoc'
<1> SUFFICES ASSUME Steady
             PROVE  /\ \A b \in Books : \A s \in books'[b].sheets : node'[PathOf[s]] = "open"
                    /\ \A b \in Books \cap pages' : \A s \in Targets : BookOf[s] = b => s \in books'[b].sheets
  BY DEF WholeDoc, Steady
<1>a. BookGrows(t, leaves) /\ DocInv'
  BY GrowsKeeps DEF Opens, Grows
<1>1. ASSUME NEW b \in Books, NEW s \in books'[b].sheets PROVE node'[PathOf[s]] = "open"
  <2>1. s \in Targets
    BY <1>a, <1>1 DEF DocInv, DocType
  <2>2. s \in books[b].sheets \/ (InWorkbook(t, leaves) /\ BookOf[s] = BookOf[t])
    BY <1>a, <1>1, BookGrowth
  <2>3. CASE s \in books[b].sheets
    BY <1>1, <2>1, <2>3 DEF WholeDoc
  <2>4. CASE InWorkbook(t, leaves) /\ BookOf[s] = BookOf[t]
    <3>1. BookOf[t] # None
      BY <2>4, WorkbookHasKey
    <3>2. PathOf[s] = PathOf[t]
      BY <2>1, <2>4, <3>1
    <3> QED BY <3>2
  <2> QED BY <2>2, <2>3, <2>4
<1>2. ASSUME NEW b \in Books \cap pages', NEW s \in Targets, BookOf[s] = b PROVE s \in books'[b].sheets
  <2>1. CASE b \in pages
    <3>1. books'[b].sheets = books[b].sheets
      BY <1>a, <1>2, <2>1, BookGrowsKeeps DEF DocInv
    <3> QED BY <1>2, <2>1, <3>1 DEF WholeDoc
  <2>2. CASE b \notin pages
    <3>1. /\ InWorkbook(t, leaves) /\ b = BookOf[t]
          /\ \E now : Turned(t, BookFor(t, leaves), now) /\ books' = [books EXCEPT ![BookOf[t]] = now]
      BY <1>a, <1>2, <2>2 DEF BookGrows
    <3>2. books'[b].sheets = BookFor(t, leaves).sheets
      BY <1>2, <3>1 DEF Turned, DocInv, DocType
    <3>3. BookFor(t, leaves).sheets = Siblings(t, leaves)
      BY <2>2, <3>1 DEF BookFor
    <3>4. b # None /\ t \in leaves
      BY <1>2, <3>1, WorkbookHasKey
    <3> QED BY <1>2, <3>1, <3>2, <3>3, <3>4 DEF Siblings
  <2> QED BY <2>1, <2>2
<1> QED BY <1>1, <1>2

\* Workbooks stay whole, whatever the step.
LEMMA StepsKeepWhole ==
    ASSUME DocInv, WholeDoc, DocStep, \A p \in Paths : node[p] = "open" => node'[p] = "open"
    PROVE  WholeDoc'
<1>1. \A b \in Books : books[b].sheets \subseteq Targets
  BY DEF DocInv, DocType
<1>2. CASE Selects
  <2>1. UNCHANGED <<books, pages>>
    BY <1>2 DEF Selects
  <2>2. \A s \in Targets : PathOf[s] \in Paths
    OBVIOUS
  <2> QED BY <1>1, <2>1, <2>2 DEF WholeDoc, Steady
<1>3. ASSUME NEW t \in Targets, NEW leaves \in SUBSET Targets,
             leaves = Visible', node'[PathOf[t]] = "open", Opens(t, leaves)
      PROVE  WholeDoc'
  <2>1. PathOf[t] \in Opened' /\ leaves = VisibleIn(Opened', evidence')
    BY <1>3 DEF Opened, Visible
  <2>2. Steady => \A s \in Targets : BookOf[s] = BookOf[t] /\ BookOf[t] # None => s \in leaves
    BY <2>1, FamilyIsVisible
  <2> QED BY <1>3, <2>2, OpeningKeepsWhole
<1>4. ASSUME NEW next \in pages \cup {None}, CloseTab(next) PROVE WholeDoc'
  <2>1. /\ pages' = pages \ {selected} /\ UNCHANGED node
        /\ \A b \in Books : books'[b] = IF b = selected THEN NoBook ELSE books[b]
    BY <1>4 DEF CloseTab
  <2>2. NoBook.sheets = {}
    BY DEF NoBook
  <2> QED BY <2>1, <2>2 DEF WholeDoc, Steady
<1> QED BY <1>2, <1>3, <1>4 DEF DocStep
-----------------------------------------------------------------------------
(* The item on the selected page.                                          *)

\* The selected page shows t.
Front(t) ==
    /\ tabs[t] # None /\ selected # None
    /\ IF selected \in Books THEN books[selected].shown = t ELSE tabs[t] = selected

FrontIsTargetShown == \A t \in Targets : Front(t) <=> TargetShown = t

\* What is in front is what _current_state finds.
LEMMA FrontIsShown == DocInv => FrontIsTargetShown
<1> SUFFICES ASSUME DocInv, NEW t \in Targets
             PROVE  Front(t) <=> TargetShown = t
  BY DEF FrontIsTargetShown
<1>1. None \notin Books /\ t # None
  OBVIOUS
<1>2. CASE selected = None
  BY <1>1, <1>2 DEF Front, TargetShown, TargetShownOn
<1>3. CASE selected \in Books
  BY <1>1, <1>3 DEF Front, TargetShown, TargetShownOn
<1>4. CASE selected # None /\ selected \notin Books
  <2>1. \A s, u \in Targets : tabs[s] = selected /\ tabs[u] = selected => s = u
    BY <1>4 DEF DocInv, TabsFit
  <2>2. TargetShown = IF \E s \in Targets : tabs[s] = selected
                      THEN CHOOSE s \in Targets : tabs[s] = selected ELSE None
    BY <1>4 DEF TargetShown, TargetShownOn
  <2>3. CASE \E s \in Targets : tabs[s] = selected
    <3>1. PICK u \in Targets : tabs[u] = selected
      BY <2>3
    <3>2. TargetShown = u
      BY <2>1, <2>2, <3>1
    <3> QED BY <1>4, <2>1, <3>1, <3>2 DEF Front
  <2>4. CASE ~\E s \in Targets : tabs[s] = selected
    BY <1>1, <1>4, <2>2, <2>4 DEF Front
  <2> QED BY <2>3, <2>4
<1> QED BY <1>2, <1>3, <1>4

ShownFits ==
    Steady => \A t \in Targets : active = t /\ tabs[t] # None => Front(t) \/ Queued(posted, "activate_target", t)

\* Steady leaves: the workbook of t, if it has one, has a sheet for t.
LEMMA SheetIsThere ==
    ASSUME DocInv, WholeDoc, Steady, NEW t \in Targets, NEW leaves \in SUBSET Targets, InWorkbook(t, leaves)
    PROVE  BookOf[t] \in Books /\ t \in BookFor(t, leaves).sheets
BY WorkbookHasKey DEF BookFor, WholeDoc

\* The sheet of an activated leaf is in front.
LEMMA SheetFronts ==
    ASSUME DocInv, WholeDoc, Steady, NEW t \in Targets, NEW leaves \in SUBSET Targets,
           InWorkbook(t, leaves), NEW queue, ActivateSheet(t, leaves, queue)
    PROVE  tabs' = tabs /\ (tabs[t] # None => Front(t)')
<1> DEFINE b == BookOf[t]
           book == BookFor(t, leaves)
<1>1. b \in Books /\ t \in book.sheets
  BY SheetIsThere
<1>2. book \in [sheets : SUBSET Targets, shown : Targets \cup {None}, loading : SUBSET Targets]
  BY BookForFits DEF DocInv
<1> DEFINE turned == [book EXCEPT !.shown = t]
           filling == [book EXCEPT !.shown = t, !.loading = @ \cup {t}]
<1>3. /\ tabs' = tabs /\ selected' = b
      /\ books' = [books EXCEPT ![b] = turned] \/ books' = [books EXCEPT ![b] = filling]
  BY <1>1 DEF ActivateSheet
<1> HIDE DEF book
<1>4. turned.shown = t /\ filling.shown = t
  BY <1>2
<1> HIDE DEF turned, filling
<1>5. books'[b].shown = t
  BY <1>1, <1>3, <1>4 DEF DocInv, DocType
<1> QED BY <1>1, <1>3, <1>5 DEF Front

\* An activated leaf is in front if it is loaded, or activated again.
LEMMA ActivationFronts ==
    ASSUME DocInv, SteadyDoc, WholeDoc, Steady, NEW t \in Targets, NEW leaves \in SUBSET Targets,
           InWorkbook(t, leaves) <=> Shared(t), NEW page, NEW queue \in Seq(Handlers),
           Activate(t, leaves, page, queue)
    PROVE  /\ active' = t /\ tabs' = tabs
           /\ tabs[t] # None => Front(t)' \/ Queued(posted', "activate_target", t)
<1>1. active' = t
  BY DEF Activate
<1>2. CASE ~InWorkbook(t, leaves)
  <2>1. tabs' = tabs /\ selected' = IF tabs[t] \in pages THEN tabs[t] ELSE page
    BY <1>2 DEF Activate, ActivateItem
  <2>2. ASSUME tabs[t] # None PROVE tabs[t] \in pages /\ tabs[t] \notin Books
    BY <1>2, <2>2 DEF DocInv, TabsFit, SteadyDoc
  <2> QED BY <1>1, <2>1, <2>2 DEF Front
<1>3. CASE InWorkbook(t, leaves) /\ preview = "message"
  <2> DEFINE h == ActivateCall(t)
  <2>1. tabs' = tabs /\ posted' = Append(queue, h)
    BY <1>3 DEF Activate, DeferActivation
  <2>2. h \in Handlers /\ h.call = "activate_target" /\ h.target = t
    BY DEF ActivateCall, Handlers
  <2> HIDE DEF h
  <2>3. Queued(posted', "activate_target", t)
    BY <2>1, <2>2, AppendKeepsQueued
  <2> QED BY <1>1, <2>1, <2>3
<1>4. CASE InWorkbook(t, leaves) /\ preview # "message"
  BY <1>1, <1>4, SheetFronts DEF Activate
<1> QED BY <1>2, <1>3, <1>4

\* So does a leaf that is selected and activated.
LEMMA SecondActivationFronts ==
    ASSUME DocInv, SteadyDoc, WholeDoc, Steady, NEW t \in Targets, NEW leaves \in SUBSET Targets,
           InWorkbook(t, leaves) <=> Shared(t), NEW queue \in Seq(Handlers), ActivateTwice(t, leaves, queue)
    PROVE  /\ active' = t /\ tabs' = tabs
           /\ tabs[t] # None => Front(t)' \/ Queued(posted', "activate_target", t)
BY SheetFronts, ActivationFronts DEF ActivateTwice

\* Nothing that is selected by others hides an item that stays active.
LEMMA StaysInFront ==
    ASSUME NEW u \in Targets, Front(u), UNCHANGED selected, tabs'[u] = tabs[u],
           selected \in Books => books'[selected].shown = books[selected].shown
    PROVE  Front(u)'
BY DEF Front

\* The item that was retrieved comes to the front if it is active, and leaves another one there.
LEMMA CompletionFronts ==
    ASSUME DocInv, SteadyDoc, WholeDoc, Steady, NEW t \in Targets, InWorkbook(t, Visible) <=> Shared(t),
           CompleteGet(t), NEW u \in Targets, active = u, tabs'[u] # None, tabs[u] # None => Front(u)
    PROVE  Front(u)'
<1> DEFINE b == BookOf[t]
           book == BookFor(t, Visible)
           view == [book EXCEPT !.loading = @ \ {t}]
           filled == [books EXCEPT ![b] = view]
<1>a. Visible \in SUBSET Targets
  BY DEF Visible, VisibleIn
<1>b. tabs[u] # None => pages # {}
  BY DEF DocInv, TabsFit
<1>c. InWorkbook(t, Visible) =>
          /\ b \in Books /\ t \in book.sheets
          /\ book \in [sheets : SUBSET Targets, shown : Targets \cup {None}, loading : SUBSET Targets]
          /\ b \in pages => book = books[b]
  BY <1>a, SheetIsThere, BookForFits DEF DocInv
<1>d. selected # None => selected \in pages
  BY DEF DocInv, SelectionFits
<1>1. CASE tabs[t] # None /\ tabs' = tabs
           /\ SelectIfActive(t, books, pages, IF tabs[t] \in pages THEN tabs[t] ELSE selected)
  <2>1. CASE u # t
    <3>1. books' = books /\ selected' = selected
      BY <1>b, <1>1, <2>1 DEF SelectIfActive
    <3> QED BY <1>1, <3>1, StaysInFront
  <2>2. CASE u = t /\ InWorkbook(t, Visible)
    <3> DEFINE turned == [book EXCEPT !.shown = t]
    <3>1. selected' = b /\ books' = [books EXCEPT ![b] = turned]
      BY <1>1, <1>c, <2>2 DEF SelectIfActive, SelectTargetPage, BookFor
    <3> HIDE DEF book
    <3>2. turned.shown = t
      BY <1>c, <2>2
    <3> HIDE DEF turned
    <3>3. books'[b].shown = t
      BY <1>c, <2>2, <3>1, <3>2 DEF DocInv, DocType
    <3> QED BY <1>1, <1>c, <2>2, <3>1, <3>3 DEF Front
  <2>3. CASE u = t /\ ~InWorkbook(t, Visible)
    <3>1. tabs[t] \in pages /\ tabs[t] \notin Books
      BY <1>1, <2>3 DEF DocInv, TabsFit, SteadyDoc
    <3>2. selected' = tabs[t]
      BY <1>1, <2>3, <3>1 DEF SelectIfActive, SelectTargetPage
    <3> QED BY <1>1, <2>3, <3>1, <3>2 DEF Front
  <2> QED BY <2>1, <2>2, <2>3
<1>2. CASE UNCHANGED docVars
  BY <1>2, StaysInFront DEF docVars
<1>3. CASE /\ tabs[t] = None /\ InWorkbook(t, Visible)
           /\ tabs' = [tabs EXCEPT ![t] = b]
           /\ SelectIfActive(t, filled, pages \cup {b}, b)
  <2> HIDE DEF book
  <2>1. view.sheets = book.sheets /\ view.shown = book.shown /\ view \in [sheets : SUBSET Targets, shown : Targets \cup {None}, loading : SUBSET Targets]
    BY <1>3, <1>c
  <2> HIDE DEF view
  <2>2. filled[b] = view /\ \A c \in Books \ {b} : filled[c] = books[c]
    BY <1>3, <1>c DEF DocInv, DocType
  <2>3. CASE u # t
    <3>1. books' = filled /\ selected' = selected /\ tabs'[u] = tabs[u] /\ Front(u)
      BY <1>3, <1>b, <2>3 DEF SelectIfActive, DocInv, DocType
    <3>2. selected \in Books => books'[selected].shown = books[selected].shown
      BY <1>3, <1>c, <1>d, <2>1, <2>2, <3>1
    <3> QED BY <3>1, <3>2, StaysInFront
  <2>4. CASE u = t
    <3> DEFINE turned == [view EXCEPT !.shown = t]
    <3>1. selected' = b /\ books' = [filled EXCEPT ![b] = turned]
      <4> HIDE DEF filled
      <4> QED BY <1>3, <1>c, <2>1, <2>2, <2>4 DEF SelectIfActive, SelectTargetPage
    <3>2. turned.shown = t
      BY <2>1
    <3> HIDE DEF turned
    <3>3. books'[b].shown = t
      BY <1>3, <1>c, <3>1, <3>2 DEF DocInv, DocType
    <3> QED BY <1>3, <1>c, <2>4, <3>1, <3>3 DEF Front
  <2> QED BY <2>3, <2>4
<1>4. CASE /\ tabs[t] = None /\ ~InWorkbook(t, Visible)
           /\ tabs' = [tabs EXCEPT ![t] = NewPage]
           /\ SelectIfActive(t, books, pages \cup {NewPage}, NewPage)
  <2>1. NewPage \in 1 .. MaxPages /\ NewPage \notin Books /\ NewPage # None
    BY <1>4, NewPageIsFree DEF DocInv, Free
  <2>2. CASE u # t
    <3>1. books' = books /\ selected' = selected /\ tabs'[u] = tabs[u] /\ Front(u)
      BY <1>4, <1>b, <2>2 DEF SelectIfActive, DocInv, DocType
    <3> QED BY <3>1, StaysInFront
  <2>3. CASE u = t
    <3>1. selected' = NewPage /\ tabs'[t] = NewPage
      BY <1>4, <2>3 DEF SelectIfActive, SelectTargetPage, DocInv, DocType
    <3> QED BY <2>1, <2>3, <3>1 DEF Front
  <2> QED BY <2>2, <2>3
<1> QED
  <2>1. Untabled = {}
    BY DEF Steady
  <2> QED BY <1>1, <1>2, <1>3, <1>4, <2>1 DEF CompleteGet

\* The report of a failure does not move what is in front.
LEMMA FailureFronts ==
    ASSUME DocInv, NEW t \in Targets, GetFailed(t), NEW u \in Targets, Front(u)
    PROVE  Front(u)'
<1> DEFINE b == BookOf[t]
           book == BookFor(t, Visible)
           view == [book EXCEPT !.loading = @ \ {t}]
<1>a. Visible \in SUBSET Targets
  BY DEF Visible, VisibleIn
<1>1. tabs[u] # None /\ selected \in pages /\ tabs' = tabs
  BY DEF Front, DocInv, SelectionFits, GetFailed
<1>2. CASE ~InWorkbook(t, Visible)
  BY <1>1, <1>2, StaysInFront DEF GetFailed
<1>3. CASE InWorkbook(t, Visible)
  <2>1. b \in Books /\ book \in [sheets : SUBSET Targets, shown : Targets \cup {None}, loading : SUBSET Targets]
        /\ (b \in pages => book = books[b])
    BY <1>a, <1>3, WorkbookHasKey, BookForFits DEF DocInv
  <2>2. selected' = selected /\ books' = [books EXCEPT ![b] = view]
    BY <1>1, <1>3 DEF GetFailed
  <2> HIDE DEF book
  <2>3. view.shown = book.shown
    BY <2>1
  <2> HIDE DEF view
  <2>4. selected \in Books => books'[selected].shown = books[selected].shown
    BY <1>1, <2>1, <2>2, <2>3 DEF DocInv, DocType
  <2> QED BY <1>1, <2>2, <2>4, StaysInFront
<1> QED BY <1>2, <1>3

SelectionInv == TabsInv /\ WholeDoc /\ ShownFits

\* The active target is activated, or stays what it was.
LEMMA ActivatingFits ==
    ASSUME SelectionInv, NEW t \in Targets, NEW leaves \in SUBSET Targets,
           Steady => (InWorkbook(t, leaves) <=> Shared(t)), NEW page, NEW queue \in Seq(Handlers),
           Activate(t, leaves, page, queue) \/ ActivateTwice(t, leaves, queue)
    PROVE  ShownFits'
<1> SUFFICES ASSUME Steady, NEW u \in Targets, active' = u, tabs'[u] # None
             PROVE  Front(u)' \/ Queued(posted', "activate_target", u)
  BY DEF ShownFits, Steady
<1>1. /\ active' = t /\ tabs' = tabs
      /\ tabs[t] # None => Front(t)' \/ Queued(posted', "activate_target", t)
  BY ActivationFronts, SecondActivationFronts DEF SelectionInv, TabsInv
<1> QED BY <1>1

\* Nothing about the documents changes, and no activation that waits is lost.
LEMMA StayingFits ==
    ASSUME SelectionInv, UNCHANGED <<active, selected, books, tabs>>,
           \A t : Queued(posted, "activate_target", t) => Queued(posted', "activate_target", t)
    PROVE  ShownFits'
BY DEF SelectionInv, ShownFits, Steady, Front

\* The user activates what comes to the front.
LEMMA UserFronts ==
    ASSUME SelectionInv, DocInv', User
    PROVE  ShownFits'
<1> USE DEF docVars, workVars
<1>a. posted \in Seq(Handlers) /\ DocInv /\ SteadyDoc /\ WholeDoc
  BY DEF SelectionInv, TabsInv, FlightInv, FlightType
<1>b. ASSUME UNCHANGED <<active, selected, books, tabs, posted>> PROVE ShownFits'
  BY <1>b, StayingFits
<1>c. ASSUME NEW t, NEW ev, t \in VisibleIn(Opened, ev), NEW page, Activate(t, VisibleIn(Opened, ev), page, posted)
      PROVE  ShownFits'
  <2>1. t \in Targets /\ PathOf[t] \in Opened /\ VisibleIn(Opened, ev) \in SUBSET Targets
    BY <1>c DEF VisibleIn
  <2>2. Steady => (InWorkbook(t, VisibleIn(Opened, ev)) <=> Shared(t))
    BY <2>1, SteadyIsShared
  <2> QED BY <1>a, <1>c, <2>1, <2>2, ActivatingFits
<1>d. Steady => \A b \in Books : \A s \in books[b].sheets : s \in Visible
  <2>1. \A b \in Books : books[b].sheets \subseteq Targets
    BY <1>a DEF DocInv, DocType
  <2>2. Steady => \A b \in Books : \A s \in books[b].sheets : PathOf[s] \in Opened
    BY <1>a, <2>1 DEF WholeDoc, Opened
  <2> QED BY <2>1, <2>2 DEF Visible, VisibleIn, Steady
<1>e. FrontIsTargetShown'
  BY FrontIsShown, PTL
<1>1. ASSUME NEW new \in SUBSET Paths, OpenPaths(new) PROVE ShownFits'
  BY <1>1, <1>b DEF OpenPaths
<1>2. ASSUME NEW t \in Targets, SelectLeaf(t) PROVE ShownFits'
  BY <1>2, <1>c DEF SelectLeaf, Visible
<1>3. ASSUME NEW t \in Targets, NEW button \in BOOLEAN, SwitchSheet(t, button) PROVE ShownFits'
  <2>1. CASE t \in Visible
    BY <1>3, <1>c, <2>1 DEF SwitchSheet, Visible
  <2>2. CASE t \notin Visible
    <3>1. ~Steady
      BY <1>3, <1>d, <2>2 DEF SwitchSheet
    <3> QED BY <3>1 DEF ShownFits, Steady
  <2> QED BY <2>1, <2>2
<1>4. ASSUME NEW page \in pages, SelectPage(page) PROVE ShownFits'
  <2> DEFINE shown == TargetShownOn(page, tabs)
             sheet == books[page].shown
  <2>1. \/ shown \in Visible /\ Activate(shown, Visible, page, posted)
        \/ page \in Books /\ sheet \in Visible /\ Activate(sheet, Visible, page, posted)
        \/ /\ shown # None /\ active' = shown /\ selected' = page
           /\ UNCHANGED <<books, tabs>>
        \/ shown = None /\ (page \in Books => sheet \notin Visible)
    BY <1>4 DEF SelectPage
  <2>2. CASE shown \in Visible /\ Activate(shown, Visible, page, posted)
    BY <1>c, <2>2 DEF Visible
  <2>3. CASE sheet \in Visible /\ Activate(sheet, Visible, page, posted)
    BY <1>c, <2>3 DEF Visible
  <2>4. CASE shown # None /\ active' = shown /\ selected' = page /\ UNCHANGED <<books, tabs>>
    <3>1. TargetShown' = shown
      BY <2>4 DEF TargetShown, TargetShownOn
    <3> QED BY <1>e, <2>4, <3>1 DEF ShownFits, FrontIsTargetShown
  <2>5. CASE shown = None /\ (page \in Books => sheet \notin Visible)
    <3>1. ASSUME Steady PROVE FALSE
      <4>1. CASE page \in Books
        <5>1. sheet \in books[page].sheets
          BY <1>a, <4>1 DEF DocInv, BooksFit
        <5> QED BY <1>d, <2>5, <3>1, <4>1, <5>1
      <4>2. CASE page \notin Books
        <5>1. PICK t \in Targets : tabs[t] = page
          BY <1>a, <3>1, <4>2 DEF SteadyDoc
        <5>2. page # None
          BY <1>a DEF DocInv, DocType, Pages
        <5>3. shown = CHOOSE s \in Targets : tabs[s] = page
          BY <4>2, <5>1, <5>2 DEF TargetShownOn
        <5>4. shown \in Targets
          BY <5>1, <5>3
        <5> QED BY <2>5, <5>4
      <4> QED BY <4>1, <4>2
    <3> QED BY <3>1 DEF ShownFits, Steady
  <2> QED BY <2>1, <2>2, <2>3, <2>4, <2>5
<1>5. ASSUME NEW next \in pages \cup {None}, CloseTab(next) PROVE ShownFits'
  <2> DEFINE loaded == [t \in Targets |-> IF t \in TargetsOf(selected) THEN None ELSE tabs[t]]
  <2>1. /\ tabs' = loaded /\ selected' = next /\ active' = TargetShownOn(next, loaded)
        /\ books' = [b \in Books |-> IF b = selected THEN NoBook ELSE books[b]]
        /\ selected # None /\ next # selected
    BY <1>5 DEF CloseTab
  <2> HIDE DEF loaded
  <2>2. next \in Books => books'[next] = books[next]
    BY <2>1
  <2>3. TargetShown' = active'
    BY <2>1, <2>2 DEF TargetShown, TargetShownOn
  <2> QED BY <1>e, <2>3 DEF ShownFits, FrontIsTargetShown
<1>6. ASSUME NEW ev \in BOOLEAN, RebuildTrees(ev) PROVE ShownFits'
  BY <1>6, <1>b, <1>c DEF RebuildTrees
<1>7. CASE CloseFrame
  BY <1>7, <1>b DEF CloseFrame
<1> QED BY <1>1, <1>2, <1>3, <1>4, <1>5, <1>6, <1>7 DEF User

\* A future that is resolved moves nothing.
LEMMA ResolveFronts ==
    ASSUME SelectionInv, Resolve
    PROVE  ShownFits'
<1> USE DEF docVars
<1>1. UNCHANGED <<active, selected, books, tabs>>
  BY DEF Resolve, CatalogResolves, GetResolves, FrameUnchanged
<1>2. posted' = posted \/ \E h \in Handlers : posted' = Append(posted, h)
  <2>1. \A p \in Paths, ok \in BOOLEAN : [call |-> "catalog_done", path |-> p, ok |-> ok] \in Handlers
    BY DEF Handlers
  <2>2. \A t \in Targets, ok \in BOOLEAN : [call |-> "get_done", target |-> t, ok |-> ok] \in Handlers
    BY DEF Handlers
  <2> QED BY <2>1, <2>2 DEF Resolve, CatalogResolves, GetResolves, CallAfter
<1>3. posted \in Seq(Handlers)
  BY DEF SelectionInv, TabsInv, FlightInv, FlightType
<1>4. ASSUME NEW h \in Handlers, posted' = Append(posted, h)
      PROVE  \A s : Queued(posted, "activate_target", s) => Queued(posted', "activate_target", s)
  <2>1. \A s : Queued(posted, "activate_target", s) => Queued(Append(posted, h), "activate_target", s)
    BY <1>3, AppendKeepsQueued
  <2> QED BY <1>4, <2>1
<1> QED BY <1>1, <1>2, <1>4, StayingFits

\* A handler brings the active target to the front, and no other.
LEMMA DispatchFronts ==
    ASSUME SelectionInv, TabsInv', Dispatch
    PROVE  ShownFits'
<1> USE DEF docVars, workVars
<1>a. posted \in Seq(Handlers) /\ posted # <<>>
  BY DEF SelectionInv, TabsInv, FlightInv, FlightType, Dispatch, CatalogDone, GetDone, CompleteGetPosted,
         ActivatePosted, Handles
<1> DEFINE h == Head(posted)
           rest == Tail(posted)
<1>b. /\ rest \in Seq(Handlers) /\ h \in Handlers
      /\ IF h.call = "catalog_done" THEN TRUE ELSE node[PathOf[h.target]] = "open"
      /\ h.call # "activate_target" =>
            \A s : Queued(posted, "activate_target", s) => Queued(rest, "activate_target", s)
  BY <1>a, TailKeepsQueued, TailFits DEF SelectionInv, TabsInv, FlowInv
<1>c. h.call = "catalog_done" \/ h.target \in Targets
  BY <1>b DEF Handlers
<1>d. h.call = "catalog_done" => h.path \in Paths
  BY <1>b DEF Handlers
<1>e. DocInv /\ SteadyDoc /\ WholeDoc /\ FlowType
  BY DEF SelectionInv, TabsInv, FlowInv
<1> HIDE DEF h, rest
<1>f. ASSUME UNCHANGED <<active, selected, books, tabs>>, posted' = rest, h.call # "activate_target" PROVE ShownFits'
  BY <1>b, <1>f, StayingFits
<1>g. ASSUME NEW t \in Targets, node[PathOf[t]] = "open" PROVE Steady => (InWorkbook(t, Visible) <=> Shared(t))
  <2>1. PathOf[t] \in Opened
    BY <1>g DEF Opened
  <2> QED BY <2>1, SteadyIsShared DEF Visible
<1>1. CASE CatalogDone
  <2> DEFINE p == h.path
             opened == Opened \cup {p}
             leaves == VisibleIn(opened, evidence)
             own == {t \in leaves : PathOf[t] = p}
  <2>1. h.call # "activate_target"
    BY <1>1 DEF CatalogDone, Handles, h
  <2>2. \/ UNCHANGED <<active, selected, books, tabs>> /\ posted' = rest
        \/ own # {} /\ ActivateTwice(First(own), leaves, rest)
    <3>1. CASE closed
      BY <1>1, <3>1 DEF CatalogDone, Ignored, rest
    <3>2. CASE ~closed
      BY <1>1, <3>2 DEF CatalogDone, h, rest
    <3> QED BY <3>1, <3>2
  <2>3. CASE own # {} /\ ActivateTwice(First(own), leaves, rest)
    <3> DEFINE t == First(own)
    <3>1. t \in Targets /\ PathOf[t] \in opened /\ leaves \in SUBSET Targets
      BY <2>3, FirstIsOne DEF VisibleIn
    <3> HIDE DEF t
    <3>2. Steady => (InWorkbook(t, leaves) <=> Shared(t))
      BY <3>1, SteadyIsShared
    <3>3. ActivateTwice(t, leaves, rest)
      BY <2>3 DEF t
    <3> HIDE DEF leaves
    <3> QED BY <1>b, <3>1, <3>2, <3>3, ActivatingFits
  <2> QED BY <1>f, <2>1, <2>2, <2>3
<1>2. ASSUME NEW t \in Targets, node[PathOf[t]] = "open", CompleteGet(t) \/ GetFailed(t),
             UNCHANGED active, posted' = rest, h.call # "activate_target"
      PROVE  ShownFits'
  <2> SUFFICES ASSUME Steady, NEW u \in Targets, active' = u, tabs'[u] # None
               PROVE  Front(u)' \/ Queued(posted', "activate_target", u)
    BY DEF ShownFits, Steady
  <2>1. CASE Queued(posted, "activate_target", u)
    BY <1>b, <1>2, <2>1
  <2>2. CASE ~Queued(posted, "activate_target", u)
    <3>1. tabs[u] # None => Front(u)
      BY <1>2, <2>2 DEF SelectionInv, ShownFits
    <3>2. InWorkbook(t, Visible) <=> Shared(t)
      BY <1>2, <1>g
    <3>3. CASE CompleteGet(t)
      BY <1>2, <1>e, <3>1, <3>2, <3>3, CompletionFronts
    <3>4. CASE GetFailed(t)
      BY <1>e, <3>1, <3>4, FailureFronts DEF GetFailed
    <3> QED BY <1>2, <3>3, <3>4
  <2> QED BY <2>1, <2>2
<1>3. CASE GetDone
  <2> DEFINE t == h.target
             done == [call |-> "complete_get", target |-> t]
  <2>1. t \in Targets /\ node[PathOf[t]] = "open" /\ h.call # "activate_target" /\ UNCHANGED active
    BY <1>3, <1>b, <1>c DEF GetDone, Handles, Ignored, h
  <2>2. \/ (CompleteGet(t) \/ GetFailed(t)) /\ posted' = rest
        \/ UNCHANGED <<selected, books, tabs>> /\ posted' \in {rest, Append(rest, done)}
    <3>1. CASE closed
      BY <1>3, <3>1 DEF GetDone, Ignored, rest
    <3>2. CASE ~closed
      BY <1>3, <3>2 DEF GetDone, h, rest
    <3> QED BY <3>1, <3>2
  <2>3. CASE UNCHANGED <<selected, books, tabs>> /\ posted' = Append(rest, done)
    <3>1. done \in Handlers
      BY <2>1 DEF Handlers
    <3> HIDE DEF done
    <3>2. \A s : Queued(rest, "activate_target", s) => Queued(posted', "activate_target", s)
      BY <1>b, <2>3, <3>1, AppendKeepsQueued
    <3> QED BY <1>b, <2>1, <2>3, <3>2, StayingFits
  <2> QED BY <1>f, <1>2, <2>1, <2>2, <2>3
<1>4. CASE CompleteGetPosted
  <2>1. /\ h.target \in Targets /\ node[PathOf[h.target]] = "open" /\ h.call # "activate_target"
        /\ posted' = rest /\ UNCHANGED active
        /\ CompleteGet(h.target) \/ UNCHANGED <<selected, books, tabs>>
    BY <1>4, <1>b, <1>c DEF CompleteGetPosted, Handles, Ignored, h, rest
  <2> QED BY <1>f, <1>2, <2>1
<1>5. CASE ActivatePosted
  <2>1. /\ h.target \in Targets /\ node[PathOf[h.target]] = "open"
        /\ Activate(h.target, Visible, selected, rest)
    BY <1>5, <1>b, <1>c DEF ActivatePosted, Handles, h, rest
  <2>2. Visible \in SUBSET Targets
    BY DEF Visible, VisibleIn
  <2> QED BY <1>b, <1>g, <2>1, <2>2, ActivatingFits
<1> QED BY <1>1, <1>3, <1>4, <1>5 DEF Dispatch
-----------------------------------------------------------------------------
ShownInv == IInv /\ WholeDoc /\ ShownFits

\* At first no target is active.
LEMMA ShownInit == Init => ShownInv
<1>1. Init => IInv
  BY InitHolds
<1>2. Init => WholeDoc /\ ShownFits
  BY DEF Init, WholeDoc, ShownFits, NoBook
<1> QED BY <1>1, <1>2 DEF ShownInv

\* Each step keeps the item that is active in front, or on its way there.
LEMMA ShownNext == ShownInv /\ [Next]_vars => ShownInv'
<1> SUFFICES ASSUME ShownInv, [Next]_vars PROVE ShownInv'
  OBVIOUS
<1>1. IInv'
  BY NextKeeps DEF ShownInv
<1>2. SelectionInv /\ TabsInv'
  BY <1>1 DEF ShownInv, IInv, SelectionInv
<1>3. CASE UNCHANGED vars \/ Exited
  <2>1. UNCHANGED vars
    BY <1>3 DEF Exited
  <2>2. ShownFits'
    BY <1>2, <2>1, StayingFits DEF vars, docVars
  <2>3. WholeDoc'
    BY <2>1 DEF vars, docVars, ShownInv, WholeDoc, Steady
  <2> QED BY <1>1, <2>2, <2>3 DEF ShownInv
<1>4. CASE User \/ Resolve \/ Dispatch
  <2>1. ShownFits'
    BY <1>2, <1>4, UserFronts, ResolveFronts, DispatchFronts DEF TabsInv
  <2>2. DocStep
    <3>1. CASE Resolve
      BY <3>1 DEF Resolve, CatalogResolves, GetResolves, FrameUnchanged, docVars, DocStep, Selects,
                  SelectionFits, ShownInv, IInv, TabsInv, DocInv
    <3> QED BY <1>4, <3>1, UserSteps, DispatchSteps DEF ShownInv, IInv, TabsInv
  <2>3. \A p \in Paths : node[p] = "open" => node'[p] = "open"
    BY <1>2, <1>4, OpenStays DEF SelectionInv
  <2>4. WholeDoc'
    BY <2>2, <2>3, StepsKeepWhole DEF ShownInv, IInv, TabsInv
  <2> QED BY <1>1, <2>1, <2>4 DEF ShownInv
<1> QED BY <1>3, <1>4 DEF Next

\* When no handler waits, the item is there.
LEMMA ShownIsSelected == ShownInv => OpenedItemIsSelected
<1> SUFFICES ASSUME ShownInv, Steady, Quiet, active # None, tabs[active] # None
             PROVE  TargetShown = active
  BY DEF OpenedItemIsSelected
<1>1. active \in Targets
  BY DEF ShownInv, IInv, RestType
<1>2. ~Queued(posted, "activate_target", active)
  <2>1. Len(posted) = 0
    BY DEF Quiet
  <2> QED BY <2>1 DEF Queued
<1>3. Front(active)
  BY <1>1, <1>2 DEF ShownInv, ShownFits
<1> QED BY <1>1, <1>3, FrontIsShown DEF ShownInv, IInv, TabsInv, FrontIsTargetShown

\* When nothing is in flight and leaves are steady, the notebook shows the item that was opened last,
\* in whatever order its retrieval, those of others and the handlers that waited came to an end.
THEOREM OpenedIsSelected == Spec => []OpenedItemIsSelected
BY ShownInit, ShownNext, ShownIsSelected, PTL DEF Spec
=============================================================================
