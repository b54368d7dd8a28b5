------------------------------- MODULE DomTree -------------------------------
(***************************************************************************)
(* The node tree, the documents and their task scopes of the browser      *)
(* environment (leap-env/src/impl/00-dom-shared.impl.js, Node.impl.js,     *)
(* Document.impl.js, DocumentFragment.impl.js).                            *)
(*                                                                         *)
(* Scripts run one at a time, so each call is one step.  A script may keep *)
(* any node it ever saw, across tasks too: every call takes any node.  A   *)
(* call that throws keeps what it did before it threw.  The functions of   *)
(* the source that call each other take a state, a record of the variables, *)
(* and return one.                                                         *)
(*                                                                         *)
(* A node's kind is the set it belongs to: it is what the node was created *)
(* as.  Its nodeType can differ: an element whose innerHTML is set to text *)
(* while it has no ownerDocument gets nodeType 9 (turned), and the next    *)
(* child makes it a registered document, the task's primary one.  The      *)
(* model ends there.                                                       *)
(*                                                                         *)
(* A node that is not in born has not been created yet.  The html element  *)
(* stands for the default tree of a document: head and body are made by    *)
(* the same two calls inside it.  The text of HTML is an element, then a   *)
(* text or a comment, and each may be missing.  Attributes, styles, layout *)
(* marks and the native bridge are left out.                               *)
(*                                                                         *)
(* A call that walks round a cycle of childNodes never returns, and is no  *)
(* step, unless the tree is intact, when TreeLinks shall see the cycle.    *)
(* Name_Fault is Name with a mistake a maintainer could make.              *)
(***************************************************************************)
EXTENDS Integers, Sequences, FiniteSets, SequencesExt

CONSTANTS
  Document, Html, Element, Text, Comment, Fragment,   \* the nodes, by kind
  Task, DefaultTask,                  \* task ids; 'task-default'
  None                                \* null

Node == Document \cup Html \cup Element \cup Text \cup Comment \cup Fragment
Elements == Html \cup Element         \* nodeType 1
Parents == Document \cup Elements \cup Fragment
Holder == Document \cup Elements     \* what can have the state of a document

ASSUME TaskAssumption == DefaultTask \in Task /\ None \notin Task
ASSUME NodeAssumption ==
  /\ None \notin Node
  /\ IsFiniteSet(Node)
  /\ Document \cap (Node \ Document) = {}
  /\ Document \cap (Elements \cup Text \cup Comment \cup Fragment) = {}
  /\ Html \cap (Element \cup Text \cup Comment \cup Fragment) = {}
  /\ Element \cap (Text \cup Comment \cup Fragment) = {}
  /\ Text \cap (Comment \cup Fragment) = {} /\ Comment \cap Fragment = {}

VARIABLES
  born,                \* the nodes that exist
  turned,              \* the elements whose nodeType is 9
  parent, kids,        \* parentNode and childNodes
  owner,               \* ownerDocument
  owned,               \* ownedNodes of a document
  live,                \* documentById: the registered documents
  taskOf,              \* taskId of a document; taskToDocs is its inverse
  primary,             \* taskPrimaryDocument
  currentTaskId,
  intact               \* history: nothing has damaged the tree yet

vars == <<born, turned, parent, kids, owner, owned, live, taskOf, primary,
          currentTaskId, intact>>

\* No element has become a document: where one has, the model ends.
Running == live \subseteq Document

\* The variables as the state a call works on; hung is a walk that never ends.
Now == [born |-> born, turned |-> turned, parent |-> parent, kids |-> kids,
        owner |-> owner, owned |-> owned, live |-> live, taskOf |-> taskOf,
        primary |-> primary, intact |-> intact, hung |-> FALSE]

Becomes(s) ==
  /\ Running /\ (s.hung => s.intact)
  /\ born' = s.born /\ turned' = s.turned /\ parent' = s.parent /\ kids' = s.kids
  /\ owner' = s.owner /\ owned' = s.owned /\ live' = s.live
  /\ taskOf' = s.taskOf /\ primary' = s.primary /\ intact' = s.intact
  /\ UNCHANGED currentTaskId

\* How a call ends: it returns, or it throws and leaves the state behind.
Returns(s) == [ok |-> TRUE, s |-> s]
Throws(s)  == [ok |-> FALSE, s |-> s]

Init ==
  /\ born = {} /\ turned = {} /\ live = {} /\ currentTaskId = DefaultTask
  /\ intact = TRUE
  /\ parent = [n \in Node |-> None] /\ kids = [n \in Node |-> <<>>]
  /\ owner = [n \in Node |-> None]
  /\ owned = [d \in Holder |-> {}] /\ taskOf = [d \in Holder |-> None]
  /\ primary = [t \in Task |-> None]

-----------------------------------------------------------------------------
(***************************************************************************)
(* Walks over the tree.                                                    *)
(***************************************************************************)

\* The nodes a walk along childNodes from n visits, n included.
Subtree(s, n) ==
  LET Within[k \in 0 .. Cardinality(Node)] ==
        IF k = 0 THEN {n}
        ELSE LET S == Within[k-1] IN S \cup UNION {ToSet(s.kids[m]) : m \in S}
  IN  Within[Cardinality(Node)]

\* The nodes a walk along parentNode from n visits, n included.
Ancestors(s, n) ==
  LET Up[m \in Node] ==
        IF s.parent[m] = None THEN {m} ELSE {m} \cup Up[s.parent[m]]
  IN  Up[n]

IsAncestor(s, a, n) == a \in Ancestors(s, n)

-----------------------------------------------------------------------------
(***************************************************************************)
(* Documents: registration and ownership.                                  *)
(***************************************************************************)

\* nodeType is 9.
IsDoc(s, n) == n \in Document \cup s.turned

\* ensureDocumentRegistration, with the task the callers in a script pass:
\* the current one.  A released document is registered anew.  So is whatever
\* passes for a document, in its parent's childNodes or not.
Register(s, d) ==
  IF d \in s.live THEN s
  ELSE [s EXCEPT !.live = @ \cup {d}, !.taskOf[d] = currentTaskId,
                 !.owned[d] = {}, !.parent[d] = None, !.owner[d] = None,
                 !.primary[currentTaskId] = d,
                 !.intact = @ /\ d \in Document]

RegisterOwner(s, d) == IF d = None THEN s ELSE Register(s, d)

\* A walk along childNodes from one of S comes back to a node it left.
Circles(s, S) == \E m \in S : \E c \in ToSet(s.kids[m]) : m \in Subtree(s, c)

AdoptOwnerDocument_RootOnly(s, n, d) ==
  LET left(x) == IF s.owner[n] = x /\ x # d THEN {n} ELSE {}
  IN  [s EXCEPT !.owner[n] = d,
                !.owned = [x \in Holder |->
                   (s.owned[x] \ left(x)) \cup (IF x = d THEN {n} ELSE {})]]

\* The owner a node leaves goes through ensureDocumentState, which writes its
\* nodeType.
AdoptOwnerDocument(s, n, d) ==
  LET moved == Subtree(s, n)
      left(x) == {m \in moved : s.owner[m] = x /\ x # d}
  IN  [s EXCEPT !.owner = [m \in Node |-> IF m \in moved THEN d ELSE s.owner[m]],
                !.owned = [x \in Holder |->
                   (s.owned[x] \ left(x)) \cup (IF x = d THEN moved ELSE {})],
                !.turned = @ \cup {x \in Elements : left(x) # {}},
                !.hung = @ \/ Circles(s, moved)]

-----------------------------------------------------------------------------
(***************************************************************************)
(* appendChild, insertBefore, removeChild.                                 *)
(***************************************************************************)

\* isAllowedChildNodeType
Allowed(s, p, c) ==
  \/ IsDoc(s, p) /\ c \in (Elements \ s.turned) \cup Comment \cup Fragment
  \/ p \in (Elements \cup Fragment) \ s.turned /\ ~IsDoc(s, c)

HtmlChildren(s, p, without) == (ToSet(s.kids[p]) \cap Html) \ (without \cup s.turned)

\* validateInsertion: what its other checks refuse cannot be a child at all.
Valid(s, p, c) ==
  /\ p \in Parents /\ Allowed(s, p, c)
  /\ IsDoc(s, p) /\ c \in Html =>
       HtmlChildren(s, p, IF s.parent[c] = p THEN {c} ELSE {}) = {}
  /\ IsDoc(s, p) /\ c \in Fragment =>
       LET inside == ToSet(s.kids[c])
           staying == {m \in inside : s.parent[m] = p}
       IN  /\ \A m \in inside : Allowed(s, p, m)
           /\ Cardinality(HtmlChildren(s, p, staying))
              + Len(SelectSeq(s.kids[c], LAMBDA m : m \in Html)) <= 1

DetachFromParent(s, c) ==
  LET p == s.parent[c]
  IN  IF p = None THEN s
      ELSE [s EXCEPT !.kids[p] = RemoveFirst(@, c), !.parent[c] = None]

OwnerFor(s, p) == IF IsDoc(s, p) THEN p ELSE s.owner[p]

Place_KeepsParent(s, p, c, i) ==
  LET s1 == RegisterOwner(s, OwnerFor(s, p))
      at == IF i > Len(s1.kids[p]) THEN Len(s1.kids[p]) + 1 ELSE i
      s2 == [s1 EXCEPT !.kids[p] = InsertAt(@, at, c), !.parent[c] = p]
  IN  AdoptOwnerDocument(s2, c, OwnerFor(s2, p))

\* The child leaves its parent and gets position i of p, or the last one.
Place(s, p, c, i) ==
  LET s1 == DetachFromParent(RegisterOwner(s, OwnerFor(s, p)), c)
      at == IF i > Len(s1.kids[p]) THEN Len(s1.kids[p]) + 1 ELSE i
      s2 == [s1 EXCEPT !.kids[p] = InsertAt(@, at, c), !.parent[c] = p]
  IN  AdoptOwnerDocument(s2, c, OwnerFor(s2, p))

AppendNode_NoAncestorTest(s, p, c) ==
  IF p = c \/ ~Valid(s, p, c) THEN Throws(s)
  ELSE Returns(Place(s, p, c, Len(s.kids[p]) + 1))

AppendNode(s, p, c) ==
  IF p = c \/ ~Valid(s, p, c) \/ IsAncestor(s, c, p) THEN Throws(s)
  ELSE Returns(Place(s, p, c, Len(s.kids[p]) + 1))

\* indexOf before the detachment: a sibling before b shifts b, not beforeIndex.
InsertNode(s, p, c, b) ==
  IF \/ ~Contains(s.kids[p], b) \/ p = c \/ IsAncestor(s, c, p)
     \/ ~Valid(s, p, c)
  THEN Throws(s)
  ELSE Returns(Place(s, p, c,
         SelectInSeq(s.kids[p], LAMBDA m : m = b)))

\* A fragment gives its children away one by one; the first that throws ends it.
AppendTo(s, p, c) ==
  IF c \notin Fragment THEN AppendNode(s, p, c)
  ELSE IF p = c \/ ~Valid(s, p, c) THEN Throws(s)
  ELSE LET Given[k \in 0 .. Len(s.kids[c])] ==
             IF k = 0 THEN Returns(s)
             ELSE LET r == Given[k-1]
                  IN  IF r.ok THEN AppendNode(r.s, p, s.kids[c][k]) ELSE r
       IN  Given[Len(s.kids[c])]

InsertInto(s, p, c, b) ==
  IF c \notin Fragment THEN InsertNode(s, p, c, b)
  ELSE IF ~Contains(s.kids[p], b) \/ IsAncestor(s, c, p) \/ ~Valid(s, p, c)
  THEN Throws(s)
  ELSE LET Given[k \in 0 .. Len(s.kids[c])] ==
             IF k = 0 THEN Returns(s)
             ELSE LET r == Given[k-1]
                  IN  IF r.ok THEN InsertNode(r.s, p, s.kids[c][k], b) ELSE r
       IN  Given[Len(s.kids[c])]

RemoveFrom(s, p, c) ==
  IF ~Contains(s.kids[p], c) THEN Throws(s)
  ELSE Returns([s EXCEPT !.kids[p] = RemoveFirst(@, c), !.parent[c] = None])

AppendChild(p, c) == Becomes(AppendTo(Now, p, c).s)
InsertBefore(p, c, b) == Becomes(InsertInto(Now, p, c, b).s)
RemoveChild(p, c) == Becomes(RemoveFrom(Now, p, c).s)

ReplaceChild(p, c, old) ==
  LET r == InsertInto(Now, p, c, old)
  IN  Becomes(IF r.ok THEN RemoveFrom(r.s, p, old).s ELSE r.s)

\* setTextContent of an element or a document drops the children.
Emptied(s, p) ==
  [s EXCEPT !.parent = [m \in Node |->
                 IF m \in ToSet(s.kids[p]) THEN None ELSE s.parent[m]],
            !.kids[p] = <<>>]

SetTextContent(p) == Becomes(Emptied(Now, p))

-----------------------------------------------------------------------------
(***************************************************************************)
(* Creation.                                                               *)
(***************************************************************************)
Unborn(s, Kind) == Kind \ s.born

\* createElementForDocument: a node that has a document is owned at once.
Create(s, n, d) ==
  LET s1 == RegisterOwner([s EXCEPT !.born = @ \cup {n}, !.owner[n] = d], d)
  IN  IF d = None THEN s1 ELSE [s1 EXCEPT !.owned[d] = @ \cup {n}]

CreateElement(d, n) ==
  /\ n \in Unborn(Now, Elements)
  /\ Becomes(Create(Now, n, d))

\* createTextNode and createComment name the document and are not owned by it.
CreateText(d, n) ==
  /\ n \in Unborn(Now, Text \cup Comment)
  /\ Becomes([Register(Now, d) EXCEPT !.born = @ \cup {n}, !.owner[n] = d])

\* createDocumentFragment does not even register its document.
CreateDocumentFragment(d, n) ==
  /\ n \in Unborn(Now, Fragment)
  /\ Becomes([Now EXCEPT !.born = @ \cup {n}, !.owner[n] = d])

\* cloneNode(false), which copies the nodeType and names no document; a deep
\* clone appends the clones of the children to it.
CloneNode(n, c) ==
  /\ c \in Unborn(Now, Node \ Document)
  /\ \E Kind \in {Html, Element, Text, Comment, Fragment} : {n, c} \subseteq Kind
  /\ Becomes([Now EXCEPT !.born = @ \cup {c},
                         !.turned = @ \cup (IF n \in @ THEN {c} ELSE {})])

\* ensureElementState, which the accessors of an element call first.
Touch(s, e) ==
  LET d == s.owner[e]
      s1 == RegisterOwner([s EXCEPT !.turned = @ \ {e}], d)
  IN  IF d = None THEN s1 ELSE [s1 EXCEPT !.owned[d] = @ \cup {e}]

TouchElement(e) == Becomes(Touch(Now, e))

\* A text or comment of the parsed HTML names the document of p, or else p.
AppendText(s, p, x) ==
  LET d == IF s.owner[p] = None THEN p ELSE s.owner[p]
  IN  AppendTo([s EXCEPT !.born = @ \cup {x}, !.owner[x] = d], p, x).s

\* innerHTML of an element: its children are removed, then what was parsed,
\* an element e and a text x or less, is created and appended.
SetInnerHTML(p, e, x) ==
  LET s  == Emptied(Touch(Now, p), p)
      s1 == IF e = None THEN s ELSE AppendTo(Create(s, e, s.owner[p]), p, e).s
  IN  /\ e \in Unborn(Now, Element) \cup {None}
      /\ x \in Unborn(Now, Text \cup Comment) \cup {None}
      /\ Becomes(IF x = None THEN s1 ELSE AppendText(s1, p, x))

\* ensureDocumentDefaultTree: any element child passes for the document element.
DefaultTree(s, d, h) ==
  LET s1 == Register(s, d)
  IN  IF (ToSet(s1.kids[d]) \cap Elements) \ s1.turned # {} THEN s1
      ELSE AppendTo(Create(s1, h, d), d, h).s

\* The getter of window.document: getOrCreateTaskDocument.
GetOrCreateTaskDocument(d, h) ==
  /\ h \in Unborn(Now, Html)
  /\ IF primary[currentTaskId] \in live
     THEN /\ d = primary[currentTaskId]
          /\ Becomes(DefaultTree(Now, d, h))
     ELSE /\ d \in Unborn(Now, Document)
          /\ Becomes(DefaultTree([Now EXCEPT !.born = @ \cup {d}], d, h))

\* clearDocumentChildren: what hung in d loses its parent and its document, and
\* keeps its childNodes; what d owned outside its tree keeps d.
ClearDocument(s, d) ==
  LET gone == UNION {Subtree(s, c) : c \in ToSet(s.kids[d])}
  IN  [s EXCEPT
        !.kids[d] = <<>>, !.owned[d] = {},
        !.parent = [n \in Node |-> IF n \in gone THEN None ELSE s.parent[n]],
        !.owner = [n \in Node |-> IF n \in gone /\ s.owner[n] = d THEN None ELSE s.owner[n]],
        !.intact = @ /\ \A n \in s.owned[d] : n \in ToSet(s.kids[d]) /\ s.kids[n] = <<>>,
        !.hung = @ \/ Circles(s, gone)]

\* parseHTMLUnsafe of a document parses into it, the static one and DOMParser
\* into a new one; e is the element that was parsed.
ParseHTMLUnsafe(d, e) ==
  LET s == ClearDocument(Register([Now EXCEPT !.born = @ \cup {d}], d), d)
  IN  \/ e = None /\ Becomes(s)
      \/ e \in Unborn(Now, Elements) /\ Becomes(AppendTo(Create(s, e, d), d, e).s)

-----------------------------------------------------------------------------
(***************************************************************************)
(* Task scopes.                                                            *)
(***************************************************************************)

\* releaseDocument for each of D: clearNodeState for all they own.  A node they
\* do not own, such as a fragment, goes on listing the children it had.
ReleaseAll(s, D) ==
  LET cleared == UNION {s.owned[d] : d \in D}
  IN  [s EXCEPT
        !.parent = [n \in Node |-> IF n \in cleared \cup D THEN None ELSE s.parent[n]],
        !.kids   = [n \in Node |-> IF n \in cleared \cup D THEN <<>> ELSE s.kids[n]],
        !.owner  = [n \in Node |-> IF n \in cleared THEN None ELSE s.owner[n]],
        !.owned  = [d \in Holder |-> IF d \in D THEN {} ELSE s.owned[d]],
        !.live = @ \ D,
        !.primary = [t \in Task |-> IF s.primary[t] \in D THEN None ELSE s.primary[t]],
        !.intact = @ /\ \A n \in Node \ (cleared \cup D) : ToSet(s.kids[n]) \cap cleared = {}]

DocumentsOf(T) == {d \in live : taskOf[d] \in T}

EndScopes(T, t) ==
  LET s == ReleaseAll(Now, DocumentsOf(T))
  IN  /\ Running
      /\ born' = s.born /\ turned' = s.turned /\ parent' = s.parent /\ kids' = s.kids
      /\ owner' = s.owner /\ owned' = s.owned /\ live' = s.live
      /\ primary' = s.primary /\ currentTaskId' = t /\ intact' = s.intact
      /\ UNCHANGED taskOf

BeginTaskScope_KeepsStale(t) == EndScopes({}, t)

\* beginTaskScope releases what other tasks left (releaseStaleTaskScopes).
BeginTaskScope(t) == EndScopes(Task \ {t}, t)

EndTaskScope_NoDefault(t) ==
  EndScopes({t}, IF currentTaskId = t THEN None ELSE currentTaskId)

EndTaskScope(t) ==
  EndScopes({t}, IF currentTaskId = t THEN DefaultTask ELSE currentTaskId)

-----------------------------------------------------------------------------
Ended == ~Running /\ UNCHANGED vars

Next ==
  \/ \E p \in born \cap Parents :
       \/ \E c \in born : AppendChild(p, c)
       \/ \E c \in ToSet(kids[p]) : RemoveChild(p, c)
       \/ \E c \in born, b \in ToSet(kids[p]) : InsertBefore(p, c, b) \/ ReplaceChild(p, c, b)
  \/ \E p \in born \cap (Document \cup Elements) : SetTextContent(p)
  \/ \E p \in born \cap Elements :
       \/ TouchElement(p)
       \/ \E e \in Element \cup {None}, x \in Text \cup Comment \cup {None} :
            SetInnerHTML(p, e, x)
  \/ \E d \in born \cap Document, n \in Element : CreateElement(d, n)
  \/ \E d \in born \cap Document, n \in Text \cup Comment : CreateText(d, n)
  \/ \E d \in born \cap Document, n \in Fragment : CreateDocumentFragment(d, n)
  \/ \E n \in born, c \in Node : CloneNode(n, c)
  \/ \E d \in Document, h \in Html : GetOrCreateTaskDocument(d, h)
  \/ \E d \in Document, e \in Elements \cup {None} : ParseHTMLUnsafe(d, e)
  \/ \E t \in Task : BeginTaskScope(t) \/ EndTaskScope(t)
  \/ Ended

Spec == Init /\ [][Next]_vars

-----------------------------------------------------------------------------
\* The type invariant: parents can have children, what a node names as its
\* document can hold the state of one, and tasks have ids (normalizeTaskId).
TypeOK ==
  /\ born \subseteq Node /\ turned \subseteq Elements
  /\ parent \in [Node -> Parents \cup {None}]
  /\ kids \in [Node -> Seq(Node)]
  /\ owner \in [Node -> Holder \cup {None}]
  /\ owned \in [Holder -> SUBSET Node]
  /\ live \subseteq Holder /\ taskOf \in [Holder -> Task \cup {None}]
  /\ primary \in [Task -> Holder \cup {None}]
  /\ currentTaskId \in Task /\ intact \in BOOLEAN

\* A walk along parentNode ends, also in a tree that is damaged: isAncestor,
\* dispatchEvent and getLayoutRoot always return.
WalksEnd ==
  LET Ends[k \in 0 .. Cardinality(Node)] ==
        IF k = 0 THEN {n \in Node : parent[n] = None}
        ELSE LET S == Ends[k-1] IN S \cup {n \in Node : parent[n] \in S}
  IN  Ends[Cardinality(Node)] = Node

\* parentNode and childNodes agree: a parent lists its child, and what hangs
\* in a document is listed once, by its parent.  And no node is below itself:
\* the walks of adoptOwnerDocument end, and every call returns.
LinksAgree ==
  /\ \A n \in Node : parent[n] # None => Contains(kids[parent[n]], n)
  /\ \A d \in Document : \A p \in Subtree(Now, d) :
       /\ \A c \in ToSet(kids[p]) : parent[c] = p
       /\ IsInjective(kids[p])
  /\ \A p \in Node : \A c \in ToSet(kids[p]) : p \notin Subtree(Now, c)

\* Every call changes both sides of a link by hand, on nodes that other calls
\* moved or released.  In every tree the walks to the root end.  And three
\* calls can make the sides disagree, but until one of them has, no call does:
\* a release that clears children of a node it does not clear, such as a
\* fragment; the reparse of a document that owns more than children without
\* children; the registration of an element.
TreeLinks == WalksEnd /\ (intact => LinksAgree)

\* What a document owns names it as its ownerDocument, and all that hangs in
\* a document is owned by it, until one of these three calls: releaseDocument
\* then clears each node of the document and no node of another one.
OwnersAgree ==
  intact =>
    \A d \in Document :
      /\ \A n \in owned[d] : owner[n] = d
      /\ Subtree(Now, d) \ {d} \subseteq owned[d]

\* The registered documents are the current task's, and a task's primary
\* document is registered, for that task: what a task left is not registered
\* when the next one runs, unless a script names it and so registers it anew.
OneTask ==
  /\ \A d \in live : taskOf[d] = currentTaskId
  /\ \A t \in Task : primary[t] # None => primary[t] \in live /\ taskOf[primary[t]] = t

\* insertBefore puts a node before the reference node, also when both are
\* children of one parent (00-dom-shared.impl.js:861 "insert all its children
\* one after another before beforeNode").  It does not hold.
InsertsBefore ==
  [][\A p \in born \cap Parents, c \in born \ Fragment : \A b \in ToSet(kids[p]) \ {c} :
       InsertInto(Now, p, c, b).ok /\ InsertBefore(p, c, b) =>
         \E i \in 1 .. Len(kids'[p]) - 1 : kids'[p][i] = c /\ kids'[p][i+1] = b]_vars
=============================================================================
