------------------------- MODULE ProjectTreeProofs -------------------------
(***************************************************************************)
(* For any number of projects, requests, files and edits:                  *)
(*   - a project with print history is never removed;                      *)
(*   - the projects form a forest and its roots are needed once and have a *)
(*     preset, unless a PATCH writes back a parent that others have        *)
(*     changed since it was read; what the pages derive from the tree then *)
(*     agrees on every page;                                               *)
(*   - the file a row names is in the storage, unless an edit writes back  *)
(*     the name of a file that others have replaced.                       *)
(* Rows and requests have a common invariant (TreeInv); what is said of    *)
(* roots and of files adds a part to it.                                   *)
(***************************************************************************)
EXTENDS ProjectNeeds, FiniteSums

(* What is below a project is closed, and nothing smaller is.              *)
LEMMA SubtreeFacts ==
  ASSUME NEW p \in Projects
  PROVE  /\ p \in Subtree(p) /\ Subtree(p) \subseteq Projects
         /\ ClosedBelow(Subtree(p))
         /\ \A x \in Subtree(p) : x # p => Parent(x) \in Subtree(p) /\ Exists(x)
  <1>. DEFINE B == Subtree(p)
  <1>1. p \in B /\ B \subseteq Projects
    BY DEF Subtree
  <1>2. ClosedBelow(B)
    <2>. SUFFICES ASSUME NEW q \in Projects, Parent(q) \in B, NEW S \in SUBSET Projects, p \in S, ClosedBelow(S)
                  PROVE  q \in S
      BY DEF ClosedBelow, Subtree
    <2>1. Parent(q) \in S
      BY DEF Subtree
    <2>. QED BY <2>1 DEF ClosedBelow
  <1>3. ASSUME NEW x \in B, x # p, Parent(x) \notin B PROVE FALSE
    <2>. DEFINE S == B \ {x}
    <2>1. p \in S /\ S \in SUBSET Projects
      BY <1>1, <1>3
    <2>2. ClosedBelow(S)
      BY <1>2, <1>3 DEF ClosedBelow
    <2>3. x \in S
      BY <1>3, <2>1, <2>2 DEF Subtree
    <2>. QED BY <2>3
  <1>4. \A x \in B : x # p => Parent(x) \in B /\ Exists(x)
    BY <1>1, <1>3, ConstantsAssumption DEF Parent
  <1>. QED BY <1>1, <1>2, <1>4

(* A project moved below one that is not below itself leaves a forest.     *)
LEMMA MoveKeepsForest ==
  ASSUME Forest, NEW p \in Projects, NEW q \in Projects \cup {None}, q # None => IsOutside(p, q),
         Parent(p)' = q, \A x \in Projects \ {p} : Parent(x)' = Parent(x)
  PROVE  Forest'
  <1>. SUFFICES ASSUME NEW S \in SUBSET Projects, S # {}, \A x \in S : Parent(x)' \in S PROVE FALSE
    BY DEF Forest
  <1>1. CASE p \notin S
    BY <1>1 DEF Forest
  <1>2. CASE p \in S
    <2>. DEFINE T == S \ Subtree(p)
    <2>1. q \in T
      BY <1>2, ConstantsAssumption DEF IsOutside
    <2>2. \A x \in T : x # p /\ Parent(x) \in S
      BY SubtreeFacts
    <2>3. \A x \in T : Parent(x) \in T
      BY <2>2, SubtreeFacts DEF ClosedBelow
    <2>. QED BY <2>1, <2>3 DEF Forest
  <1>. QED BY <1>1, <1>2

(* Removing projects with everything below them leaves a forest.           *)
LEMMA RemovalKeepsForest ==
  ASSUME Forest, \A x \in Projects : Parent(x)' \in {Parent(x), None}
  PROVE  Forest'
  BY ConstantsAssumption DEF Forest

(* In a forest a parent is not below its child.                            *)
LEMMA ParentIsOutside ==
  ASSUME Forest, NEW p \in Projects, Parent(p) # None
  PROVE  IsOutside(p, Parent(p))
  <1>. SUFFICES ASSUME Parent(p) \in Subtree(p) PROVE FALSE
    BY DEF IsOutside
  <1>1. \A x \in Subtree(p) : Parent(x) \in Subtree(p)
    BY SubtreeFacts
  <1>. QED BY <1>1, SubtreeFacts DEF Forest

-----------------------------------------------------------------------------
NodesShape ==
    /\ node \in [Projects -> Row \cup {None}]
    /\ \A p \in Projects : Parent(p) # None => Exists(Parent(p))

(* What a copy has read hangs below its top, as a tree where stale parents *)
(* are not written back.                                                   *)
SnapshotShape(q) ==
    /\ q.project \in DOMAIN q.nodes /\ DOMAIN q.nodes \subseteq Projects
    /\ q.target \in Projects \cup {None}
    /\ q.nodes \in [DOMAIN q.nodes -> Row]
    /\ \A x \in DOMAIN q.nodes : x # q.project => q.nodes[x].parent \in DOMAIN q.nodes
    /\ StaleMoves \/ \A S \in SUBSET DOMAIN q.nodes :
                        S # {} => \E x \in S : x = q.project \/ q.nodes[x].parent \notin S

FilesShape(q) == q.files \in [DOMAIN q.nodes -> Files \cup {None}]

RequestsShape ==
    /\ DOMAIN request = Requests
    /\ \A r \in Requests :
          /\ request[r].at \in {"idle", "loaded", "copying", "copied"}
          /\ request[r].at = "loaded" => request[r].project \in Projects /\ request[r].seen \in Row
          /\ request[r].at \in {"copying", "copied"} => SnapshotShape(request[r])
          /\ request[r].at = "copied" => FilesShape(request[r])

(* Of rows and requests: what the rest of the proofs builds on.            *)
TreeInv ==
    /\ NodesShape /\ RequestsShape /\ (StaleMoves \/ Forest)
    /\ presets \subseteq Presets
    /\ DOMAIN used = Projects
    /\ \A p \in Projects : used[p] = "history" => Exists(p)

(* The projects there are at the start.                                    *)
LEMMA InitRows ==
  Init => /\ NodesShape /\ Forest
          /\ \A p \in Projects : Exists(p) =>
                /\ Parent(p) = None => node[p].quantity = 1 /\ node[p].preset # None
                /\ node[p].image # None => node[p].image \in stored
  <1>. SUFFICES ASSUME Init
                PROVE  /\ NodesShape /\ Forest
                       /\ \A p \in Projects : Exists(p) =>
                             /\ Parent(p) = None => node[p].quantity = 1 /\ node[p].preset # None
                             /\ node[p].image # None => node[p].image \in stored
    OBVIOUS
  <1>1. PICK parent \in [Existing -> Existing \cup {None}], q \in Quantities, s \in Presets,
             illustrated \in Existing \cup {None}, f \in Files :
             /\ \A S \in SUBSET Existing : S # {} => \E p \in S : parent[p] \notin S
             /\ node = [p \in Projects |->
                          IF p \in Existing
                          THEN [parent |-> parent[p],
                                quantity |-> IF parent[p] = None THEN 1 ELSE q,
                                preset |-> IF parent[p] = None THEN s ELSE None,
                                image |-> IF p = illustrated THEN f ELSE None]
                          ELSE None]
             /\ stored = IF illustrated = None THEN {} ELSE {f}
    BY Zenon DEF Init
  <1>2. ASSUME NEW p \in Existing
        PROVE  /\ node[p] \in Row /\ node[p].parent = parent[p]
               /\ parent[p] = None => node[p].quantity = 1 /\ node[p].preset # None
               /\ node[p].image # None => node[p].image \in stored
    <2>1. p \in Projects /\ p # None /\ parent[p] \in Projects \cup {None}
      BY ConstantsAssumption
    <2>2. node[p] = [parent |-> parent[p], quantity |-> IF parent[p] = None THEN 1 ELSE q,
                     preset |-> IF parent[p] = None THEN s ELSE None,
                     image |-> IF p = illustrated THEN f ELSE None]
      BY <1>1, <2>1
    <2>3. node[p] \in Row
      BY <2>1, <2>2, ConstantsAssumption DEF Row
    <2>4. node[p].image # None => p = illustrated /\ node[p].image = f
      BY <2>2
    <2>5. node[p].image # None => node[p].image \in stored
      BY <1>1, <2>1, <2>4
    <2>. QED BY <2>2, <2>3, <2>5, ConstantsAssumption
  <1>3. \A p \in Projects \ Existing : node[p] = None
    BY <1>1
  <1>4. \A p \in Projects : Parent(p) = IF p \in Existing THEN parent[p] ELSE None
    BY <1>2, <1>3, NoneAssumption DEF Parent, Exists
  <1>5. NodesShape
    <2>1. node \in [Projects -> Row \cup {None}]
      BY <1>1, <1>2, <1>3
    <2>2. \A p \in Projects : Parent(p) # None => Exists(Parent(p))
      BY <1>2, <1>4, ConstantsAssumption, NoneAssumption DEF Exists
    <2>. QED BY <2>1, <2>2 DEF NodesShape
  <1>6. Forest
    <2>. SUFFICES ASSUME NEW S \in SUBSET Projects, S # {}, \A p \in S : Parent(p) \in S PROVE FALSE
      BY DEF Forest
    <2>1. S \subseteq Existing
      BY <1>4, ConstantsAssumption
    <2>. QED BY <1>1, <1>4, <2>1
  <1>7. \A p \in Projects : Exists(p) => p \in Existing /\ Parent(p) = parent[p]
    BY <1>3, <1>4 DEF Exists
  <1>. QED BY <1>2, <1>5, <1>6, <1>7

(* The invariant holds at the start.                                       *)
LEMMA InitTreeInv == Init => TreeInv
  <1>. SUFFICES ASSUME Init PROVE TreeInv
    OBVIOUS
  <1>1. RequestsShape
    BY DEF Init, RequestsShape, Idle
  <1>. QED BY <1>1, InitRows DEF Init, TreeInv

(* A request that changes leaves the others as they are.                   *)
LEMMA RequestUpdate ==
  ASSUME RequestsShape, NEW r \in Requests, NEW q, request' = [request EXCEPT ![r] = q],
         q.at \in {"idle", "loaded", "copying", "copied"},
         q.at = "loaded" => q.project \in Projects /\ q.seen \in Row,
         q.at \in {"copying", "copied"} => SnapshotShape(q),
         q.at = "copied" => FilesShape(q)
  PROVE  RequestsShape'
  BY DEF RequestsShape, SnapshotShape, FilesShape

(* Nor does a step of users who have no request.                           *)
LEMMA RequestsKept == ASSUME RequestsShape, UNCHANGED request PROVE RequestsShape'
  BY DEF RequestsShape, SnapshotShape, FilesShape

(* A request that ends is as good as new.                                  *)
LEMMA RequestDone ==
  ASSUME RequestsShape, NEW r \in Requests, request' = [request EXCEPT ![r] = Idle]
  PROVE  RequestsShape'
  BY RequestUpdate DEF Idle

-----------------------------------------------------------------------------
(* The whole row is written.                                               *)
LEMMA SaveStep ==
  ASSUME TreeInv, NEW r \in Requests, NEW saved \in Row, request[r].at = "loaded", Save(r, saved),
         StaleMoves \/ (saved.parent # None => IsOutside(request[r].project, saved.parent))
  PROVE  TreeInv'
  <1>1. PICK p \in Projects : p = request[r].project /\ node' = [node EXCEPT ![p] = saved]
    BY DEF TreeInv, RequestsShape, Save
  <1>2. /\ DOMAIN node = Projects /\ node \in [Projects -> Row \cup {None}]
        /\ \A x \in Projects : Parent(x) # None => Exists(Parent(x))
    BY DEF TreeInv, NodesShape
  <1>3. saved.parent \in Projects \cup {None} /\ (saved.parent # None => Exists(saved.parent))
    BY DEF Save, Referable, Row
  <1>4. /\ \A x \in Projects : Exists(x) => Exists(x)'
        /\ Parent(p)' = saved.parent /\ \A x \in Projects \ {p} : Parent(x)' = Parent(x)
    BY <1>1, <1>2, NoneAssumption DEF Exists, Parent
  <1>5. StaleMoves \/ Forest'
    <2>. SUFFICES ASSUME ~StaleMoves PROVE Forest'
      OBVIOUS
    <2>. QED BY <1>1, <1>3, <1>4, MoveKeepsForest DEF TreeInv
  <1>6. NodesShape'
    <2>1. node' \in [Projects -> Row \cup {None}]
      BY <1>1, <1>2
    <2>2. \A x \in Projects : Parent(x) \in Projects \cup {None}
      BY <1>2 DEF Parent, Exists, Row
    <2>3. ASSUME NEW x \in Projects, Parent(x)' # None PROVE Exists(Parent(x))'
      <3>1. PICK y \in Projects : y = Parent(x)' /\ Exists(y)
        BY <1>2, <1>3, <1>4, <2>2, <2>3
      <3>2. Exists(y)'
        BY <1>4, <3>1
      <3>. QED BY <3>1, <3>2 DEF Exists
    <2>. QED BY <2>1, <2>3 DEF NodesShape
  <1>7. RequestsShape'
    BY RequestDone DEF TreeInv, Save
  <1>. QED BY <1>4, <1>5, <1>6, <1>7 DEF TreeInv, Save

(* The rows of a copy are inserted: a group of projects that keeps to      *)
(* itself would have to be one of what was read, or of the old rows.       *)
LEMMA InsertRowsStep ==
  ASSUME NodesShape, StaleMoves \/ Forest, NEW nodes, NEW p \in Projects, NEW q \in Projects \cup {None}, NEW files,
         p \in DOMAIN nodes, DOMAIN nodes \subseteq Projects,
         nodes \in [DOMAIN nodes -> Row], files \in [DOMAIN nodes -> Files \cup {None}],
         \A x \in DOMAIN nodes : x # p => nodes[x].parent \in DOMAIN nodes,
         StaleMoves \/ \A S \in SUBSET DOMAIN nodes : S # {} => \E x \in S : x = p \/ nodes[x].parent \notin S,
         q # None => Exists(q), InsertRows(nodes, p, q, files)
  PROVE  NodesShape' /\ (StaleMoves \/ Forest') /\ \A x \in Projects : Exists(x) => Exists(x)'
  <1>3. PICK id \in [DOMAIN nodes -> {x \in Projects : ~Exists(x)}] :
           /\ \A x, y \in DOMAIN nodes : id[x] = id[y] => x = y
           /\ node' = [y \in Projects |->
                         IF \E x \in DOMAIN nodes : id[x] = y
                         THEN LET x == CHOOSE z \in DOMAIN nodes : id[z] = y
                              IN  [nodes[x] EXCEPT !.parent = IF x = p THEN q ELSE id[@], !.image = files[x]]
                         ELSE node[y]]
    BY Zenon DEF InsertRows
  <1>. DEFINE New == {id[x] : x \in DOMAIN nodes}
  <1>5. ASSUME NEW x \in DOMAIN nodes
        PROVE  /\ id[x] \in Projects /\ ~Exists(id[x])
               /\ node'[id[x]] = [nodes[x] EXCEPT !.parent = IF x = p THEN q ELSE id[@], !.image = files[x]]
    <2>1. id[x] \in Projects /\ ~Exists(id[x])
      BY <1>3
    <2>2. (CHOOSE z \in DOMAIN nodes : id[z] = id[x]) = x
      BY <1>3
    <2>. QED BY <1>3, <2>1, <2>2
  <1>6. \A y \in Projects \ New : node'[y] = node[y]
    BY <1>3
  <1>7. ASSUME NEW x \in DOMAIN nodes
        PROVE  node'[id[x]] \in Row /\ node'[id[x]].parent = IF x = p THEN q ELSE id[nodes[x].parent]
    <2>. DEFINE up == IF x = p THEN q ELSE id[nodes[x].parent]
    <2>1. nodes[x] \in Row /\ files[x] \in Files \cup {None} /\ up \in Projects \cup {None}
      BY <1>5
    <2>2. node'[id[x]] = [nodes[x] EXCEPT !.parent = up, !.image = files[x]]
      BY <1>5
    <2>. HIDE DEF up
    <2>3. [nodes[x] EXCEPT !.parent = up, !.image = files[x]] \in Row
          /\ [nodes[x] EXCEPT !.parent = up, !.image = files[x]].parent = up
      BY <2>1 DEF Row
    <2>. QED BY <2>2, <2>3 DEF up
  <1>8. /\ node \in [Projects -> Row \cup {None}]
        /\ \A x \in Projects : Parent(x) # None => Exists(Parent(x))
        /\ \A x \in Projects : Parent(x) \in Projects \cup {None}
    BY DEF NodesShape, Parent, Exists, Row
  <1>9. node' \in [Projects -> Row \cup {None}] /\ \A x \in Projects : Exists(x) => x \notin New
    <2>1. ASSUME NEW x \in Projects, Exists(x), x \in New PROVE FALSE
      <3>1. PICK z \in DOMAIN nodes : x = id[z]
        BY <2>1
      <3>. QED BY <1>5, <2>1, <3>1 DEF Exists
    <2>2. \A y \in New : node'[y] \in Row
      BY <1>7
    <2>3. \A y \in Projects : node'[y] \in Row \cup {None}
      BY <1>6, <1>8, <2>2
    <2>4. node' = [y \in Projects |-> node'[y]]
      BY <1>3, Zenon
    <2>. QED BY <2>1, <2>3, <2>4
  <1>10. /\ \A x \in Projects : Exists(x) => Exists(x)'
         /\ \A x \in Projects \ New : Parent(x)' = Parent(x)
         /\ \A x \in DOMAIN nodes : Exists(id[x])' /\ Parent(id[x])' = IF x = p THEN q ELSE id[nodes[x].parent]
    <2>1. \A x \in Projects : Exists(x) => Exists(x)'
      BY <1>6, <1>9 DEF Exists
    <2>2. \A x \in Projects \ New : Parent(x)' = Parent(x)
      BY <1>6 DEF Exists, Parent
    <2>3. ASSUME NEW x \in DOMAIN nodes
          PROVE  Exists(id[x])' /\ Parent(id[x])' = IF x = p THEN q ELSE id[nodes[x].parent]
      <3>1. node'[id[x]] # None
        BY <1>7, NoneAssumption
      <3>. QED BY <1>7, <3>1 DEF Exists, Parent
    <2>. QED BY <2>1, <2>2, <2>3
  <1>11. NodesShape'
    <2>1. ASSUME NEW x \in Projects, Parent(x)' # None PROVE Exists(Parent(x))'
      <3>1. CASE x \notin New
        <4>1. PICK y \in Projects : y = Parent(x)' /\ Exists(y)
          BY <1>8, <1>10, <2>1, <3>1
        <4>. QED BY <1>10, <4>1 DEF Exists
      <3>2. ASSUME NEW z \in DOMAIN nodes, x = id[z] PROVE Exists(Parent(x))'
        <4>1. PICK y \in Projects : y = Parent(x)' /\ Exists(y)'
          BY <1>5, <1>10, <2>1, <3>2
        <4>. QED BY <4>1 DEF Exists
      <3>. QED BY <3>1, <3>2
    <2>. QED BY <1>9, <2>1 DEF NodesShape
  <1>12. StaleMoves \/ Forest'
    <2>. SUFFICES ASSUME ~StaleMoves, NEW S \in SUBSET Projects, S # {}, \A x \in S : Parent(x)' \in S PROVE FALSE
      BY DEF Forest
    <2>1. CASE S \cap New = {}
      BY <1>10, <2>1 DEF Forest
    <2>2. CASE S \cap New # {}
      <3>. DEFINE T == {x \in DOMAIN nodes : id[x] \in S}
      <3>0. T \in SUBSET DOMAIN nodes /\ T # {}
        BY <2>2
      <3>1. PICK x \in T : x = p \/ nodes[x].parent \notin T
        BY <3>0
      <3>2. x = p
        BY <1>10, <3>1
      <3>3. q \in S /\ q \notin New
        BY <1>9, <1>10, <3>1, <3>2, ConstantsAssumption
      <3>. DEFINE U == S \ New
      <3>4. \A y \in U : Parent(y) \in U
        <4>1. \A y \in U : Parent(y) \in S /\ Parent(y) # None
          BY <1>10, ConstantsAssumption
        <4>. QED BY <1>8, <1>9, <4>1
      <3>. QED BY <3>3, <3>4 DEF Forest
    <2>. QED BY <2>1, <2>2
  <1>. QED BY <1>10, <1>11, <1>12

(* The rows of a copy go below a project that is not one of them.          *)
LEMMA InsertStep ==
  ASSUME TreeInv, NEW r \in Requests, InsertCopy(r)
  PROVE  TreeInv'
  <1>1. /\ request[r].at = "copied" /\ SnapshotShape(request[r]) /\ FilesShape(request[r])
        /\ request[r].project \in Projects /\ request[r].target \in Projects \cup {None}
    BY DEF TreeInv, RequestsShape, InsertCopy, SnapshotShape
  <1>2. NodesShape' /\ (StaleMoves \/ Forest') /\ \A x \in Projects : Exists(x) => Exists(x)'
    BY <1>1, InsertRowsStep DEF TreeInv, InsertCopy, SnapshotShape, FilesShape
  <1>3. RequestsShape'
    BY RequestDone DEF TreeInv, InsertCopy
  <1>. QED BY <1>2, <1>3 DEF TreeInv, InsertCopy

(* What is read of a subtree is a tree below its top.                      *)
LEMMA BeginStep ==
  ASSUME TreeInv, NEW r \in Requests, NEW p \in Projects, NEW q \in Projects \cup {None}, BeginCopy(r, p, q)
  PROVE  RequestsShape'
  <1>. DEFINE B == Subtree(p)
              top == [node[p] EXCEPT !.parent = q, !.preset = TopPreset(p, q),
                                     !.quantity = IF q = None THEN 1 ELSE @]
              nodes == [x \in B |-> IF x = p THEN top ELSE node[x]]
              new == [Idle EXCEPT !.at = "copying", !.project = p, !.target = q, !.nodes = nodes]
  <1>1. /\ Exists(p) /\ request' = [request EXCEPT ![r] = new]
    BY DEF BeginCopy
  <1>2. /\ p \in B /\ B \subseteq Projects
        /\ \A x \in B : x # p => Parent(x) \in B /\ Exists(x)
    BY SubtreeFacts
  <1>3. node \in [Projects -> Row \cup {None}]
    BY DEF TreeInv, NodesShape
  <1>4. \A x \in Projects : Exists(x) => node[x] \in Row
    BY <1>3 DEF Exists
  <1>5. TopPreset(p, q) \in Presets \cup {None}
    <2>. DEFINE Above == {a \in Projects : a # p /\ Exists(a) /\ p \in Subtree(a) /\ node[a].preset # None}
                Nearest == {a \in Above : \A b \in Above : a \in Subtree(b)}
    <2>1. ASSUME Nearest # {} PROVE node[CHOOSE a \in Nearest : TRUE].preset \in Presets \cup {None}
      <3>1. (CHOOSE a \in Nearest : TRUE) \in Nearest
        BY <2>1
      <3>2. \A a \in Nearest : node[a] \in Row
        BY <1>4
      <3>. HIDE DEF Nearest
      <3>. QED BY <3>1, <3>2 DEF Row
    <2>2. node[p].preset \in Presets \cup {None}
      BY <1>1, <1>4 DEF Row
    <2>. QED BY <2>1, <2>2 DEF TopPreset, EffectivePreset
  <1>6. top \in Row
    <2>. DEFINE s == TopPreset(p, q)
                n == IF q = None THEN 1 ELSE node[p].quantity
    <2>1. node[p] \in Row /\ n \in Quantities /\ s \in Presets \cup {None}
      BY <1>1, <1>4, <1>5, ConstantsAssumption DEF Row
    <2>2. top = [node[p] EXCEPT !.parent = q, !.preset = s, !.quantity = n]
      OBVIOUS
    <2>. HIDE DEF s, n, top
    <2>. QED BY <2>1, <2>2 DEF Row
  <1>7. nodes \in [B -> Row] /\ \A x \in B : x # p => nodes[x].parent = Parent(x)
    <2>. HIDE DEF top, B
    <2>. QED BY <1>2, <1>4, <1>6 DEF Parent
  <1>8. new.at = "copying" /\ new.project = p /\ new.target = q /\ new.nodes = nodes
    BY DEF Idle
  <1>9. StaleMoves \/ \A S \in SUBSET B : S # {} => \E x \in S : x = p \/ nodes[x].parent \notin S
    <2>. SUFFICES ASSUME ~StaleMoves, NEW S \in SUBSET B, S # {}, \A x \in S : x # p /\ nodes[x].parent \in S PROVE FALSE
      OBVIOUS
    <2>. HIDE DEF nodes, B
    <2>1. \A x \in S : Parent(x) \in S
      BY <1>7
    <2>. QED BY <1>2, <2>1 DEF TreeInv, Forest
  <1>10. SnapshotShape(new)
    <2>. HIDE DEF nodes, new, B
    <2>. QED BY <1>2, <1>7, <1>8, <1>9 DEF SnapshotShape
  <1>. HIDE DEF new
  <1>. QED BY <1>1, <1>8, <1>10, RequestUpdate DEF TreeInv

(* Steps that leave every row where it is.                                 *)
LEMMA TreeKept ==
  ASSUME TreeInv, UNCHANGED <<node, presets, used>>, RequestsShape'
  PROVE  TreeInv'
  BY DEF TreeInv, NodesShape, Exists, Parent, Forest

(* What a copy has written is a file for each project it has read.         *)
LEMMA CopyFilesStep ==
  ASSUME TreeInv, NEW r \in Requests, CopyFiles(r)
  PROVE  RequestsShape'
  <1>. DEFINE nodes == request[r].nodes
              found == {x \in DOMAIN nodes : nodes[x].image \in stored}
  <1>1. PICK name \in [found -> FreshNames] :
           request' = [request EXCEPT ![r] =
                         [Idle EXCEPT !.at = "copied", !.project = request[r].project,
                            !.target = request[r].target, !.nodes = nodes,
                            !.files = [x \in DOMAIN nodes |-> IF x \in found THEN name[x] ELSE None]]]
    BY DEF CopyFiles
  <1>. DEFINE files == [x \in DOMAIN nodes |-> IF x \in found THEN name[x] ELSE None]
              new == [Idle EXCEPT !.at = "copied", !.project = request[r].project,
                        !.target = request[r].target, !.nodes = nodes, !.files = files]
  <1>2. request[r].at = "copying" /\ SnapshotShape(request[r])
    BY DEF TreeInv, RequestsShape, CopyFiles
  <1>3. files \in [DOMAIN nodes -> Files \cup {None}]
    BY <1>1 DEF FreshNames
  <1>4. new.at = "copied" /\ new.project = request[r].project /\ new.target = request[r].target
        /\ new.nodes = nodes /\ new.files = files
    BY DEF Idle
  <1>5. request' = [request EXCEPT ![r] = new]
    BY <1>1
  <1>. HIDE DEF files, new
  <1>6. SnapshotShape(new) /\ FilesShape(new)
    BY <1>2, <1>3, <1>4 DEF SnapshotShape, FilesShape
  <1>. QED BY <1>4, <1>5, <1>6, RequestUpdate DEF TreeInv

-----------------------------------------------------------------------------
(* Every step keeps what is known of rows and requests.                    *)
LEMMA StepTreeInv == TreeInv /\ [Next]_vars => TreeInv'
  <1>. SUFFICES ASSUME TreeInv, [Next]_vars PROVE TreeInv'
    OBVIOUS
  <1>0. /\ node \in [Projects -> Row \cup {None}]
        /\ \A p \in Projects : (Exists(p) => node[p] \in Row) /\ Parent(p) \in Projects \cup {None}
        /\ \A p \in Projects : Parent(p) # None => Exists(Parent(p))
    BY DEF TreeInv, NodesShape, Exists, Parent, Row
  <1>1. ASSUME NEW r \in Requests, NEW p \in Projects, LoadEdit(r, p) PROVE TreeInv'
    <2>. DEFINE new == [Idle EXCEPT !.at = "loaded", !.project = p, !.seen = node[p],
                                    !.hop = IF Parent(p) = None THEN None ELSE Parent(Parent(p))]
    <2>1. new.at = "loaded" /\ new.project = p /\ new.seen \in Row
      BY <1>0, <1>1 DEF LoadEdit, Idle
    <2>2. request' = [request EXCEPT ![r] = new]
      BY <1>1 DEF LoadEdit
    <2>. HIDE DEF new
    <2>3. RequestsShape'
      BY <2>1, <2>2, RequestUpdate DEF TreeInv
    <2>. QED BY <1>1, <2>3, TreeKept DEF LoadEdit
  <1>2. ASSUME NEW r \in Requests, NEW p \in Projects, NEW q \in Projects \cup {None}, BeginCopy(r, p, q)
        PROVE  TreeInv'
    BY <1>2, BeginStep, TreeKept DEF BeginCopy
  <1>3. ASSUME NEW r \in Requests, SaveForm(r) PROVE TreeInv'
    <2>1. PICK q \in Projects \cup {None}, n \in Quantities, s \in presets \cup {None},
               f \in FreshNames \cup {None, request[r].seen.image} :
             /\ q # None => IsOutside(request[r].project, q)
             /\ Save(r, [parent |-> q, quantity |-> n, preset |-> s, image |-> f])
      BY <1>3 DEF SaveForm
    <2>2. request[r].at = "loaded" /\ request[r].seen \in Row /\ presets \subseteq Presets
      BY <1>3 DEF SaveForm, TreeInv, RequestsShape
    <2>3. [parent |-> q, quantity |-> n, preset |-> s, image |-> f] \in Row
      BY <2>2 DEF Row, FreshNames
    <2>. QED BY <2>1, <2>2, <2>3, SaveStep
  <1>4. ASSUME NEW r \in Requests, PatchParent(r) PROVE TreeInv'
    <2>1. PICK q \in Projects \cup {None}, n \in Quantities, s \in presets \cup {None} :
             /\ q # None => IsOutside(request[r].project, q)
             /\ Save(r, [request[r].seen EXCEPT !.parent = q, !.quantity = n, !.preset = s])
      BY <1>4 DEF PatchParent
    <2>2. request[r].at = "loaded" /\ request[r].seen \in Row /\ presets \subseteq Presets
      BY <1>4 DEF PatchParent, TreeInv, RequestsShape
    <2>. DEFINE saved == [request[r].seen EXCEPT !.parent = q, !.quantity = n, !.preset = s]
    <2>3. saved \in Row /\ saved.parent = q
      BY <2>2 DEF Row
    <2>. HIDE DEF saved
    <2>. QED BY <2>1, <2>2, <2>3, SaveStep DEF saved
  <1>5. ASSUME NEW r \in Requests, PatchFields(r) PROVE TreeInv'
    <2>1. PICK n \in Quantities, s \in presets \cup {None} :
             Save(r, [request[r].seen EXCEPT !.quantity = n, !.preset = s])
      BY <1>5 DEF PatchFields
    <2>2. request[r].at = "loaded" /\ request[r].seen \in Row /\ presets \subseteq Presets
          /\ request[r].project \in Projects
      BY <1>5 DEF PatchFields, TreeInv, RequestsShape
    <2>. DEFINE saved == [request[r].seen EXCEPT !.quantity = n, !.preset = s]
    <2>3. saved \in Row /\ (StaleMoves \/ saved.parent = Parent(request[r].project))
      BY <1>5, <2>2 DEF PatchFields, ParentIsCurrent, Row
    <2>4. StaleMoves \/ (saved.parent # None => IsOutside(request[r].project, saved.parent))
      BY <2>2, <2>3, ParentIsOutside DEF TreeInv
    <2>. HIDE DEF saved
    <2>. QED BY <2>1, <2>2, <2>3, <2>4, SaveStep DEF saved
  <1>6. ASSUME NEW r \in Requests, CopyFiles(r) PROVE TreeInv'
    BY <1>6, CopyFilesStep, TreeKept DEF CopyFiles
  <1>7. ASSUME NEW r \in Requests, InsertCopy(r) PROVE TreeInv'
    BY <1>7, InsertStep
  <1>8. ASSUME NEW r \in Requests, FailCopy(r) \/ Abandon(r) PROVE TreeInv'
    <2>1. RequestsShape'
      BY <1>8, RequestDone DEF FailCopy, Abandon, TreeInv
    <2>. QED BY <1>8, <2>1, TreeKept DEF FailCopy, Abandon
  <1>9. CASE Create
    <2>1. PICK p \in Projects, q \in Projects \cup {None}, n \in Quantities, s \in presets \cup {None},
               f \in FreshNames \cup {None} :
             /\ ~Exists(p) /\ Referable(q, s) /\ IsProper(q, s, n)
             /\ node' = [node EXCEPT ![p] = [parent |-> q, quantity |-> n, preset |-> s, image |-> f]]
             /\ stored' = stored \cup ({f} \ {None})
      BY <1>9, Zenon DEF Create
    <2>. DEFINE new == [parent |-> q, quantity |-> n, preset |-> s, image |-> f]
    <2>0. presets \subseteq Presets
      BY DEF TreeInv
    <2>2. new \in Row /\ new.parent = q
      BY <2>0 DEF Row, FreshNames
    <2>. HIDE DEF new
    <2>3. /\ node' = [node EXCEPT ![p] = new] /\ q # p
          /\ (q # None => Exists(q))
      BY <2>1, ConstantsAssumption DEF Referable, new
    <2>4. /\ \A x \in Projects : Exists(x) => Exists(x)'
          /\ Parent(p)' = q /\ \A x \in Projects \ {p} : Parent(x)' = Parent(x)
      BY <1>0, <2>2, <2>3, NoneAssumption DEF Exists, Parent
    <2>5. q # None => IsOutside(p, q)
      <3>. SUFFICES ASSUME q \in Subtree(p), q # None PROVE FALSE
        BY DEF IsOutside
      <3>1. ASSUME NEW x \in Projects, Parent(x) = p PROVE FALSE
        BY <1>0, <2>1, <3>1, ConstantsAssumption
      <3>2. ClosedBelow({p})
        BY <3>1 DEF ClosedBelow
      <3>. QED BY <2>3, <3>2 DEF Subtree
    <2>6. StaleMoves \/ Forest'
      <3>. SUFFICES ASSUME ~StaleMoves PROVE Forest'
        OBVIOUS
      <3>. QED BY <2>4, <2>5, MoveKeepsForest DEF TreeInv
    <2>7. NodesShape'
      <3>1. node' \in [Projects -> Row \cup {None}]
        BY <1>0, <2>2, <2>3
      <3>2. ASSUME NEW x \in Projects, Parent(x)' # None PROVE Exists(Parent(x))'
        <4>1. PICK y \in Projects : y = Parent(x)' /\ Exists(y)
          BY <1>0, <2>3, <2>4, <3>2
        <4>. QED BY <2>4, <4>1 DEF Exists
      <3>. QED BY <3>1, <3>2 DEF NodesShape
    <2>8. RequestsShape'
      BY <1>9, RequestsKept DEF Create, TreeInv
    <2>. QED BY <1>9, <2>4, <2>6, <2>7, <2>8 DEF Create, TreeInv
  <1>10. ASSUME NEW p \in Projects, UseParts(p) \/ BookPrinted(p) \/ RemoveBooking(p) PROVE TreeInv'
    <2>1. UNCHANGED <<node, presets, request>>
      BY <1>10 DEF UseParts, BookPrinted, RemoveBooking
    <2>2. RequestsShape'
      BY <2>1, RequestsKept DEF TreeInv
    <2>3. \A x \in Projects : used'[x] = "history" => used[x] = "history" \/ x = p
      BY <1>10 DEF UseParts, BookPrinted, RemoveBooking, TreeInv
    <2>4. DOMAIN used' = Projects /\ Exists(p)
      BY <1>10 DEF UseParts, BookPrinted, RemoveBooking, TreeInv
    <2>. QED BY <2>1, <2>2, <2>3, <2>4 DEF TreeInv, NodesShape, Exists, Parent, Forest
  <1>11. ASSUME NEW p \in Projects, Delete(p) PROVE TreeInv'
    <2>. DEFINE B == Subtree(p)
    <2>1. \A x \in Projects : node'[x] = IF x \in B THEN None ELSE node[x]
      BY <1>11 DEF Delete
    <2>2. \A x \in Projects : Parent(x)' = IF x \in B THEN None ELSE Parent(x)
      BY <2>1 DEF Parent, Exists
    <2>3. StaleMoves \/ Forest'
      BY <2>2, RemovalKeepsForest DEF TreeInv
    <2>4. NodesShape'
      <3>1. node' \in [Projects -> Row \cup {None}]
        BY <1>0, <1>11 DEF Delete
      <3>2. ASSUME NEW x \in Projects, Parent(x)' # None PROVE Exists(Parent(x))'
        <4>1. PICK y \in Projects : y = Parent(x)' /\ y = Parent(x) /\ Exists(y) /\ x \notin B
          BY <1>0, <2>2, <3>2
        <4>2. y \notin B
          BY <4>1, SubtreeFacts DEF ClosedBelow
        <4>. QED BY <2>1, <4>1, <4>2 DEF Exists
      <3>. QED BY <3>1, <3>2 DEF NodesShape
    <2>5. RequestsShape'
      BY <1>11, RequestsKept DEF Delete, TreeInv
    <2>6. \A x \in Projects : used'[x] = "history" => used[x] = "history" /\ x \notin B
      BY <1>11 DEF Delete
    <2>7. \A x \in Projects : used'[x] = "history" => Exists(x)'
      BY <2>1, <2>6 DEF TreeInv, Exists
    <2>. QED BY <1>11, <2>3, <2>4, <2>5, <2>7 DEF Delete, TreeInv
  <1>12. ASSUME NEW s \in Presets, DeletePreset(s) PROVE TreeInv'
    <2>1. ASSUME NEW p \in Projects, Exists(p)
          PROVE  [node[p] EXCEPT !.preset = None] \in Row
                 /\ [node[p] EXCEPT !.preset = None].parent = node[p].parent
      BY <1>0, <2>1 DEF Row
    <2>2. \A p \in Projects : node'[p] = node[p] \/ (Exists(p) /\ node'[p] = [node[p] EXCEPT !.preset = None])
      BY <1>12 DEF DeletePreset
    <2>3. \A p \in Projects : (Exists(p)' <=> Exists(p)) /\ Parent(p)' = Parent(p)
      BY <2>1, <2>2, NoneAssumption DEF Exists, Parent
    <2>4. node' \in [Projects -> Row \cup {None}]
      BY <1>0, <1>12, <2>1 DEF DeletePreset
    <2>5. NodesShape'
      <3>1. ASSUME NEW x \in Projects, Parent(x)' # None PROVE Exists(Parent(x))'
        <4>1. PICK y \in Projects : y = Parent(x)' /\ Exists(y)'
          BY <1>0, <2>3, <3>1
        <4>. QED BY <4>1 DEF Exists
      <3>. QED BY <2>4, <3>1 DEF NodesShape
    <2>6. StaleMoves \/ Forest'
      BY <2>3, RemovalKeepsForest DEF TreeInv
    <2>7. RequestsShape'
      BY <1>12, RequestsKept DEF DeletePreset, TreeInv
    <2>. QED BY <1>12, <2>3, <2>5, <2>6, <2>7 DEF DeletePreset, TreeInv
  <1>13. CASE Scan \/ (\E f \in Files : DeleteDoomed(f) \/ Age(f) \/ CleanUp(f)) \/ UNCHANGED vars
    <2>1. UNCHANGED <<node, presets, used, request>>
      BY <1>13 DEF Scan, DeleteDoomed, Age, CleanUp, vars
    <2>2. RequestsShape'
      BY <2>1, RequestsKept DEF TreeInv
    <2>. QED BY <2>1, <2>2, TreeKept
  <1>. QED BY <1>1, <1>2, <1>3, <1>4, <1>5, <1>6, <1>7, <1>8, <1>9, <1>10, <1>11, <1>12, <1>13
       DEF Next, CopyProject, AddExistingSubproject

(* Whatever users do concurrently, no project is above itself: the check   *)
(* inside the write transactions of ProjectUpdateView and ProjectViewSet   *)
(* suffices, provided a PATCH without a parent leaves the tree as it is.   *)
THEOREM ForestAlways ==
  ASSUME StaleMoves = FALSE PROVE Spec => []Forest
  <1>1. TreeInv => Forest
    BY ConstantsAssumption DEF TreeInv
  <1>. QED BY <1>1, InitTreeInv, StepTreeInv, PTL DEF Spec

(* A project whose parts have print history is not deleted: a delete looks *)
(* at everything that goes with it, in the same transaction.               *)
THEOREM HistoryIsKeptAlways == Spec => HistoryIsKept
  <1>. DEFINE Kept == \A p \in Projects : used[p] = "history" => node'[p] # None
  <1>1. TreeInv /\ TreeInv' /\ [Next]_vars => [Kept]_vars
    <2>. SUFFICES ASSUME TreeInv, TreeInv', Next, NEW p \in Projects, used[p] = "history"
                  PROVE  node'[p] # None
      BY DEF vars
    <2>0. used'[p] = "history" => node'[p] # None
      BY DEF TreeInv, Exists
    <2>1. CASE UNCHANGED used
      BY <2>0, <2>1
    <2>2. ASSUME NEW q \in Projects, UseParts(q) \/ BookPrinted(q) \/ RemoveBooking(q)
          PROVE  node'[p] # None
      <3>1. node' = node
        BY <2>2 DEF UseParts, BookPrinted, RemoveBooking
      <3>. QED BY <3>1 DEF TreeInv, Exists
    <2>3. ASSUME NEW q \in Projects, Delete(q) PROVE node'[p] # None
      BY <2>0, <2>3 DEF Delete, IsRemovable, HistoryBlocks
    <2>4. ASSUME NEW r \in Requests,
                 \/ \E q \in Projects : LoadEdit(r, q)
                 \/ \E q \in Projects, x \in Projects \cup {None} : BeginCopy(r, q, x)
                 \/ CopyFiles(r) \/ InsertCopy(r) \/ FailCopy(r) \/ Abandon(r)
          PROVE  used' = used
      BY <2>4 DEF LoadEdit, BeginCopy, CopyFiles, InsertCopy, FailCopy, Abandon
    <2>5. ASSUME NEW r \in Requests, SaveForm(r) \/ PatchParent(r) \/ PatchFields(r) PROVE used' = used
      BY <2>5 DEF SaveForm, PatchParent, PatchFields, Save
    <2>6. CASE Create \/ Scan \/ (\E s \in Presets : DeletePreset(s))
               \/ (\E f \in Files : DeleteDoomed(f) \/ Age(f) \/ CleanUp(f))
      BY <2>1, <2>6 DEF Create, Scan, DeletePreset, DeleteDoomed, Age, CleanUp
    <2>. QED BY <2>1, <2>2, <2>3, <2>4, <2>5, <2>6
         DEF Next, CopyProject, AddExistingSubproject
  <1>. QED BY <1>1, InitTreeInv, StepTreeInv, PTL DEF Spec, HistoryIsKept

-----------------------------------------------------------------------------
(* Roots: the preset that is found on the way up.                          *)

(* What is below a project below y is below y.                             *)
LEMMA BelowIsTransitive ==
  ASSUME NEW x \in Projects, NEW y \in Projects, NEW p \in Subtree(x), x \in Subtree(y)
  PROVE  p \in Subtree(y)
  <1>1. x \in Subtree(y) /\ Subtree(y) \in SUBSET Projects /\ ClosedBelow(Subtree(y))
    BY SubtreeFacts
  <1>. HIDE DEF Subtree
  <1>2. p \in {q \in Projects : \A S \in SUBSET Projects : x \in S /\ ClosedBelow(S) => q \in S}
    BY DEF Subtree
  <1>. QED BY <1>1, <1>2

(* Among the projects above p there is a lowest one that is below every    *)
(* preset above p.  Its parent is not: so it has a preset itself, or it is *)
(* a root, which has one.                                                  *)
LEMMA PresetIsFound ==
  ASSUME StaleMoves = FALSE, TreeInv, RootsAreProper, presets = Presets, NEW p \in Projects, Exists(p)
  PROVE  EffectivePreset(p) # None
  <1>. DEFINE Above   == {a \in Projects : a # p /\ Exists(a) /\ p \in Subtree(a) /\ node[a].preset # None}
              Nearest == {a \in Above : \A b \in Above : a \in Subtree(b)}
              X == {x \in Projects : Exists(x) /\ p \in Subtree(x) /\ \A b \in Above : x \in Subtree(b)}
  <1>0. \A x \in Projects : Parent(x) # None => Exists(Parent(x)) /\ Parent(x) \in Projects
    BY DEF TreeInv, NodesShape, Parent, Exists, Row
  <1>1. CASE node[p].preset # None
    BY <1>1 DEF EffectivePreset
  <1>2. ASSUME node[p].preset = None PROVE EffectivePreset(p) # None
    <2>1. p \in X
      BY SubtreeFacts
    <2>2. PICK x \in X : Parent(x) \notin X
      <3>1. X \in SUBSET Projects /\ X # {}
        BY <2>1
      <3>. HIDE DEF X
      <3>. QED BY <3>1 DEF TreeInv, Forest
    <2>3. x \in Above
      <3>1. CASE Parent(x) = None
        <4>1. node[x].preset # None
          BY <2>2, <3>1 DEF RootsAreProper
        <4>. QED BY <1>2, <2>2, <4>1
      <3>2. ASSUME Parent(x) # None PROVE x \in Above
        <4>1. Parent(x) \in Projects /\ Exists(Parent(x))
          BY <1>0, <2>2, <3>2
        <4>2. x \in Subtree(Parent(x))
          BY <2>2, <4>1, SubtreeFacts DEF ClosedBelow
        <4>3. p \in Subtree(Parent(x))
          BY <2>2, <4>1, <4>2, BelowIsTransitive
        <4>4. PICK b \in Above : Parent(x) \notin Subtree(b)
          BY <2>2, <4>1, <4>3
        <4>5. b = x
          BY <2>2, <4>4, SubtreeFacts
        <4>. QED BY <4>4, <4>5
      <3>. QED BY <3>1, <3>2
    <2>4. x \in Nearest
      BY <2>2, <2>3
    <2>5. (CHOOSE a \in Nearest : TRUE) \in Above
      BY <2>4
    <2>6. EffectivePreset(p) = node[CHOOSE a \in Nearest : TRUE].preset
      BY <1>2, <2>4 DEF EffectivePreset
    <2>. QED BY <2>5, <2>6
  <1>. QED BY <1>1, <1>2

(* A copy that becomes a root is fit to be one from the moment it is read. *)
TopsAreProper ==
    \A r \in Requests :
        request[r].at \in {"copying", "copied"} /\ request[r].target = None =>
            LET top == request[r].nodes[request[r].project]
            IN  top.quantity = 1 /\ (top.preset # None \/ presets # Presets)

RootsInv == TreeInv /\ RootsAreProper /\ TopsAreProper

(* At the start the roots have a preset of their own.                      *)
LEMMA InitRoots == Init => RootsAreProper /\ TopsAreProper
  <1>1. Init => TopsAreProper
    BY DEF Init, TopsAreProper, Idle
  <1>. QED BY <1>1, InitRows DEF RootsAreProper

(* Rows that stay, and one row that is written properly.                   *)
LEMMA RootsKept ==
  ASSUME RootsAreProper, presets' = presets,
         \A x \in Projects : node'[x] \in {node[x], None}
                             \/ (node'[x].parent = None => node'[x].quantity = 1 /\ (node'[x].preset # None \/ presets # Presets))
  PROVE  RootsAreProper'
  <1>. SUFFICES ASSUME NEW x \in Projects, Exists(x)', Parent(x)' = None
                PROVE  node'[x].quantity = 1 /\ (node'[x].preset # None \/ presets # Presets)
    BY DEF RootsAreProper
  <1>1. node'[x] # None /\ node'[x].parent = None
    BY DEF Exists, Parent
  <1>2. CASE node'[x] = node[x]
    BY <1>1, <1>2 DEF RootsAreProper, Exists, Parent
  <1>. QED BY <1>1, <1>2

(* Copies that have not begun, or go on as they were.                      *)
LEMMA TopsKept ==
  ASSUME TopsAreProper, presets' = presets,
         \A r \in Requests : request'[r] = request[r] \/ request'[r].at \in {"idle", "loaded"}
  PROVE  TopsAreProper'
  BY DEF TopsAreProper

(* A row that is saved obeys the rule of the forms.                        *)
LEMMA SaveRoots ==
  ASSUME RootsInv, NEW r \in Requests, NEW saved \in Row, request[r].at = "loaded", Save(r, saved),
         IsProper(saved.parent, saved.preset, saved.quantity)
  PROVE  RootsAreProper' /\ TopsAreProper'
  <1>1. PICK p \in Projects : p = request[r].project /\ node' = [node EXCEPT ![p] = saved]
    BY DEF RootsInv, TreeInv, RequestsShape, Save
  <1>2. \A x \in Projects : node'[x] = IF x = p THEN saved ELSE node[x]
    BY <1>1 DEF RootsInv, TreeInv, NodesShape
  <1>3. presets' = presets /\ request' = [request EXCEPT ![r] = Idle] /\ DOMAIN request = Requests
    BY DEF Save, RootsInv, TreeInv, RequestsShape
  <1>4. TopsAreProper'
    BY <1>3, TopsKept DEF RootsInv, Idle
  <1>. QED BY <1>2, <1>3, <1>4, RootsKept DEF RootsInv, IsProper

(* What the rows of a copy take over from what was read.                   *)
LEMMA InsertedRows ==
  ASSUME TreeInv, NEW r \in Requests, InsertCopy(r), NEW y \in Projects
  PROVE  \/ node'[y] = node[y]
         \/ \E x \in DOMAIN request[r].nodes :
               /\ node'[y].quantity = request[r].nodes[x].quantity
               /\ node'[y].preset = request[r].nodes[x].preset
               /\ node'[y].image = request[r].files[x]
               /\ node'[y].parent = None => x = request[r].project /\ request[r].target = None
  <1>. DEFINE nodes == request[r].nodes
              files == request[r].files
              p == request[r].project
              q == request[r].target
  <1>1. /\ SnapshotShape(request[r]) /\ FilesShape(request[r])
    BY DEF TreeInv, RequestsShape, InsertCopy
  <1>2. PICK id \in [DOMAIN nodes -> {x \in Projects : ~Exists(x)}] :
           /\ \A x, z \in DOMAIN nodes : id[x] = id[z] => x = z
           /\ node' = [z \in Projects |->
                         IF \E x \in DOMAIN nodes : id[x] = z
                         THEN LET x == CHOOSE w \in DOMAIN nodes : id[w] = z
                              IN  [nodes[x] EXCEPT !.parent = IF x = p THEN q ELSE id[@], !.image = files[x]]
                         ELSE node[z]]
    BY Zenon DEF InsertCopy, InsertRows
  <1>3. CASE ~\E x \in DOMAIN nodes : id[x] = y
    BY <1>2, <1>3
  <1>4. ASSUME NEW x \in DOMAIN nodes, id[x] = y
        PROVE  /\ node'[y].quantity = nodes[x].quantity
               /\ node'[y].preset = nodes[x].preset
               /\ node'[y].image = files[x]
               /\ node'[y].parent = None => x = p /\ q = None
    <2>. DEFINE up == IF x = p THEN q ELSE id[nodes[x].parent]
    <2>1. (CHOOSE w \in DOMAIN nodes : id[w] = y) = x
      BY <1>2, <1>4
    <2>2. node'[y] = [nodes[x] EXCEPT !.parent = up, !.image = files[x]]
      BY <1>2, <1>4, <2>1
    <2>3. up = None => x = p /\ q = None
      BY <1>1, ConstantsAssumption DEF SnapshotShape
    <2>4. nodes[x] \in Row
      BY <1>1 DEF SnapshotShape
    <2>. HIDE DEF up, nodes, files
    <2>5. /\ [nodes[x] EXCEPT !.parent = up, !.image = files[x]].quantity = nodes[x].quantity
          /\ [nodes[x] EXCEPT !.parent = up, !.image = files[x]].preset = nodes[x].preset
          /\ [nodes[x] EXCEPT !.parent = up, !.image = files[x]].image = files[x]
          /\ [nodes[x] EXCEPT !.parent = up, !.image = files[x]].parent = up
      BY <2>4 DEF Row
    <2>. QED BY <2>2, <2>3, <2>5
  <1>. QED BY <1>3, <1>4

(* A copy that is to become a root gets the preset found on the way up.    *)
LEMMA BeginRoots ==
  ASSUME StaleMoves = FALSE, RootsInv, NEW r \in Requests, NEW p \in Projects, NEW q \in Projects \cup {None}, BeginCopy(r, p, q)
  PROVE  RootsAreProper' /\ TopsAreProper'
  <1>. DEFINE n == IF q = None THEN 1 ELSE node[p].quantity
              s == TopPreset(p, q)
              top == [node[p] EXCEPT !.parent = q, !.preset = s, !.quantity = n]
              nodes == [x \in Subtree(p) |-> IF x = p THEN top ELSE node[x]]
              new == [Idle EXCEPT !.at = "copying", !.project = p, !.target = q, !.nodes = nodes]
  <1>1. /\ UNCHANGED <<node, presets>> /\ Exists(p) /\ DOMAIN request = Requests
        /\ request' = [request EXCEPT ![r] = new]
    BY DEF BeginCopy, RootsInv, TreeInv, RequestsShape
  <1>2. node[p] \in Row /\ p \in Subtree(p)
    BY <1>1, SubtreeFacts DEF RootsInv, TreeInv, NodesShape, Exists
  <1>3. q = None => n = 1 /\ (s # None \/ presets # Presets)
    BY <1>1, PresetIsFound DEF RootsInv, TopPreset
  <1>4. top.quantity = n /\ top.preset = s
    <2>. HIDE DEF n, s
    <2>. QED BY <1>2 DEF Row
  <1>5. new.project = p /\ new.target = q /\ new.nodes[p] = top
    <2>. HIDE DEF top
    <2>. QED BY <1>2 DEF Idle
  <1>. HIDE DEF new, top, n, s
  <1>6. TopsAreProper'
    BY <1>1, <1>3, <1>4, <1>5 DEF RootsInv, TopsAreProper
  <1>. QED BY <1>1, <1>6, RootsKept DEF RootsInv

(* Every step keeps roots, and copies that will be roots, proper.          *)
LEMMA StepRoots == StaleMoves = FALSE /\ RootsInv /\ [Next]_vars => RootsInv'
  <1>. SUFFICES ASSUME StaleMoves = FALSE, RootsInv, [Next]_vars PROVE RootsAreProper' /\ TopsAreProper'
    BY StepTreeInv DEF RootsInv
  <1>0. /\ node \in [Projects -> Row \cup {None}] /\ presets \subseteq Presets /\ DOMAIN request = Requests
        /\ \A r \in Requests : request[r].at = "loaded" => request[r].seen \in Row
        /\ \A p \in Projects : Exists(p) => node[p] \in Row
    BY DEF RootsInv, TreeInv, NodesShape, RequestsShape, Exists
  <1>1. ASSUME NEW r \in Requests, NEW p \in Projects, LoadEdit(r, p) PROVE RootsAreProper' /\ TopsAreProper'
    <2>. DEFINE new == [Idle EXCEPT !.at = "loaded", !.project = p, !.seen = node[p],
                                    !.hop = IF Parent(p) = None THEN None ELSE Parent(Parent(p))]
    <2>1. new.at = "loaded"
      BY DEF Idle
    <2>2. request' = [request EXCEPT ![r] = new] /\ UNCHANGED <<node, presets>>
      BY <1>1 DEF LoadEdit
    <2>. HIDE DEF new
    <2>. QED BY <1>0, <2>1, <2>2, TopsKept, RootsKept DEF RootsInv
  <1>2. ASSUME NEW r \in Requests, NEW p \in Projects, NEW q \in Projects \cup {None}, BeginCopy(r, p, q)
        PROVE  RootsAreProper' /\ TopsAreProper'
    BY <1>2, BeginRoots
  <1>3. ASSUME NEW r \in Requests, SaveForm(r) PROVE RootsAreProper' /\ TopsAreProper'
    <2>1. PICK q \in Projects \cup {None}, n \in Quantities, s \in presets \cup {None},
               f \in FreshNames \cup {None, request[r].seen.image} :
             /\ IsProper(q, s, n)
             /\ Save(r, [parent |-> q, quantity |-> n, preset |-> s, image |-> f])
      BY <1>3 DEF SaveForm
    <2>2. request[r].at = "loaded"
      BY <1>3 DEF SaveForm
    <2>3. [parent |-> q, quantity |-> n, preset |-> s, image |-> f] \in Row
      BY <1>0, <2>2 DEF Row, FreshNames
    <2>. QED BY <2>1, <2>2, <2>3, SaveRoots
  <1>4. ASSUME NEW r \in Requests, PatchParent(r) PROVE RootsAreProper' /\ TopsAreProper'
    <2>1. PICK q \in Projects \cup {None}, n \in Quantities, s \in presets \cup {None} :
             IsProper(q, s, n) /\ Save(r, [request[r].seen EXCEPT !.parent = q, !.quantity = n, !.preset = s])
      BY <1>4 DEF PatchParent
    <2>2. request[r].at = "loaded"
      BY <1>4 DEF PatchParent
    <2>. DEFINE saved == [request[r].seen EXCEPT !.parent = q, !.quantity = n, !.preset = s]
    <2>3. saved \in Row /\ saved.parent = q /\ saved.preset = s /\ saved.quantity = n
      BY <1>0, <2>2 DEF Row
    <2>. HIDE DEF saved
    <2>. QED BY <2>1, <2>2, <2>3, SaveRoots DEF saved
  <1>5. ASSUME NEW r \in Requests, PatchFields(r) PROVE RootsAreProper' /\ TopsAreProper'
    <2>1. PICK n \in Quantities, s \in presets \cup {None} :
             IsProper(request[r].seen.parent, s, n) /\ Save(r, [request[r].seen EXCEPT !.quantity = n, !.preset = s])
      BY <1>5 DEF PatchFields
    <2>2. request[r].at = "loaded"
      BY <1>5 DEF PatchFields
    <2>. DEFINE saved == [request[r].seen EXCEPT !.quantity = n, !.preset = s]
    <2>3. saved \in Row /\ saved.parent = request[r].seen.parent /\ saved.preset = s /\ saved.quantity = n
      BY <1>0, <2>2 DEF Row
    <2>. HIDE DEF saved
    <2>. QED BY <2>1, <2>2, <2>3, SaveRoots DEF saved
  <1>6. ASSUME NEW r \in Requests, CopyFiles(r) PROVE RootsAreProper' /\ TopsAreProper'
    <2>1. PICK files : request' = [request EXCEPT ![r] =
                         [Idle EXCEPT !.at = "copied", !.project = request[r].project,
                            !.target = request[r].target, !.nodes = request[r].nodes, !.files = files]]
      BY <1>6 DEF CopyFiles
    <2>. DEFINE new == [Idle EXCEPT !.at = "copied", !.project = request[r].project,
                            !.target = request[r].target, !.nodes = request[r].nodes, !.files = files]
    <2>2. new.project = request[r].project /\ new.target = request[r].target /\ new.nodes = request[r].nodes
      BY DEF Idle
    <2>3. request[r].at = "copying" /\ UNCHANGED <<node, presets>> /\ request' = [request EXCEPT ![r] = new]
      BY <1>6, <2>1 DEF CopyFiles
    <2>. HIDE DEF new
    <2>4. TopsAreProper'
      BY <1>0, <2>2, <2>3 DEF RootsInv, TopsAreProper
    <2>. QED BY <2>3, <2>4, RootsKept DEF RootsInv
  <1>7. ASSUME NEW r \in Requests, InsertCopy(r) PROVE RootsAreProper' /\ TopsAreProper'
    <2>1. request[r].at = "copied" /\ presets' = presets /\ request' = [request EXCEPT ![r] = Idle]
      BY <1>7 DEF InsertCopy
    <2>2. ASSUME NEW y \in Projects, node'[y] # node[y], node'[y].parent = None
          PROVE  node'[y].quantity = 1 /\ (node'[y].preset # None \/ presets # Presets)
      BY <1>7, <2>1, <2>2, InsertedRows DEF RootsInv, TopsAreProper
    <2>3. RootsAreProper'
      BY <2>1, <2>2, RootsKept DEF RootsInv
    <2>. QED BY <1>0, <2>1, <2>3, TopsKept DEF RootsInv, Idle
  <1>8. ASSUME NEW r \in Requests, FailCopy(r) \/ Abandon(r) PROVE RootsAreProper' /\ TopsAreProper'
    <2>1. UNCHANGED <<node, presets>> /\ request' = [request EXCEPT ![r] = Idle]
      BY <1>8 DEF FailCopy, Abandon
    <2>. QED BY <1>0, <2>1, TopsKept, RootsKept DEF RootsInv, Idle
  <1>9. CASE Create
    <2>1. PICK p \in Projects, q \in Projects \cup {None}, n \in Quantities, s \in presets \cup {None},
               f \in FreshNames \cup {None} :
             /\ ~Exists(p) /\ Referable(q, s) /\ IsProper(q, s, n)
             /\ node' = [node EXCEPT ![p] = [parent |-> q, quantity |-> n, preset |-> s, image |-> f]]
             /\ stored' = stored \cup ({f} \ {None})
      BY <1>9, Zenon DEF Create
    <2>2. presets' = presets /\ request' = request
      BY <1>9 DEF Create
    <2>3. \A x \in Projects : node'[x] = IF x = p THEN [parent |-> q, quantity |-> n, preset |-> s, image |-> f]
                                                  ELSE node[x]
      BY <1>0, <2>1
    <2>. QED BY <2>1, <2>2, <2>3, TopsKept, RootsKept DEF RootsInv, IsProper
  <1>10. ASSUME NEW p \in Projects, Delete(p) PROVE RootsAreProper' /\ TopsAreProper'
    <2>1. \A x \in Projects : node'[x] \in {node[x], None}
      BY <1>10 DEF Delete
    <2>2. presets' = presets /\ request' = request
      BY <1>10 DEF Delete
    <2>. QED BY <2>1, <2>2, TopsKept, RootsKept DEF RootsInv
  <1>11. ASSUME NEW s \in Presets, DeletePreset(s) PROVE RootsAreProper' /\ TopsAreProper'
    <2>1. presets' # Presets /\ request' = request
      BY <1>0, <1>11 DEF DeletePreset
    <2>2. ASSUME NEW x \in Projects
          PROVE  /\ Exists(x)' <=> Exists(x)
                 /\ Exists(x) => node'[x].parent = node[x].parent /\ node'[x].quantity = node[x].quantity
      <3>1. node'[x] = IF Exists(x) /\ node[x].preset = s THEN [node[x] EXCEPT !.preset = None] ELSE node[x]
        BY <1>11 DEF DeletePreset
      <3>2. Exists(x) => /\ [node[x] EXCEPT !.preset = None] \in Row
                         /\ [node[x] EXCEPT !.preset = None].parent = node[x].parent
                         /\ [node[x] EXCEPT !.preset = None].quantity = node[x].quantity
        BY <1>0 DEF Row
      <3>. QED BY <3>1, <3>2, NoneAssumption DEF Exists
    <2>3. RootsAreProper'
      BY <2>1, <2>2 DEF RootsInv, RootsAreProper, Parent
    <2>4. TopsAreProper'
      BY <2>1 DEF RootsInv, TopsAreProper
    <2>. QED BY <2>3, <2>4
  <1>12. CASE \/ \E p \in Projects : UseParts(p) \/ BookPrinted(p) \/ RemoveBooking(p)
              \/ Scan \/ \E f \in Files : DeleteDoomed(f) \/ Age(f) \/ CleanUp(f)
              \/ UNCHANGED vars
    <2>1. UNCHANGED <<node, presets, request>>
      BY <1>12 DEF UseParts, BookPrinted, RemoveBooking, Scan, DeleteDoomed, Age, CleanUp, vars
    <2>. QED BY <2>1, TopsKept, RootsKept DEF RootsInv
  <1>. QED BY <1>1, <1>2, <1>3, <1>4, <1>5, <1>6, <1>7, <1>8, <1>9, <1>10, <1>11, <1>12
       DEF Next, CopyProject, AddExistingSubproject

(* A project that comes to the top (by an edit, as a copy, or from the     *)
(* start) is needed once and has a preset, also when it inherited one: the *)
(* forest makes the walk up find the one that the copy is given.           *)
THEOREM RootsAreProperAlways ==
  ASSUME StaleMoves = FALSE PROVE Spec => []RootsAreProper
  <1>1. Init => RootsInv
    BY InitTreeInv, InitRoots DEF RootsInv
  <1>2. RootsInv => RootsAreProper
    BY DEF RootsInv
  <1>. QED BY <1>1, <1>2, StepRoots, PTL DEF Spec

-----------------------------------------------------------------------------
(* Files: what rows refer to, and what copies have written for theirs.     *)

Images == {node[p].image : p \in {x \in Projects : Exists(x)}} \ {None}

Written == {r \in Requests : request[r].at = "copied"}

(* Files that a copy has written are its own until it inserts its rows:    *)
(* nobody refers to them, and no removal has them in view.                 *)
StoreInv ==
    /\ Images \subseteq stored /\ old \subseteq stored
    /\ \A r \in Written : Copies(r) \subseteq stored \ (old \cup doomed \cup scanned \cup Images)
    /\ \A r, s \in Written : r # s => Copies(r) \cap Copies(s) = {}

(* The files of a step that writes rows: some are new, and what the rows   *)
(* no longer name may be removed.                                          *)
LEMMA RowsWritten ==
  ASSUME StoreInv, NEW N \in SUBSET FreshNames, stored' = stored \cup N,
         Images' \subseteq Images \cup N, doomed' \subseteq doomed \cup Images,
         old' = old, scanned' = scanned,
         \A r \in Requests : request'[r] = request[r] \/ request'[r].at # "copied"
  PROVE  StoreInv'
  <1>1. \A r \in Written' : r \in Written /\ request'[r] = request[r]
    BY DEF Written
  <1>2. \A r \in Written' : Copies(r)' = Copies(r)
    BY <1>1 DEF Copies
  <1>3. N \cap stored = {}
    BY DEF FreshNames
  <1>. QED BY <1>1, <1>2, <1>3 DEF StoreInv

(* The files of a step that removes: nothing that is referred to, and of   *)
(* the copies only those of a copy that gives up.                          *)
LEMMA FilesRemoved ==
  ASSUME StoreInv, NEW X, stored' = stored \ X, X \cap Images = {}, node' = node,
         old' = old \cap stored', doomed' \subseteq doomed, scanned' \subseteq scanned,
         \A r \in Requests : request'[r] = request[r] \/ request'[r].at # "copied",
         \A r \in Written' : X \cap Copies(r) = {}
  PROVE  StoreInv'
  <1>1. \A r \in Written' : r \in Written /\ request'[r] = request[r]
    BY DEF Written
  <1>2. \A r \in Written' : Copies(r)' = Copies(r)
    BY <1>1 DEF Copies
  <1>3. Images' = Images
    BY DEF Images, Exists
  <1>. QED BY <1>1, <1>2, <1>3 DEF StoreInv

(* What the rows name after one row is written.                            *)
LEMMA ImagesOfOne ==
  ASSUME NEW p \in Projects, NEW N, NEW row, node \in [Projects -> Row \cup {None}],
         node' = [node EXCEPT ![p] = row], row.image \in N \cup Images \cup {None}
  PROVE  Images' \subseteq Images \cup N
  <1>. SUFFICES ASSUME NEW f \in Images' PROVE f \in Images \cup N
    OBVIOUS
  <1>1. PICK x \in Projects : node'[x] # None /\ f = node'[x].image /\ f # None
    BY DEF Images, Exists
  <1>2. node'[x] = IF x = p THEN row ELSE node[x]
    BY <1>1
  <1>3. x # p => f \in Images
    BY <1>1, <1>2 DEF Images, Exists
  <1>. QED BY <1>1, <1>2, <1>3

(* A row that is saved names the file it had, a new one, or none.          *)
LEMMA SaveFiles ==
  ASSUME TreeInv, StoreInv, StaleFiles = FALSE, NEW r \in Requests, NEW saved \in Row,
         request[r].at = "loaded", FileIsCurrent(r), Save(r, saved),
         saved.image \in FreshNames \cup {None, request[r].seen.image}
  PROVE  StoreInv'
  <1>. DEFINE N == {saved.image} \ {None, request[r].seen.image}
  <1>1. PICK p \in Projects : p = request[r].project
    BY DEF TreeInv, RequestsShape
  <1>2. /\ node' = [node EXCEPT ![p] = saved] /\ stored' = stored \cup N
        /\ doomed' = IF Exists(p) /\ node[p].image # saved.image
                     THEN doomed \cup ({node[p].image} \ {None}) ELSE doomed
        /\ request' = [request EXCEPT ![r] = Idle] /\ old' = old /\ scanned' = scanned
    BY <1>1 DEF Save
  <1>3. request[r].seen.image \in Images \cup {None}
    BY <1>1 DEF FileIsCurrent, Images
  <1>4. N \in SUBSET FreshNames /\ saved.image \in N \cup Images \cup {None}
    BY <1>3
  <1>5. Images' \subseteq Images \cup N
    <2>. HIDE DEF N
    <2>. QED BY <1>2, <1>4, ImagesOfOne DEF TreeInv, NodesShape
  <1>6. doomed' \subseteq doomed \cup Images
    BY <1>2 DEF Images
  <1>7. \A s \in Requests : request'[s] = request[s] \/ request'[s].at # "copied"
    BY <1>2 DEF TreeInv, RequestsShape, Idle
  <1>. HIDE DEF N
  <1>. QED BY <1>2, <1>4, <1>5, <1>6, <1>7, RowsWritten

(* A copy writes files nobody has, one for each file that is there.        *)
LEMMA CopyFilesStore ==
  ASSUME TreeInv, StoreInv, NEW r \in Requests, CopyFiles(r)
  PROVE  StoreInv'
  <1>. DEFINE nodes == request[r].nodes
              found == {x \in DOMAIN nodes : nodes[x].image \in stored}
  <1>1. PICK name \in [found -> FreshNames] :
           /\ stored' = stored \cup {name[x] : x \in found}
           /\ request' = [request EXCEPT ![r] =
                         [Idle EXCEPT !.at = "copied", !.project = request[r].project,
                            !.target = request[r].target, !.nodes = nodes,
                            !.files = [x \in DOMAIN nodes |-> IF x \in found THEN name[x] ELSE None]]]
    BY DEF CopyFiles
  <1>. DEFINE files == [x \in DOMAIN nodes |-> IF x \in found THEN name[x] ELSE None]
              new == [Idle EXCEPT !.at = "copied", !.project = request[r].project,
                        !.target = request[r].target, !.nodes = nodes, !.files = files]
              N == {name[x] : x \in found}
  <1>2. new.files = files
    BY DEF Idle
  <1>3. request' = [request EXCEPT ![r] = new] /\ DOMAIN request = Requests
    BY <1>1 DEF TreeInv, RequestsShape
  <1>4. N \subseteq FreshNames /\ {files[x] : x \in DOMAIN files} \ {None} \subseteq N
    BY <1>1
  <1>5. /\ request[r].at # "copied" /\ stored' = stored \cup N
        /\ UNCHANGED <<node, old, doomed, scanned>>
    BY <1>1 DEF CopyFiles
  <1>. HIDE DEF new, files, N, found
  <1>6. Copies(r)' \subseteq N
    BY <1>2, <1>3, <1>4 DEF Copies
  <1>7. \A s \in Requests : s # r => request'[s] = request[s]
    BY <1>3
  <1>8. \A s \in Written' : s # r => s \in Written /\ Copies(s)' = Copies(s)
    BY <1>7 DEF Written, Copies
  <1>9. Images' = Images
    BY <1>5 DEF Images, Exists
  <1>10. N \cap (stored \cup scanned \cup doomed) = {}
    BY <1>4 DEF FreshNames
  <1>. QED BY <1>5, <1>6, <1>8, <1>9, <1>10 DEF StoreInv

(* The rows of a copy name what it has written.                            *)
LEMMA InsertFiles ==
  ASSUME TreeInv, StoreInv, NEW r \in Requests, InsertCopy(r)
  PROVE  StoreInv'
  <1>1. /\ r \in Written /\ UNCHANGED <<stored, old, doomed, scanned>>
        /\ request' = [request EXCEPT ![r] = Idle] /\ DOMAIN request = Requests
        /\ FilesShape(request[r])
    BY DEF InsertCopy, Written, TreeInv, RequestsShape
  <1>2. ASSUME NEW f \in Images' PROVE f \in Images \cup Copies(r)
    <2>1. PICK y \in Projects : node'[y] # None /\ f = node'[y].image /\ f # None
      BY <1>2 DEF Images, Exists
    <2>2. CASE node'[y] = node[y]
      BY <2>1, <2>2 DEF Images, Exists
    <2>3. ASSUME NEW x \in DOMAIN request[r].nodes, node'[y].image = request[r].files[x]
          PROVE  f \in Copies(r)
      BY <1>1, <2>1, <2>3 DEF Copies, FilesShape
    <2>. QED BY <2>2, <2>3, InsertedRows
  <1>3. \A s \in Written' : s # r /\ s \in Written /\ request'[s] = request[s]
    BY <1>1 DEF Written, Idle
  <1>4. \A s \in Written' : Copies(s)' = Copies(s)
    BY <1>3 DEF Copies
  <1>. QED BY <1>1, <1>2, <1>3, <1>4 DEF StoreInv

(* At the start the one file that is referred to is there.                 *)
LEMMA InitFiles == Init => StoreInv
  <1>. SUFFICES ASSUME Init PROVE StoreInv
    OBVIOUS
  <1>1. Images \subseteq stored
    BY InitRows DEF Images
  <1>2. Written = {} /\ old = {}
    BY DEF Init, Written, Idle
  <1>. QED BY <1>1, <1>2 DEF StoreInv

(* Every step keeps what is known of the storage.                          *)
LEMMA StepFiles == StaleFiles = FALSE /\ TreeInv /\ StoreInv /\ [Next]_vars => StoreInv'
  <1>. SUFFICES ASSUME StaleFiles = FALSE, TreeInv, StoreInv, [Next]_vars PROVE StoreInv'
    OBVIOUS
  <1>0. /\ node \in [Projects -> Row \cup {None}] /\ presets \subseteq Presets /\ DOMAIN request = Requests
        /\ \A r \in Requests : request[r].at = "loaded" => request[r].seen \in Row
        /\ \A p \in Projects : Exists(p) => node[p] \in Row
    BY DEF TreeInv, NodesShape, RequestsShape, Exists
  <1>1. ASSUME UNCHANGED <<stored, old, doomed, scanned>>, Images' \subseteq Images,
               \A r \in Requests : request'[r] = request[r] \/ request'[r].at # "copied"
        PROVE  StoreInv'
    <2>1. {} \in SUBSET FreshNames /\ stored' = stored \cup {} /\ Images' \subseteq Images \cup {}
      BY <1>1
    <2>. QED BY <1>1, <2>1, RowsWritten
  <1>2. ASSUME node' = node PROVE Images' = Images
    BY <1>2 DEF Images, Exists
  <1>3. ASSUME NEW r \in Requests, NEW p \in Projects, LoadEdit(r, p) PROVE StoreInv'
    <2>. DEFINE new == [Idle EXCEPT !.at = "loaded", !.project = p, !.seen = node[p],
                                    !.hop = IF Parent(p) = None THEN None ELSE Parent(Parent(p))]
    <2>1. new.at = "loaded"
      BY DEF Idle
    <2>2. request' = [request EXCEPT ![r] = new] /\ UNCHANGED <<node, stored, old, doomed, scanned>>
      BY <1>3 DEF LoadEdit
    <2>. HIDE DEF new
    <2>. QED BY <1>0, <1>1, <1>2, <2>1, <2>2
  <1>4. ASSUME NEW r \in Requests, NEW p \in Projects, NEW q \in Projects \cup {None}, BeginCopy(r, p, q)
        PROVE  StoreInv'
    <2>1. PICK nodes : request' = [request EXCEPT ![r] =
             [Idle EXCEPT !.at = "copying", !.project = p, !.target = q, !.nodes = nodes]]
      BY <1>4 DEF BeginCopy
    <2>. DEFINE new == [Idle EXCEPT !.at = "copying", !.project = p, !.target = q, !.nodes = nodes]
    <2>2. new.at = "copying"
      BY DEF Idle
    <2>3. request' = [request EXCEPT ![r] = new] /\ UNCHANGED <<node, stored, old, doomed, scanned>>
      BY <1>4, <2>1 DEF BeginCopy
    <2>. HIDE DEF new
    <2>. QED BY <1>0, <1>1, <1>2, <2>2, <2>3
  <1>5. ASSUME NEW r \in Requests, SaveForm(r) PROVE StoreInv'
    <2>1. PICK q \in Projects \cup {None}, n \in Quantities, s \in presets \cup {None},
               f \in FreshNames \cup {None, request[r].seen.image} :
             Save(r, [parent |-> q, quantity |-> n, preset |-> s, image |-> f])
      BY <1>5 DEF SaveForm
    <2>2. request[r].at = "loaded" /\ FileIsCurrent(r)
      BY <1>5 DEF SaveForm
    <2>3. [parent |-> q, quantity |-> n, preset |-> s, image |-> f] \in Row
      BY <1>0, <2>2 DEF Row, FreshNames
    <2>. QED BY <2>1, <2>2, <2>3, SaveFiles
  <1>6. ASSUME NEW r \in Requests, PatchParent(r) PROVE StoreInv'
    <2>1. PICK q \in Projects \cup {None}, n \in Quantities, s \in presets \cup {None} :
             Save(r, [request[r].seen EXCEPT !.parent = q, !.quantity = n, !.preset = s])
      BY <1>6 DEF PatchParent
    <2>2. request[r].at = "loaded" /\ FileIsCurrent(r)
      BY <1>6 DEF PatchParent
    <2>. DEFINE saved == [request[r].seen EXCEPT !.parent = q, !.quantity = n, !.preset = s]
    <2>3. saved \in Row /\ saved.image = request[r].seen.image
      BY <1>0, <2>2 DEF Row
    <2>. HIDE DEF saved
    <2>. QED BY <2>1, <2>2, <2>3, SaveFiles DEF saved
  <1>7. ASSUME NEW r \in Requests, PatchFields(r) PROVE StoreInv'
    <2>1. PICK n \in Quantities, s \in presets \cup {None} :
             Save(r, [request[r].seen EXCEPT !.quantity = n, !.preset = s])
      BY <1>7 DEF PatchFields
    <2>2. request[r].at = "loaded" /\ FileIsCurrent(r)
      BY <1>7 DEF PatchFields
    <2>. DEFINE saved == [request[r].seen EXCEPT !.quantity = n, !.preset = s]
    <2>3. saved \in Row /\ saved.image = request[r].seen.image
      BY <1>0, <2>2 DEF Row
    <2>. HIDE DEF saved
    <2>. QED BY <2>1, <2>2, <2>3, SaveFiles DEF saved
  <1>8. ASSUME NEW r \in Requests, CopyFiles(r) \/ InsertCopy(r) PROVE StoreInv'
    BY <1>8, CopyFilesStore, InsertFiles
  <1>9. ASSUME NEW r \in Requests, FailCopy(r) PROVE StoreInv'
    <2>1. /\ r \in Written /\ stored' = stored \ Copies(r) /\ UNCHANGED <<node, old, doomed, scanned>>
          /\ request' = [request EXCEPT ![r] = Idle]
      BY <1>9 DEF FailCopy, Written
    <2>2. \A s \in Written' : s # r /\ s \in Written
      BY <1>0, <2>1 DEF Written, Idle
    <2>3. old' = old \cap stored' /\ Copies(r) \cap Images = {} /\ \A s \in Written' : Copies(r) \cap Copies(s) = {}
      BY <2>1, <2>2 DEF StoreInv
    <2>4. \A s \in Requests : request'[s] = request[s] \/ request'[s].at # "copied"
      BY <1>0, <2>1 DEF Idle
    <2>. QED BY <2>1, <2>3, <2>4, FilesRemoved
  <1>10. ASSUME NEW r \in Requests, Abandon(r) PROVE StoreInv'
    BY <1>0, <1>1, <1>2, <1>10 DEF Abandon, Idle
  <1>11. CASE Create
    <2>1. PICK p \in Projects, q \in Projects \cup {None}, n \in Quantities, s \in presets \cup {None},
               f \in FreshNames \cup {None} :
             /\ ~Exists(p) /\ Referable(q, s) /\ IsProper(q, s, n)
             /\ node' = [node EXCEPT ![p] = [parent |-> q, quantity |-> n, preset |-> s, image |-> f]]
             /\ stored' = stored \cup ({f} \ {None})
      BY <1>11, Zenon DEF Create
    <2>. DEFINE new == [parent |-> q, quantity |-> n, preset |-> s, image |-> f]
                N == {f} \ {None}
    <2>2. N \in SUBSET FreshNames /\ new.image \in N \cup Images \cup {None}
      BY <2>1
    <2>3. UNCHANGED <<old, doomed, scanned, request>> /\ stored' = stored \cup N
      BY <1>11, <2>1 DEF Create
    <2>4. Images' \subseteq Images \cup N
      <3>. HIDE DEF N
      <3>1. node' = [node EXCEPT ![p] = new]
        BY <2>1
      <3>. HIDE DEF new
      <3>. QED BY <1>0, <2>2, <3>1, ImagesOfOne
    <2>. HIDE DEF N, new
    <2>. QED BY <2>2, <2>3, <2>4, RowsWritten
  <1>12. ASSUME NEW p \in Projects, Delete(p) PROVE StoreInv'
    <2>1. /\ \A x \in Projects : node'[x] \in {node[x], None}
          /\ doomed' = doomed \cup ({node[q].image : q \in {x \in Subtree(p) : Exists(x)}} \ {None})
          /\ UNCHANGED <<stored, old, scanned, request>>
      BY <1>12 DEF Delete
    <2>2. Images' \subseteq Images
      BY <2>1 DEF Images, Exists
    <2>3. Subtree(p) \subseteq Projects
      BY SubtreeFacts
    <2>4. doomed' \subseteq doomed \cup Images
      BY <2>1, <2>3 DEF Images
    <2>5. {} \in SUBSET FreshNames /\ stored' = stored \cup {} /\ Images' \subseteq Images \cup {}
      BY <2>1, <2>2
    <2>. QED BY <2>1, <2>4, <2>5, RowsWritten
  <1>13. ASSUME NEW s \in Presets, DeletePreset(s) PROVE StoreInv'
    <2>1. ASSUME NEW x \in Projects
          PROVE  (Exists(x)' <=> Exists(x)) /\ (Exists(x) => node'[x].image = node[x].image)
      <3>1. node'[x] = IF Exists(x) /\ node[x].preset = s THEN [node[x] EXCEPT !.preset = None] ELSE node[x]
        BY <1>13 DEF DeletePreset
      <3>2. Exists(x) => /\ [node[x] EXCEPT !.preset = None] \in Row
                         /\ [node[x] EXCEPT !.preset = None].image = node[x].image
        BY <1>0 DEF Row
      <3>. QED BY <3>1, <3>2, NoneAssumption DEF Exists
    <2>2. Images' \subseteq Images
      BY <2>1 DEF Images
    <2>. QED BY <1>1, <1>13, <2>2 DEF DeletePreset
  <1>14. ASSUME NEW p \in Projects, UseParts(p) \/ BookPrinted(p) \/ RemoveBooking(p) PROVE StoreInv'
    BY <1>1, <1>2, <1>14 DEF UseParts, BookPrinted, RemoveBooking
  <1>15. ASSUME NEW f \in Files, DeleteDoomed(f) \/ CleanUp(f) PROVE StoreInv'
    <2>1. UNCHANGED <<node, request>> /\ old' = old \cap stored' /\ doomed' \subseteq doomed /\ scanned' \subseteq scanned
      BY <1>15 DEF DeleteDoomed, CleanUp
    <2>2. stored' = stored \ {} \/ (stored' = stored \ {f} /\ ~Referenced(f))
      BY <1>15 DEF DeleteDoomed, CleanUp
    <2>3. ~Referenced(f) => {f} \cap Images = {}
      BY DEF Referenced, Images
    <2>4. \A r \in Written' : r \in Written /\ {f} \cap Copies(r) = {}
      BY <1>15, <2>1 DEF DeleteDoomed, CleanUp, StoreInv, Written
    <2>5. ASSUME stored' = stored \ {} PROVE StoreInv'
      <3>1. {} \cap Images = {} /\ \A r \in Written' : {} \cap Copies(r) = {}
        OBVIOUS
      <3>2. \A r \in Requests : request'[r] = request[r] \/ request'[r].at # "copied"
        BY <2>1
      <3>. QED BY <2>1, <2>5, <3>1, <3>2, FilesRemoved, Zenon
    <2>6. CASE stored' = stored \ {f} /\ ~Referenced(f)
      BY <2>1, <2>3, <2>4, <2>6, FilesRemoved
    <2>. QED BY <2>2, <2>5, <2>6
  <1>16. ASSUME NEW f \in Files, Age(f) PROVE StoreInv'
    <2>1. Images' = Images /\ Written' = Written /\ \A r \in Written : Copies(r)' = Copies(r) /\ f \notin Copies(r)
      BY <1>2, <1>16 DEF Age, Written, Copies
    <2>. QED BY <1>16, <2>1 DEF Age, StoreInv
  <1>17. CASE Scan
    <2>1. Images' = Images /\ Written' = Written /\ \A r \in Written : Copies(r)' = Copies(r)
      BY <1>2, <1>17 DEF Scan, Written, Copies
    <2>2. scanned' \subseteq old
      BY <1>17 DEF Scan, Orphans
    <2>. QED BY <1>17, <2>1, <2>2 DEF Scan, StoreInv
  <1>18. CASE UNCHANGED vars
    BY <1>1, <1>2, <1>18 DEF vars
  <1>. QED BY <1>3, <1>4, <1>5, <1>6, <1>7, <1>8, <1>9, <1>10, <1>11, <1>12, <1>13, <1>14, <1>15, <1>16,
              <1>17, <1>18
       DEF Next, CopyProject, AddExistingSubproject

(* No row names a file that is gone: a removal looks again whether the     *)
(* file is referred to, and what a copy has written is too young for the   *)
(* clean-up command and unknown to every other removal until its rows are  *)
(* there.  Only an edit that writes back a name others have replaced could *)
(* bring a file back that is about to go.                                  *)
THEOREM ReferencedFilesExistAlways ==
  ASSUME StaleFiles = FALSE PROVE Spec => []ReferencedFilesExist
  <1>1. StoreInv => ReferencedFilesExist
    BY DEF StoreInv, Images, ReferencedFilesExist
  <1>2. TreeInv /\ StoreInv /\ [Next]_vars => TreeInv' /\ StoreInv'
    BY StepTreeInv, StepFiles
  <1>3. Init => TreeInv /\ StoreInv
    BY InitTreeInv, InitFiles
  <1>. QED BY <1>1, <1>2, <1>3, PTL DEF Spec

-----------------------------------------------------------------------------
(* What the pages derive from a forest.                                    *)
(* A walk starts with the multiplier of a project, so that two pages agree *)
(* on a part because both walk the same way up from it; hardware adds up   *)
(* because the trees below the children of a project are disjoint.         *)

Line(p) == Ancestors(p) \cup {p}

(* Two projects are not below each other.                                  *)
LEMMA BelowIsOneWay ==
  ASSUME Forest, NEW p \in Projects, NEW a \in Projects, p \in Subtree(a), a \in Subtree(p)
  PROVE  a = p
  <1>. SUFFICES ASSUME a # p PROVE FALSE
    OBVIOUS
  <1>1. Subtree(p) \subseteq Subtree(a)
    BY BelowIsTransitive
  <1>2. \A x \in Subtree(a) : Parent(x) \in Subtree(a)
    BY <1>1, SubtreeFacts
  <1>. QED BY <1>2, SubtreeFacts DEF Forest

(* The way up from a project is that from its parent, and the project.     *)
LEMMA LineIs ==
  ASSUME NodesShape, Forest, NEW p \in Projects
  PROVE  /\ Line(p) \subseteq Projects /\ p \notin Ancestors(p) /\ \A a \in Ancestors(p) : Exists(a)
         /\ Parent(p) = None => Line(p) = {p}
         /\ Parent(p) # None => Parent(p) \in Projects /\ Exists(p) /\ Ancestors(p) = Line(Parent(p))
  <1>1. Line(p) \subseteq Projects /\ p \notin Ancestors(p) /\ \A a \in Ancestors(p) : Exists(a)
    BY DEF Line, Ancestors
  <1>2. ASSUME Parent(p) = None PROVE Ancestors(p) = {}
    <2>1. \A a \in Projects : Subtree(a) \subseteq Projects /\ \A x \in Subtree(a) : x # a => Parent(x) \in Subtree(a)
      BY SubtreeFacts
    <2>. QED BY <1>2, <2>1, ConstantsAssumption DEF Ancestors
  <1>3. ASSUME Parent(p) # None
        PROVE  Parent(p) \in Projects /\ Exists(p) /\ Ancestors(p) = Line(Parent(p))
    <2>. DEFINE q == Parent(p)
    <2>1. Exists(p) /\ q \in Projects /\ Exists(q)
      BY <1>3 DEF NodesShape, Row, Parent, Exists
    <2>2. q \notin Subtree(p)
      BY <1>3, ParentIsOutside DEF IsOutside
    <2>. HIDE DEF q
    <2>3. ASSUME NEW a \in Ancestors(p) PROVE a \in Line(q)
      <3>1. a \in Projects /\ a # p /\ p \in Subtree(a) /\ Exists(a)
        BY DEF Ancestors
      <3>2. q \in Subtree(a)
        BY <3>1, SubtreeFacts DEF q
      <3>. QED BY <3>1, <3>2 DEF Line, Ancestors
    <2>4. ASSUME NEW a \in Line(q) PROVE a \in Ancestors(p)
      <3>1. a \in Projects /\ Exists(a) /\ q \in Subtree(a)
        BY <2>1, SubtreeFacts DEF Line, Ancestors
      <3>2. p \in Subtree(a)
        BY <3>1, SubtreeFacts DEF ClosedBelow, q
      <3>3. a # p
        BY <2>2, <3>1
      <3>. QED BY <3>1, <3>2, <3>3 DEF Ancestors
    <2>. QED BY <2>1, <2>3, <2>4 DEF q
  <1>. QED BY <1>1, <1>2, <1>3 DEF Line

(* The quantities that are multiplied.                                     *)
LEMMA QuantityIsPositive ==
  ASSUME NodesShape, NEW p \in Projects, Exists(p)
  PROVE  node[p].quantity \in Nat \ {0}
  BY ConstantsAssumption, QuantityAssumption DEF NodesShape, Row, Exists

LEMMA ProductIs ==
  ASSUME NEW S
  PROVE  Product(S) = ProductOnSet([a \in S |-> node[a].quantity], {a \in S : Parent(a) # None})
  BY DEF Product, ProductOnSet

(* A sub-project is needed so often in every instance of its parent.       *)
LEMMA ChainIs ==
  ASSUME NodesShape, Forest, NEW p \in Projects
  PROVE  /\ ChainMultiplier(p) \in Nat \ {0}
         /\ Parent(p) = None => ChainMultiplier(p) = 1
         /\ Parent(p) # None => ChainMultiplier(p) = node[p].quantity * ChainMultiplier(Parent(p))
  <1>. DEFINE f == [a \in Line(p) |-> node[a].quantity]
              T == {a \in Line(p) : Parent(a) # None}
  <1>1. ChainMultiplier(p) = ProductOnSet(f, T)
    BY ProductIs DEF ChainMultiplier, Line
  <1>2. IsFiniteSet(T) /\ \A a \in T : f[a] \in Nat \ {0}
    <2>1. T \subseteq Projects /\ \A a \in T : Exists(a)
      BY LineIs DEF Parent
    <2>. QED BY <2>1, QuantityAssumption, FS_Subset, QuantityIsPositive
  <1>3. ChainMultiplier(p) \in Nat \ {0}
    BY <1>1, <1>2, ProductIsPositive
  <1>4. ASSUME Parent(p) = None PROVE ChainMultiplier(p) = 1
    <2>1. T = {}
      BY <1>4, LineIs
    <2>. QED BY <1>1, <2>1, ProductOfNone
  <1>5. ASSUME Parent(p) # None
        PROVE  ChainMultiplier(p) = node[p].quantity * ChainMultiplier(Parent(p))
    <2>. DEFINE q == Parent(p)
                g == [a \in Line(q) |-> node[a].quantity]
                U == {a \in Line(q) : Parent(a) # None}
    <2>1. ChainMultiplier(q) = ProductOnSet(g, U)
      BY ProductIs DEF ChainMultiplier, Line
    <2>2. Line(p) = Line(q) \cup {p} /\ p \notin Line(q) /\ p \in Line(p)
      BY <1>5, LineIs DEF Line
    <2>3. T \ {p} = U /\ p \in T /\ f[p] = node[p].quantity
      BY <1>5, <2>2
    <2>4. \A a \in U : f[a] = g[a]
      BY <2>2
    <2>. HIDE DEF f, T, g, U
    <2>5. ProductOnSet(f, T) = f[p] * ProductOnSet(f, U)
      BY <1>2, <2>3, ProductTakesAny
    <2>6. IsFiniteSet(U)
      BY <1>2, <2>3, FS_Subset
    <2>7. ProductOnSet(f, U) = ProductOnSet(g, U)
      BY <2>4, <2>6, ProductOfSame
    <2>. QED BY <1>1, <2>1, <2>3, <2>5, <2>7
  <1>. QED BY <1>3, <1>4, <1>5

-----------------------------------------------------------------------------
(* The walk down multiplies the quantities on its way.                     *)
Path(p, q) == {x \in Subtree(p) \ {p} : q \in Subtree(x)}
Stride(m, p, h, q) == IF q = p THEN m ELSE h[Parent(q)] * node[q].quantity
IsWalk(m, p, h) == h = [q \in Subtree(p) |-> Stride(m, p, h, q)]

LEMMA PathIs ==
  ASSUME NodesShape, Forest, NEW p \in Projects
  PROVE  /\ Path(p, p) = {}
         /\ \A q \in Subtree(p) : Path(p, q) \in SUBSET Projects /\ \A x \in Path(p, q) : Exists(x)
         /\ \A q \in Subtree(p) \ {p} : Path(p, q) = Path(p, Parent(q)) \cup {q} /\ q \notin Path(p, Parent(q))
  <1>1. Path(p, p) = {}
    BY BelowIsOneWay, SubtreeFacts DEF Path
  <1>2. \A q \in Subtree(p) : Path(p, q) \in SUBSET Projects /\ \A x \in Path(p, q) : Exists(x)
    BY SubtreeFacts DEF Path
  <1>3. ASSUME NEW q \in Subtree(p) \ {p}
        PROVE  Path(p, q) = Path(p, Parent(q)) \cup {q} /\ q \notin Path(p, Parent(q))
    <2>1. q \in Projects /\ Exists(q) /\ Parent(q) \in Subtree(p) /\ Parent(q) \in Projects /\ Parent(q) # None
      BY SubtreeFacts, ConstantsAssumption
    <2>2. Ancestors(q) = Line(Parent(q)) /\ q \notin Ancestors(q)
      BY <2>1, LineIs
    <2>3. ASSUME NEW x \in Projects, Exists(x), NEW y \in Projects
          PROVE  y \in Subtree(x) <=> x \in Line(y)
      BY <2>3, SubtreeFacts DEF Line, Ancestors
    <2>4. \A x \in Subtree(p) \ {p} : x \in Projects /\ Exists(x)
      BY SubtreeFacts
    <2>5. \A x \in Subtree(p) \ {p} : x \in Path(p, q) <=> x \in Line(q)
      BY <2>1, <2>3, <2>4 DEF Path
    <2>6. \A x \in Subtree(p) \ {p} : x \in Path(p, Parent(q)) <=> x \in Line(Parent(q))
      BY <2>1, <2>3, <2>4 DEF Path
    <2>. QED BY <2>2, <2>5, <2>6 DEF Line, Path
  <1>. QED BY <1>1, <1>2, <1>3

LEMMA TimesCommutes == \A a, b, c \in Nat : a * b = b * a /\ a * (b * c) = (a * b) * c /\ a * b \in Nat /\ a * 1 = a
  OBVIOUS

LEMMA WalkExists ==
  ASSUME NodesShape, Forest, NEW p \in Projects, NEW m \in Nat
  PROVE  \E h : IsWalk(m, p, h)
  <1>. DEFINE f == [x \in Projects |-> node[x].quantity]
              h == [q \in Subtree(p) |-> m * ProductOnSet(f, Path(p, q))]
  <1>0. p \in Subtree(p) /\ Subtree(p) \subseteq Projects
    BY SubtreeFacts
  <1>1. \A q \in Subtree(p) : IsFiniteSet(Path(p, q)) /\ \A x \in Path(p, q) : f[x] \in Nat \ {0}
    BY PathIs, QuantityIsPositive, QuantityAssumption, FS_Subset
  <1>. HIDE DEF f
  <1>2. h[p] = m
    <2>1. ProductOnSet(f, Path(p, p)) = 1
      BY PathIs, ProductOfNone
    <2>. QED BY <1>0, <2>1
  <1>3. ASSUME NEW q \in Subtree(p) \ {p} PROVE h[q] = h[Parent(q)] * node[q].quantity
    <2>. DEFINE u == Parent(q)
                rest == ProductOnSet(f, Path(p, u))
    <2>1. u \in Subtree(p) /\ q \in Path(p, q) /\ Path(p, q) \ {q} = Path(p, u) /\ q \in Projects
      BY <1>0, SubtreeFacts, PathIs
    <2>2. ProductOnSet(f, Path(p, q)) = f[q] * rest
      BY <1>1, <2>1, ProductTakesAny
    <2>3. rest \in Nat /\ f[q] \in Nat /\ f[q] = node[q].quantity
      BY <1>1, <2>1, ProductIsPositive DEF f
    <2>4. h[q] = m * (f[q] * rest) /\ h[u] = m * rest
      BY <2>1, <2>2
    <2>. HIDE DEF h, rest, u
    <2>5. f[q] * rest = rest * f[q] /\ m * (rest * f[q]) = (m * rest) * f[q]
      BY <2>3, TimesCommutes
    <2>6. h[q] = h[u] * node[q].quantity
      BY <2>3, <2>4, <2>5
    <2>. QED BY <2>6 DEF u
  <1>4. \A q \in Subtree(p) : h[q] = Stride(m, p, h, q)
    BY <1>2, <1>3 DEF Stride
  <1>5. h = [q \in Subtree(p) |-> h[q]]
    OBVIOUS
  <1>. HIDE DEF h
  <1>6. h = [q \in Subtree(p) |-> Stride(m, p, h, q)]
    BY <1>4, <1>5
  <1>. QED BY <1>6 DEF IsWalk

LEMMA WalkIs ==
  ASSUME NodesShape, Forest, NEW p \in Projects, NEW m \in Nat
  PROVE  /\ DOMAIN Walk(p, m) = Subtree(p)
         /\ Walk(p, m)[p] = m
         /\ \A q \in Subtree(p) \ {p} : Walk(p, m)[q] = Walk(p, m)[Parent(q)] * node[q].quantity
  <1>. DEFINE h == CHOOSE h : IsWalk(m, p, h)
  <1>1. IsWalk(m, p, h)
    BY WalkExists
  <1>2. Walk(p, m) = h
    BY DEF Walk, IsWalk, Stride
  <1>. HIDE DEF h
  <1>3. DOMAIN h = Subtree(p) /\ \A q \in Subtree(p) : h[q] = Stride(m, p, h, q)
    BY <1>1 DEF IsWalk
  <1>. QED BY <1>2, <1>3, SubtreeFacts DEF Stride

(* An induction over the tree below p: where two projects differ from      *)
(* their parents there is one that differs first.                          *)
LEMMA TreeInduction ==
  ASSUME Forest, NEW p \in Projects, NEW T, p \in T, \A q \in Subtree(p) \ {p} : Parent(q) \in T => q \in T
  PROVE  Subtree(p) \subseteq T
  <1>. DEFINE S == Subtree(p) \ T
  <1>1. \A x \in S : Parent(x) \in S
    BY SubtreeFacts
  <1>2. S \in SUBSET Projects
    BY SubtreeFacts
  <1>. QED BY <1>1, <1>2 DEF Forest

LEMMA WalkIsPositive ==
  ASSUME NodesShape, Forest, NEW p \in Projects, NEW m \in Nat \ {0}
  PROVE  \A q \in Subtree(p) : Walk(p, m)[q] \in Nat \ {0}
  <1>. DEFINE T == {q \in Subtree(p) : Walk(p, m)[q] \in Nat \ {0}}
  <1>1. p \in T
    BY WalkIs, SubtreeFacts
  <1>2. ASSUME NEW q \in Subtree(p) \ {p}, Parent(q) \in T PROVE q \in T
    <2>1. node[q].quantity \in Nat \ {0}
      BY SubtreeFacts, QuantityIsPositive
    <2>2. Walk(p, m)[q] = Walk(p, m)[Parent(q)] * node[q].quantity /\ Walk(p, m)[Parent(q)] \in Nat \ {0}
      BY <1>2, WalkIs
    <2>3. \A a, b \in Nat \ {0} : a * b \in Nat \ {0}
      OBVIOUS
    <2>. QED BY <2>1, <2>2, <2>3
  <1>. HIDE DEF T
  <1>3. Subtree(p) \subseteq T
    BY <1>1, <1>2, TreeInduction
  <1>. QED BY <1>3 DEF T

(* On every page, a project of the tree is needed as often as on its own.  *)
LEMMA WalkIsChain ==
  ASSUME NodesShape, Forest, NEW p \in Projects
  PROVE  \A q \in Subtree(p) : Walk(p, ChainMultiplier(p))[q] = ChainMultiplier(q)
  <1>. DEFINE m == ChainMultiplier(p)
              T == {q \in Subtree(p) : Walk(p, m)[q] = ChainMultiplier(q)}
  <1>0. m \in Nat
    BY ChainIs
  <1>1. p \in T
    BY <1>0, WalkIs, SubtreeFacts
  <1>2. ASSUME NEW q \in Subtree(p) \ {p}, Parent(q) \in T PROVE q \in T
    <2>1. /\ q \in Projects /\ Exists(q) /\ Parent(q) \in Projects /\ Parent(q) # None
          /\ node[q].quantity \in Nat
      BY SubtreeFacts, QuantityIsPositive, ConstantsAssumption
    <2>2. Walk(p, m)[q] = ChainMultiplier(Parent(q)) * node[q].quantity
      BY <1>0, <1>2, WalkIs
    <2>3. ChainMultiplier(q) = node[q].quantity * ChainMultiplier(Parent(q)) /\ ChainMultiplier(Parent(q)) \in Nat
      BY <2>1, ChainIs
    <2>. QED BY <2>1, <2>2, <2>3, TimesCommutes
  <1>. HIDE DEF T
  <1>3. Subtree(p) \subseteq T
    BY <1>1, <1>2, TreeInduction
  <1>. QED BY <1>3 DEF T

-----------------------------------------------------------------------------
(* Hardware                                                                *)
Children(p) == {c \in Projects : Exists(c) /\ Parent(c) = p}

(* The trees below the children of a project are disjoint, and all that is *)
(* below it.                                                               *)
LEMMA SubtreeIs ==
  ASSUME Forest, NEW p \in Projects
  PROVE  /\ Subtree(p) \ {p} = UNION {Subtree(c) : c \in Children(p)}
         /\ \A c, d \in Children(p) : c # d => Subtree(c) \cap Subtree(d) = {}
  <1>. DEFINE All == UNION {Subtree(c) : c \in Children(p)}
  <1>1. ASSUME NEW c \in Children(p)
        PROVE  c \in Projects /\ Exists(c) /\ Parent(c) = p /\ c \in Subtree(p) /\ p \notin Subtree(c)
    <2>1. c \in Projects /\ Exists(c) /\ Parent(c) = p
      BY DEF Children
    <2>2. Parent(c) # None
      BY <2>1, ConstantsAssumption
    <2>. QED BY <2>1, <2>2, ParentIsOutside, SubtreeFacts DEF IsOutside, ClosedBelow
  <1>2. ASSUME NEW x \in All PROVE x \in Subtree(p) \ {p}
    <2>1. PICK c \in Children(p) : x \in Subtree(c)
      OBVIOUS
    <2>. QED BY <1>1, <2>1, BelowIsTransitive
  <1>3. Subtree(p) \subseteq {p} \cup All
    <2>1. \A q \in Subtree(p) \ {p} : q \in Projects /\ Exists(q)
      BY SubtreeFacts
    <2>2. ASSUME NEW q \in Subtree(p) \ {p}, Parent(q) = p PROVE q \in All
      BY <2>1, <2>2, SubtreeFacts DEF Children
    <2>3. ASSUME NEW q \in Subtree(p) \ {p}, Parent(q) \in All PROVE q \in All
      <3>1. PICK c \in Children(p) : Parent(q) \in Subtree(c)
        BY <2>3
      <3>2. q \in Subtree(c)
        BY <1>1, <2>1, <3>1, SubtreeFacts DEF ClosedBelow
      <3>. QED BY <3>2
    <2>. DEFINE T == {p} \cup All
    <2>4. p \in T /\ \A q \in Subtree(p) \ {p} : Parent(q) \in T => q \in T
      BY <2>2, <2>3
    <2>. HIDE DEF T
    <2>5. Subtree(p) \subseteq T
      BY <2>4, TreeInduction
    <2>. QED BY <2>5 DEF T
  <1>4. ASSUME NEW c \in Children(p), NEW d \in Children(p), c # d
        PROVE  Subtree(c) \cap Subtree(d) = {}
    <2>. DEFINE S == Subtree(c) \cap Subtree(d)
    <2>1. c \in Projects /\ d \in Projects /\ Parent(c) = p /\ Parent(d) = p /\ p \notin S
          /\ p \notin Subtree(c) /\ p \notin Subtree(d)
      BY <1>1
    <2>2. ASSUME NEW x \in S PROVE Parent(x) \in S
      BY <1>4, <2>1, SubtreeFacts
    <2>3. S \in SUBSET Projects
      BY <2>1, SubtreeFacts
    <2>. QED BY <2>2, <2>3 DEF Forest
  <1>. QED BY <1>2, <1>3, <1>4

(* A walk that comes from the parent multiplies by the quantity of a child.*)
LEMMA WalkBelow ==
  ASSUME NodesShape, Forest, NEW p \in Projects, NEW c \in Children(p)
  PROVE  \A q \in Subtree(c) : Walk(p, 1)[q] = node[c].quantity * Walk(c, 1)[q]
  <1>. DEFINE k == node[c].quantity
              T == {q \in Subtree(c) : Walk(p, 1)[q] = k * Walk(c, 1)[q]}
  <1>0. c \in Projects /\ Exists(c) /\ Parent(c) = p /\ k \in Nat /\ Subtree(c) \subseteq Subtree(p) \ {p}
    BY SubtreeIs, QuantityIsPositive DEF Children
  <1>1. c \in T
    <2>1. c \in Subtree(p) \ {p} /\ c \in Subtree(c)
      BY <1>0, SubtreeFacts
    <2>2. Walk(p, 1)[c] = Walk(p, 1)[p] * k /\ Walk(p, 1)[p] = 1 /\ Walk(c, 1)[c] = 1
      BY <1>0, <2>1, WalkIs
    <2>3. 1 * k = k * 1
      BY <1>0
    <2>. QED BY <2>1, <2>2, <2>3
  <1>2. ASSUME NEW q \in Subtree(c) \ {c}, Parent(q) \in T PROVE q \in T
    <2>. DEFINE u == Parent(q)
    <2>1. node[q].quantity \in Nat /\ u \in Subtree(c)
      BY <1>0, SubtreeFacts, QuantityIsPositive
    <2>2. Walk(p, 1)[q] = Walk(p, 1)[u] * node[q].quantity /\ Walk(c, 1)[q] = Walk(c, 1)[u] * node[q].quantity
      BY <1>0, WalkIs
    <2>3. Walk(p, 1)[u] = k * Walk(c, 1)[u] /\ Walk(c, 1)[u] \in Nat
      BY <1>0, <1>2, <2>1, WalkIsPositive
    <2>. HIDE DEF k, u
    <2>4. k * (Walk(c, 1)[u] * node[q].quantity) = (k * Walk(c, 1)[u]) * node[q].quantity
      BY <1>0, <2>1, <2>3, TimesCommutes
    <2>5. Walk(p, 1)[q] = k * Walk(c, 1)[q]
      BY <2>2, <2>3, <2>4
    <2>. QED BY <2>5 DEF k
  <1>. HIDE DEF T, k
  <1>3. Subtree(c) \subseteq T
    BY <1>0, <1>1, <1>2, TreeInduction
  <1>. QED BY <1>3 DEF T, k

Pieces(p) == [q \in Subtree(p) |-> Walk(p, 1)[q] * HardwareQuantity]

LEMMA HardwareIs ==
  ASSUME NodesShape, Forest, NEW p \in Projects
  PROVE  /\ \A q \in Subtree(p) : Pieces(p)[q] \in Nat
         /\ IsFiniteSet(Subtree(p))
         /\ HardwareRequirements(p) = SumFunctionOnSet(Pieces(p), Subtree(p))
  <1>1. DOMAIN Walk(p, 1) = Subtree(p) /\ \A q \in Subtree(p) : Walk(p, 1)[q] \in Nat
    BY WalkIs, WalkIsPositive
  <1>2. HardwareRequirements(p) = SumFunction(Pieces(p))
    BY <1>1 DEF HardwareRequirements, CollectHardware, Pieces
  <1>3. IsFiniteSet(Subtree(p))
    BY SubtreeFacts, QuantityAssumption, FS_Subset
  <1>4. \A q \in Subtree(p) : Pieces(p)[q] \in Nat
    <2>1. HardwareQuantity \in Nat
      BY QuantityAssumption
    <2>. QED BY <1>1, <2>1, TimesCommutes DEF Pieces
  <1>. QED BY <1>2, <1>3, <1>4 DEF SumFunction, Pieces

LEMMA HardwareAddsUp ==
  ASSUME NodesShape, Forest, NEW p \in Projects
  PROVE  HardwareRequirements(p) =
           HardwareQuantity + SumFunction([c \in Children(p) |-> node[c].quantity * HardwareRequirements(c)])
  <1>. DEFINE f == Pieces(p)
              g == [c \in Children(p) |-> node[c].quantity * HardwareRequirements(c)]
              P == [c \in Children(p) |-> Subtree(c)]
              Below == Subtree(p) \ {p}
  <1>1. Below = UNION {P[c] : c \in Children(p)} /\ \A c, d \in Children(p) : c # d => P[c] \cap P[d] = {}
    BY SubtreeIs
  <1>2. \A q \in Subtree(p) : f[q] \in Nat
    BY HardwareIs
  <1>3. ASSUME NEW c \in Children(p) PROVE IsFiniteSet(P[c]) /\ g[c] = SumFunctionOnSet(f, P[c])
    <2>. DEFINE k == node[c].quantity
    <2>1. c \in Projects /\ k \in Nat /\ P[c] = Subtree(c) /\ Subtree(c) \subseteq Subtree(p)
      BY <1>1, QuantityIsPositive DEF Children
    <2>2. IsFiniteSet(Subtree(c)) /\ g[c] = k * SumFunctionOnSet(Pieces(c), Subtree(c))
      BY <2>1, HardwareIs
    <2>3. ASSUME NEW q \in Subtree(c) PROVE Pieces(c)[q] \in Nat /\ f[q] = k * Pieces(c)[q]
      <3>1. f[q] = Walk(p, 1)[q] * HardwareQuantity /\ Pieces(c)[q] = Walk(c, 1)[q] * HardwareQuantity
        BY <2>1 DEF Pieces
      <3>2. Walk(p, 1)[q] = k * Walk(c, 1)[q] /\ Walk(c, 1)[q] \in Nat /\ HardwareQuantity \in Nat
        BY <2>1, WalkBelow, WalkIsPositive, QuantityAssumption
      <3>. HIDE DEF f, k
      <3>. QED BY <2>1, <3>1, <3>2, TimesCommutes
    <2>. HIDE DEF f, g, k, P
    <2>4. SumFunctionOnSet(f, Subtree(c)) = k * SumFunctionOnSet(Pieces(c), Subtree(c))
      BY <2>1, <2>2, <2>3, SumTimes
    <2>. QED BY <2>1, <2>2, <2>4
  <1>4. IsFiniteSet(Children(p)) /\ DOMAIN g = Children(p)
    <2>1. Children(p) \subseteq Projects
      BY DEF Children
    <2>. QED BY <2>1, QuantityAssumption, FS_Subset
  <1>5. f[p] = HardwareQuantity /\ HardwareQuantity \in Nat /\ p \in Subtree(p)
    <2>1. p \in Subtree(p) /\ Walk(p, 1)[p] = 1 /\ HardwareQuantity \in Nat
      BY WalkIs, SubtreeFacts, QuantityAssumption
    <2>. QED BY <2>1 DEF Pieces
  <1>. HIDE DEF f, g, P
  <1>6. SumFunctionOnSet(f, Below) = SumFunctionOnSet(g, Children(p))
    <2>1. \A c \in Children(p) : \A q \in P[c] : f[q] \in Nat
      BY <1>1, <1>2
    <2>2. SumFunctionOnSet(f, UNION {P[c] : c \in Children(p)}) = SumFunctionOnSet(g, Children(p))
      BY <1>1, <1>3, <1>4, <2>1, SumOfParts
    <2>. QED BY <1>1, <2>2
  <1>7. SumFunctionOnSet(f, Subtree(p)) = f[p] + SumFunctionOnSet(f, Below)
    BY <1>2, <1>5, HardwareIs, SumTakesAny
  <1>8. HardwareRequirements(p) = SumFunctionOnSet(f, Subtree(p))
    BY HardwareIs DEF f
  <1>. QED BY <1>4, <1>5, <1>6, <1>7, <1>8 DEF SumFunction, g

-----------------------------------------------------------------------------
(* The page of a project                                                   *)
Needed(p) == [q \in Subtree(p) |-> ChainMultiplier(q) * PartQuantity]
Printed(q) == IF used[q] = "history" THEN PrintedQuantity ELSE 0
Rows(p) == [q \in Subtree(p) |-> [needed |-> Needed(p)[q], printed |-> Printed(q)]]
Capped(p) == [q \in Subtree(p) |-> Least(Rows(p)[q].printed, Rows(p)[q].needed)]
Missing(p) == [q \in Subtree(p) |-> Remaining(Rows(p)[q])]

LEMMA PageIs ==
  ASSUME NodesShape, Forest, NEW p \in Projects
  PROVE  /\ CollectParts(p, ChainMultiplier(p)) = Needed(p)
         /\ BuildProgress(p) =
              [needed |-> SumFunction(Needed(p)), printed |-> SumFunction(Capped(p)),
               percent |-> (SumFunction(Capped(p)) * 100) \div SumFunction(Needed(p)), parts |-> Rows(p)]
  <1>. DEFINE parts == CollectParts(p, ChainMultiplier(p))
              rows == [q \in DOMAIN parts |->
                         [needed |-> parts[q], printed |-> IF used[q] = "history" THEN PrintedQuantity ELSE 0]]
              capped == [q \in DOMAIN rows |-> Least(rows[q].printed, rows[q].needed)]
  <1>1. parts = Needed(p)
    <2>1. ChainMultiplier(p) \in Nat
      BY ChainIs
    <2>2. DOMAIN Walk(p, ChainMultiplier(p)) = Subtree(p)
      BY <2>1, WalkIs
    <2>3. \A q \in Subtree(p) : Walk(p, ChainMultiplier(p))[q] = ChainMultiplier(q)
      BY WalkIsChain
    <2>. QED BY <2>2, <2>3 DEF CollectParts, Needed
  <1>2. BuildProgress(p) = [needed |-> SumFunction(parts), printed |-> SumFunction(capped),
                            percent |-> (SumFunction(capped) * 100) \div SumFunction(parts), parts |-> rows]
    BY DEF BuildProgress
  <1>. HIDE DEF parts
  <1>3. rows = Rows(p)
    BY <1>1 DEF Rows, Needed, Printed
  <1>. HIDE DEF rows
  <1>4. capped = Capped(p)
    BY <1>3 DEF Capped, Rows
  <1>. HIDE DEF capped
  <1>. QED BY <1>1, <1>2, <1>3, <1>4 DEF parts

(* What is printed of every part, up to its need, and what is missing make *)
(* up the need.                                                            *)
LEMMA NeedIsMetOrMissing ==
  ASSUME NodesShape, Forest, NEW p \in Projects
  PROVE  /\ SumFunction(Needed(p)) \in Nat \ {0}
         /\ SumFunction(Capped(p)) \in Nat /\ SumFunction(Missing(p)) \in Nat
         /\ SumFunction(Needed(p)) = SumFunction(Capped(p)) + SumFunction(Missing(p))
         /\ SumFunction(Missing(p)) = 0 <=> \A q \in Subtree(p) : Remaining(Rows(p)[q]) = 0
  <1>. DEFINE S == Subtree(p)
              n == Needed(p)
              c == Capped(p)
              m == Missing(p)
  <1>1. IsFiniteSet(S) /\ p \in S /\ S \subseteq Projects
    BY HardwareIs, SubtreeFacts
  <1>2. ASSUME NEW q \in S
        PROVE  n[q] \in Nat \ {0} /\ c[q] \in Nat /\ m[q] \in Nat /\ n[q] = c[q] + m[q]
               /\ m[q] = Remaining(Rows(p)[q])
    <2>1. ChainMultiplier(q) \in Nat \ {0} /\ PartQuantity \in Nat \ {0} /\ PrintedQuantity \in Nat
      BY <1>1, ChainIs, QuantityAssumption
    <2>2. \A a, b \in Nat \ {0} : a * b \in Nat \ {0}
      OBVIOUS
    <2>3. n[q] \in Nat \ {0}
      BY <2>1, <2>2 DEF Needed
    <2>4. Rows(p)[q] = [needed |-> n[q], printed |-> Printed(q)] /\ Printed(q) \in Nat
      BY <2>1 DEF Rows, Printed
    <2>5. c[q] = Least(Printed(q), n[q]) /\ m[q] = n[q] - Least(Printed(q), n[q])
          /\ m[q] = Remaining(Rows(p)[q])
      BY <2>4 DEF Capped, Missing, Remaining
    <2>. QED BY <2>3, <2>4, <2>5 DEF Least
  <1>3. /\ SumFunction(n) = SumFunctionOnSet(n, S)
        /\ SumFunction(c) = SumFunctionOnSet(c, S)
        /\ SumFunction(m) = SumFunctionOnSet(m, S)
    BY DEF SumFunction, Needed, Capped, Missing
  <1>. HIDE DEF S, n, c, m
  <1>4. SumFunctionOnSet(n, S) = SumFunctionOnSet(c, S) + SumFunctionOnSet(m, S)
    BY <1>1, <1>2, SumAdds
  <1>5. SumFunctionOnSet(n, S) \in Nat /\ SumFunctionOnSet(c, S) \in Nat /\ SumFunctionOnSet(m, S) \in Nat
    <2>1. \A q \in S : n[q] \in Nat /\ c[q] \in Nat /\ m[q] \in Nat
      BY <1>2
    <2>. QED BY <1>1, <2>1, SumIsNat
  <1>6. SumFunctionOnSet(n, S) # 0
    <2>1. \A q \in S : n[q] \in Nat /\ n[q] # 0
      BY <1>2
    <2>. QED BY <1>1, <2>1, SumIsNothing
  <1>7. SumFunctionOnSet(m, S) = 0 <=> \A q \in S : m[q] = 0
    BY <1>1, <1>2, SumIsNothing
  <1>. QED BY <1>2, <1>3, <1>4, <1>5, <1>6, <1>7 DEF S, n, c, m

(* 100 % is rounded down from nothing less.                                *)
LEMMA FullPercent ==
  ASSUME NEW a \in Nat, NEW b \in Nat \ {0}, a <= b
  PROVE  (a * 100) \div b = 100 <=> a = b
  OBVIOUS

LEMMA PagesAgree ==
  ASSUME NodesShape, Forest, NEW p \in Projects
  PROVE  /\ \A q \in DOMAIN BuildProgress(p).parts : BuildProgress(p).parts[q] = BuildProgress(q).parts[q]
         /\ AggregatedStatus(p) = "complete" <=> BuildProgress(p).percent = 100
         /\ FilamentRequirements(p) =
              [total |-> TotalPartsCount(p), remaining |-> BuildProgress(p).needed - BuildProgress(p).printed]
  <1>. DEFINE n == SumFunction(Needed(p))
              c == SumFunction(Capped(p))
              m == SumFunction(Missing(p))
  <1>1. \A q \in Projects : BuildProgress(q).parts = Rows(q)
    BY PageIs
  <1>2. BuildProgress(p).needed = n /\ BuildProgress(p).printed = c /\ BuildProgress(p).percent = (c * 100) \div n
    BY PageIs
  <1>3. n \in Nat \ {0} /\ c \in Nat /\ m \in Nat /\ n = c + m
        /\ (m = 0 <=> \A q \in Subtree(p) : Remaining(Rows(p)[q]) = 0)
    BY NeedIsMetOrMissing
  <1>4. \A q \in Subtree(p) : Rows(p)[q] = Rows(q)[q]
    BY SubtreeFacts DEF Rows, Needed
  <1>5. DOMAIN Rows(p) = Subtree(p) /\ Subtree(p) \subseteq Projects
    BY SubtreeFacts DEF Rows
  <1>6. AggregatedStatus(p) = "complete" <=> m = 0
    BY <1>1, <1>3, <1>5 DEF AggregatedStatus
  <1>7. FilamentRequirements(p) = [total |-> TotalPartsCount(p), remaining |-> m]
    <2>1. [q \in DOMAIN Rows(p) |-> Rows(p)[q].needed] = Needed(p)
      BY <1>5 DEF Rows, Needed
    <2>2. [q \in DOMAIN Rows(p) |-> Remaining(Rows(p)[q])] = Missing(p)
      BY <1>5 DEF Missing
    <2>3. TotalPartsCount(p) = n
      BY PageIs DEF TotalPartsCount
    <2>. QED BY <1>1, <2>1, <2>2, <2>3 DEF FilamentRequirements
  <1>. HIDE DEF n, c, m
  <1>8. (c * 100) \div n = 100 <=> m = 0
    <2>1. c <= n /\ (c = n <=> m = 0)
      BY <1>3
    <2>. QED BY <1>3, <2>1, FullPercent
  <1>9. n - c = m
    BY <1>3
  <1>. QED BY <1>1, <1>2, <1>4, <1>5, <1>6, <1>7, <1>8, <1>9

(* Whatever was moved, edited and copied, the pages of a tree agree on     *)
(* what is needed, on what is complete, and on the hardware.               *)
THEOREM NeedsAlwaysAgree ==
  ASSUME StaleMoves = FALSE PROVE Spec => []NeedsAgree
  <1>1. TreeInv => NeedsAgree
    <2>. SUFFICES ASSUME TreeInv, NEW p \in Projects, Exists(p)
                  PROVE  LET page == BuildProgress(p) IN
                         /\ \A q \in DOMAIN page.parts \ {p} : page.parts[q] = BuildProgress(q).parts[q]
                         /\ AggregatedStatus(p) = "complete" <=> page.percent = 100
                         /\ FilamentRequirements(p) =
                              [total |-> TotalPartsCount(p), remaining |-> page.needed - page.printed]
                         /\ HardwareRequirements(p) = HardwareQuantity
                              + SumFunction([c \in {d \in {x \in Projects : Exists(x)} : Parent(d) = p} |->
                                               node[c].quantity * HardwareRequirements(c)])
      BY DEF NeedsAgree
    <2>1. NodesShape /\ Forest
      BY ConstantsAssumption DEF TreeInv
    <2>2. {d \in {x \in Projects : Exists(x)} : Parent(d) = p} = Children(p)
      BY DEF Children
    <2>. QED BY <2>1, <2>2, PagesAgree, HardwareAddsUp
  <1>. QED BY <1>1, InitTreeInv, StepTreeInv, PTL DEF Spec

=============================================================================
