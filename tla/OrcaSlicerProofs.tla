-------------------------- MODULE OrcaSlicerProofs --------------------------
(***************************************************************************)
(* Proofs about what surrounds a run of OrcaSlicer: the import of profiles *)
(* (ProfileImport) and the estimates of parts (PartEstimates).             *)
(*                                                                         *)
(* What an import has still to look at is in the memory of the process     *)
(* alone.  Covered says that whatever waits for a resolved parent is in    *)
(* it, or was lost in a failure that neglected records, so nothing else is *)
(* left when the import ends (PendingHasAReason).                          *)
(*                                                                         *)
(* While nothing was replaced, a resolved row was laid over a row that is  *)
(* still the parent found for it (Stacked).  So the slicer, as it climbs,  *)
(* takes off one layer of the leaf's settings after the other              *)
(* (ClimbIsOnTheWay), comes by no name twice since every parent has fewer  *)
(* layers, and ends with the files the settings were made of.  What the    *)
(* two merges then make of one setting agrees by induction over the files  *)
(* (MergesAgree), which gives ShownIsSent.                                 *)
(*                                                                         *)
(* If no request writes back a row that others have changed                *)
(* (StaleReads = FALSE), then for any number of parts, projects, presets,  *)
(* models and concurrent requests, and any number of restarts:             *)
(*   - a part shown as estimating is under way, and                        *)
(*   - a stored estimate was computed from the part's present model.       *)
(***************************************************************************)
EXTENDS ProfileImport, PartEstimates, FiniteSums

-----------------------------------------------------------------------------
(* Profiles.                                                               *)

Keyed(saved, k, n) == saved.kind = k /\ saved.name = n

TableOK ==
    /\ table \in [Kinds -> [Names -> Profile \cup {NoValue}]]
    /\ \A k \in Kinds, n \in Names : table[k][n] # NoValue => Keyed(table[k][n], k, n)

\* What a process has in memory.
Jobs == [step : {"idle", "finding", "resolving", "giving up", "children"},
         self : Profile \cup {NoValue}, layers : Seq(1 .. MaxUploads),
         todo : SUBSET Work, parents : SUBSET Profile]

HasSelf(i) == importer[i].step \in {"finding", "resolving", "giving up"}

ImporterOK ==
    /\ importer \in [Importers -> Jobs]
    /\ \A i \in Importers : HasSelf(i) => importer[i].self \in Profile

CountsOK ==
    /\ uploads \in 0 .. MaxUploads /\ faults \in 0 .. MaxFaults
    /\ replaced \in BOOLEAN /\ neglected \subseteq Kinds \X Names

SlicerOK == slicer \in Slicings /\ (slicer.step = "climbing" => slicer.current \in Profile)

Types == TableOK /\ ImporterOK /\ CountsOK /\ SlicerOK

\* Row r names row p as its parent, by one of its names.
Below(r, p) == r.kind = p.kind /\ r.inherits \in {p.name, p.former} \ {NoValue}

\* Two versions of a row that differ in what was resolved alone.
SameFile(r, s) ==
    /\ r.kind = s.kind /\ r.name = s.name /\ r.own = s.own
    /\ r.inherits = s.inherits /\ r.former = s.former

SoleImport ==
    \A i, j \in Importers : importer[i].step # "idle" /\ importer[j].step # "idle" => i = j

\* What an import works on is what the table has, but for what it has resolved meanwhile.
InTable ==
    \A i \in Importers :
        /\ HasSelf(i) => importer[i].self \in Rows
        /\ importer[i].step = "children" =>
             /\ \A q \in importer[i].parents : q \in Rows /\ q.state = "resolved"
             /\ \A w \in importer[i].todo : \E old \in Rows : SameFile(old, w.child)

\* The import of process i will come to row r, or to its parent p.
WillSee(i, r, p) ==
    \/ HasSelf(i) /\ (Keyed(importer[i].self, r.kind, r.name) \/ Keyed(importer[i].self, p.kind, p.name))
    \/ /\ importer[i].step = "children"
       /\ p \in importer[i].parents \/ \E w \in importer[i].todo : Keyed(w.child, r.kind, r.name)

Neglected(r, p) == neglected \cap {Key(r), Key(p)} # {}

Covered ==
    \A r, p \in Rows :
        r.state = "pending" /\ p.state = "resolved" /\ p \in FindParent(r.kind, r.inherits)
            => Neglected(r, p) \/ \E i \in Importers : WillSee(i, r, p)

GivesUpRightly ==
    \A i \in Importers : \A k, h :
        importer[i].step = "giving up" /\ k = importer[i].self.kind /\ h = importer[i].self.inherits =>
            \A p \in FindParent(k, h) : p.state # "resolved"

CoverInv == Types /\ SoleImport /\ InTable /\ Covered /\ GivesUpRightly

\* The settings of row r will be, or are, those layers with its own on top.
LiesOn(r, layers) ==
    \/ r.inherits = NoValue /\ layers = << >>
    \/ \E p \in FindParent(r.kind, r.inherits) : p.state = "resolved" /\ layers = p.settings

\* Resolved rows were laid over their parents.
Stacked ==
    \A r \in Rows : r.state = "resolved" =>
        \E layers \in Seq(1 .. MaxUploads) : LiesOn(r, layers) /\ r.settings = Append(layers, r.own)

\* What the import works on waits, and has its parent's settings.
WorkIsCurrent ==
    \A i \in Importers :
        /\ HasSelf(i) => importer[i].self \in Rows /\ importer[i].self.state = "pending"
        /\ importer[i].step = "resolving" => LiesOn(importer[i].self, importer[i].layers)
        /\ importer[i].step = "children" =>
             \A w \in importer[i].todo :
                  w.child \in Rows /\ w.child.state = "pending" /\ LiesOn(w.child, w.layers)

\* The slicer has collected the upper layers of the leaf, and the row it is at lies on the
\* other ones; it came by rows with more layers.
OnTheWay(current, chain, visited, settings) ==
    /\ current \in Rows /\ current.state = "resolved"
    /\ \E layers \in Seq(1 .. MaxUploads) : LiesOn(current, layers) /\ settings = layers \o chain
    /\ \A n \in visited : \E x \in Rows :
         /\ Keyed(x, current.kind, n) /\ x.state = "resolved"
         /\ Len(x.settings) >= Len(current.settings)

ClimbIsOnTheWay ==
    /\ slicer.step = "climbing" =>
         OnTheWay(slicer.current, slicer.chain, slicer.visited, slicer.leaf.settings)
    /\ slicer.step = "done" => slicer.chain = slicer.leaf.settings

Layers == Stacked /\ WorkIsCurrent /\ ClimbIsOnTheWay

LayerInv == CoverInv /\ (~replaced => Layers)

-----------------------------------------------------------------------------
\* A row is found in the table where its type and its name say.
LEMMA RowFacts ==
  ASSUME TableOK, NEW r \in Rows
  PROVE  /\ r \in Profile /\ r # NoValue
         /\ r.kind \in Kinds /\ r.name \in Names /\ r.state \in {"pending", "resolved"}
         /\ r.inherits \in ParentNames /\ r.settings \in Seq(1 .. MaxUploads)
         /\ table[r.kind][r.name] = r /\ r \in RowsOf(r.kind)
<1>1. PICK k \in Kinds, n \in Names : r = table[k][n] /\ r # NoValue
  BY DEF Rows, RowsOf
<1>2. r \in Profile /\ Keyed(r, k, n)
  BY <1>1 DEF TableOK
<1> QED BY <1>1, <1>2 DEF Keyed, Profile, RowsOf

\* Two rows of one type and one name are one row.
LEMMA OneRowPerName ==
  ASSUME TableOK, NEW r \in Rows, NEW s \in Rows, r.kind = s.kind, r.name = s.name
  PROVE  r = s
BY RowFacts

LEMMA RowsOfFacts ==
  ASSUME TableOK, NEW k \in Kinds, NEW r
  PROVE  r \in RowsOf(k) <=> r \in Rows /\ r.kind = k
<1>1. r \in RowsOf(k) => r \in Rows /\ r.kind = k
  BY DEF Rows, RowsOf, TableOK, Keyed
<1>2. r \in Rows /\ r.kind = k => r \in RowsOf(k)
  BY RowFacts
<1> QED BY <1>1, <1>2

LEMMA NextRowsOf ==
  ASSUME TableOK', NEW k \in Kinds, NEW r
  PROVE  r \in RowsOf(k)' <=> r \in Rows' /\ r.kind = k
<1>1. r \in RowsOf(k)' => r \in Rows' /\ r.kind = k
  BY DEF Rows, RowsOf, TableOK, Keyed
<1>2. ASSUME r \in Rows', r.kind = k
      PROVE  r \in RowsOf(k)'
  <2>1. PICK l \in Kinds, n \in Names : r = table'[l][n] /\ r # NoValue
    BY <1>2 DEF Rows, RowsOf
  <2> QED BY <1>2, <2>1 DEF TableOK, Keyed, RowsOf
<1> QED BY <1>1, <1>2

\* FindParent, among the rows R of one type.
FindIn(R, h) ==
    {p \in R : \/ p.name = h
               \/ /\ \A r \in R : r.name # h
                  /\ h # NoValue /\ p.former = h
                  /\ \A s \in R : s.former = h => Rank[p.name] <= Rank[s.name]}

LEMMA FindParentIs ==
  ASSUME NEW k, NEW h
  PROVE  /\ FindParent(k, h) = FindIn(RowsOf(k), h)
         /\ FindParent(k, h)' = FindIn(RowsOf(k)', h)
BY DEF FindParent, FindIn

\* One parent is found, if any, of the same type and with that name.
LEMMA FoundParents ==
  ASSUME TableOK, NEW k \in Kinds, NEW h \in ParentNames, NEW p \in FindParent(k, h)
  PROVE  /\ p \in Rows /\ p.kind = k /\ h \in {p.name, p.former} \ {NoValue}
         /\ \A q \in FindParent(k, h) : q = p
<1>1. \A x : x \in RowsOf(k) <=> x \in Rows /\ x.kind = k
  BY RowsOfFacts
<1>2. \A x \in Rows : x.name \in Names /\ x.name # NoValue
  BY RowFacts, NamesAssumption
<1>3. \A x \in FindParent(k, h) : x \in Rows /\ x.kind = k /\ h \in {x.name, x.former} \ {NoValue}
  BY <1>1, <1>2, FindParentIs DEF FindIn
<1>4. ASSUME NEW q \in FindParent(k, h)
      PROVE  q.name = p.name
  <2>1. CASE p.name = h \/ q.name = h
    BY <1>1, <1>3, <2>1, FindParentIs DEF FindIn
  <2>2. CASE p.name # h /\ q.name # h
    <3>1. Rank[p.name] <= Rank[q.name] /\ Rank[q.name] <= Rank[p.name]
      BY <1>1, <1>3, <2>2, FindParentIs DEF FindIn
    <3>2. Rank[p.name] \in Nat /\ Rank[q.name] \in Nat /\ p.name \in Names /\ q.name \in Names
      BY <1>2, <1>3, NamesAssumption
    <3>3. Rank[p.name] = Rank[q.name]
      BY <3>1, <3>2
    <3> QED BY <3>2, <3>3, NamesAssumption
  <2> QED BY <2>1, <2>2
<1> QED BY <1>3, <1>4, OneRowPerName

LEMMA FoundParentsOf ==
  ASSUME TableOK, NEW r \in Rows, NEW p \in FindParent(r.kind, r.inherits)
  PROVE  p \in Rows /\ Below(r, p) /\ \A q \in FindParent(r.kind, r.inherits) : q = p
<1>1. r.kind \in Kinds /\ r.inherits \in ParentNames
  BY RowFacts
<1> QED BY <1>1, FoundParents DEF Below

\* The children the code looks up are those that wait below a parent.
LEMMA FoundChildren ==
  ASSUME TableOK, NEW q \in Profile, NEW r
  PROVE  r \in WaitingChildren(q) <=> r \in Rows /\ Below(r, q) /\ r.state = "pending"
BY RowsOfFacts DEF WaitingChildren, Below, Profile

\* Saving a row replaces the one of its type and name.
LEMMA Saved ==
  ASSUME TableOK, NEW saved \in Profile, SaveRow(saved)
  PROVE  /\ TableOK'
         /\ \A r : r \in Rows' <=> r = saved \/ (r \in Rows /\ ~Keyed(r, saved.kind, saved.name))
<1>1. saved.kind \in Kinds /\ saved.name \in Names /\ saved # NoValue
  BY NamesAssumption DEF Profile
<1>2. \A k \in Kinds, n \in Names :
        table'[k][n] = IF k = saved.kind /\ n = saved.name THEN saved ELSE table[k][n]
  BY <1>1 DEF SaveRow, TableOK
<1>3. table' \in [Kinds -> [Names -> Profile \cup {NoValue}]]
  BY <1>1 DEF SaveRow, TableOK
<1>4. TableOK'
  BY <1>2, <1>3 DEF TableOK, Keyed
<1>5. \A r : r \in Rows' <=> \E k \in Kinds, n \in Names : r = table'[k][n] /\ r # NoValue
  BY DEF Rows, RowsOf
<1>6. \A r : r \in Rows <=> \E k \in Kinds, n \in Names : r = table[k][n] /\ r # NoValue
  BY DEF Rows, RowsOf
<1>7. ASSUME NEW r \in Rows'
      PROVE  r = saved \/ (r \in Rows /\ ~Keyed(r, saved.kind, saved.name))
  <2>1. PICK k \in Kinds, n \in Names : r = table'[k][n] /\ r # NoValue
    BY <1>5
  <2> QED BY <1>2, <1>6, <2>1 DEF TableOK, Keyed
<1>8. saved \in Rows'
  BY <1>1, <1>2, <1>5
<1>9. ASSUME NEW r \in Rows, ~Keyed(r, saved.kind, saved.name)
      PROVE  r \in Rows'
  BY <1>2, <1>5, <1>9, RowFacts DEF Keyed
<1> QED BY <1>4, <1>7, <1>8, <1>9

\* A row that is saved from the same file is found for the names its old version was found for,
\* and the others are found as before.
LEMMA FoundAgain ==
  ASSUME TableOK, NEW saved \in Profile, SaveRow(saved), NEW old \in Rows, SameFile(old, saved),
         NEW k \in Kinds, NEW h, NEW p
  PROVE  p \in FindParent(k, h)' <=> IF p = saved THEN old \in FindParent(k, h)
                                                  ELSE p \in FindParent(k, h) /\ p # old
<1> DEFINE R == RowsOf(k)
           R2 == RowsOf(k)'
<1>1. \A r : r \in R <=> r \in Rows /\ r.kind = k
  BY RowsOfFacts
<1>2. \A r : r \in R2 <=> r \in Rows' /\ r.kind = k
  BY Saved, NextRowsOf
<1>3. \A r : r \in Rows' <=> r = saved \/ (r \in Rows /\ ~Keyed(r, saved.kind, saved.name))
  BY Saved
<1>4. \A r \in Rows : Keyed(r, saved.kind, saved.name) <=> r = old
  BY OneRowPerName DEF Keyed, SameFile
<1>5. FindParent(k, h) = FindIn(R, h) /\ FindParent(k, h)' = FindIn(R2, h)
  BY FindParentIs
<1>a. saved.name = old.name /\ saved.former = old.former /\ saved.kind = old.kind
  BY DEF SameFile
<1> HIDE DEF R, R2
<1>6. CASE old.kind = k
  <2>1. old \in R /\ R2 = (R \ {old}) \cup {saved}
    BY <1>1, <1>2, <1>3, <1>4, <1>6, <1>a
  <2>2. (\A r \in R : r.name # h) <=> \A r \in R2 : r.name # h
    BY <2>1, <1>a
  <2>3. \A x : (\A s \in R : s.former = h => Rank[x] <= Rank[s.name])
                 <=> \A s \in R2 : s.former = h => Rank[x] <= Rank[s.name]
    BY <2>1, <1>a
  <2>4. saved \in FindIn(R2, h) <=> old \in FindIn(R, h)
    BY <2>1, <2>2, <2>3, <1>a DEF FindIn
  <2>5. p # saved => (p \in FindIn(R2, h) <=> p \in FindIn(R, h) /\ p # old)
    BY <2>1, <2>2, <2>3 DEF FindIn
  <2> QED BY <1>5, <2>4, <2>5
<1>7. CASE old.kind # k
  <2>1. R2 = R /\ old \notin R /\ saved \notin R2
    BY <1>1, <1>2, <1>3, <1>4, <1>7, <1>a
  <2> QED BY <1>5, <2>1 DEF FindIn
<1> QED BY <1>6, <1>7

\* A step that leaves the table alone leaves the rows alone, and the parents found.
LEMMA SameRows ==
  UNCHANGED table => Rows' = Rows /\ \A k, h : FindParent(k, h)' = FindParent(k, h)
<1> SUFFICES ASSUME table' = table
             PROVE  Rows' = Rows /\ \A k, h : FindParent(k, h)' = FindParent(k, h)
  OBVIOUS
<1>1. Rows' = Rows /\ \A k : RowsOf(k)' = RowsOf(k)
  BY DEF Rows, RowsOf
<1> QED BY <1>1, FindParentIs

\* The other processes are as they were.
LEMMA Went ==
  ASSUME ImporterOK, NEW i \in Importers, NEW s, Goes(i, s)
  PROVE  importer'[i] = s /\ \A j \in Importers : j # i => importer'[j] = importer[j]
BY DEF Goes, ImporterOK

\* A process takes a step to something it may have in memory.
LEMMA WentOK ==
  ASSUME ImporterOK, NEW i \in Importers, NEW s \in Jobs, Goes(i, s),
         s.step \in {"finding", "resolving", "giving up"} => s.self \in Profile
  PROVE  ImporterOK'
<1>1. importer' \in [Importers -> Jobs]
  BY DEF Goes, ImporterOK
<1> QED BY <1>1, Went DEF ImporterOK, HasSelf

LEMMA IdleType == IdleImporter \in Jobs /\ IdleImporter.step = "idle"
BY DEF IdleImporter, Jobs

\* What a process remembers when it begins an import, and after it has saved the row.
LEMMA FromIdle ==
  ASSUME NEW saved \in Profile
  PROVE  LET finding == [IdleImporter EXCEPT !.step = "finding", !.self = saved]
             children == [IdleImporter EXCEPT !.step = "children", !.parents = {saved}]
         IN  /\ finding \in Jobs /\ finding.step = "finding" /\ finding.self = saved
             /\ children \in Jobs /\ children.step = "children"
             /\ children.parents = {saved} /\ children.todo = {}
<1>1. IdleImporter.todo = {}
  BY DEF IdleImporter
<1> QED BY <1>1, IdleType DEF Jobs

\* A resolved row is a row.
LEMMA ResolvedType ==
  ASSUME NEW saved \in Profile, NEW layers \in Seq(1 .. MaxUploads)
  PROVE  /\ Resolved(saved, layers) \in Profile
         /\ SameFile(saved, Resolved(saved, layers))
         /\ Resolved(saved, layers).state = "resolved"
         /\ Resolved(saved, layers).settings = Append(layers, saved.own)
<1> DEFINE s == Append(layers, saved.own)
<1>1. saved.own \in 1 .. MaxUploads
  BY DEF Profile
<1>2. s \in Seq(1 .. MaxUploads)
  BY <1>1
<1>3. Resolved(saved, layers) = [saved EXCEPT !.state = "resolved", !.settings = s]
  BY DEF Resolved
<1> HIDE DEF s
<1>4. Resolved(saved, layers).settings = s
  BY <1>3 DEF Profile
<1>5. /\ Resolved(saved, layers) \in Profile
      /\ SameFile(saved, Resolved(saved, layers))
      /\ Resolved(saved, layers).state = "resolved"
  BY <1>2, <1>3 DEF Profile, SameFile
<1> QED BY <1>4, <1>5 DEF s

-----------------------------------------------------------------------------
\* The steps, with the three pages for an import taken together.
LEMMA StepCases ==
  ASSUME [ImportNext]_importVars
  PROVE  \/ \E i \in Importers, k \in Kinds, n \in Names, h \in ParentNames, g \in ParentNames : Upload(i, k, n, h, g)
         \/ \E i \in Importers : ImportStep(i)
         \/ \E k \in Kinds, n \in Names : Delete(k, n)
         \/ SlicerStep
         \/ UNCHANGED importVars
<1>1. FormerNames \cup {NoValue} \subseteq ParentNames
  BY NamesAssumption DEF ParentNames
<1> QED BY <1>1, NamesAssumption
    DEF ImportNext, ImportMachineProfile, ImportFilamentProfile, ImportProcessProfile

\* The keys history collects are keys.
LEMMA KeyType ==
  ASSUME NEW r \in Profile
  PROVE  Key(r) \in Kinds \X Names
BY DEF Key, Profile

LEMMA LeftType ==
  ASSUME TableOK, NEW k \in Kinds, NEW n
  PROVE  LeftToAnother(k, n) \subseteq Kinds \X Names
<1>1. \A r \in RowsOf(k) : r \in Profile
  BY RowsOfFacts, RowFacts
<1> QED BY <1>1, KeyType DEF LeftToAnother

\* What an upload saves and remembers: a new row waits, one that exists keeps its state.
LEMMA UploadFacts ==
  ASSUME Types, NEW i \in Importers, NEW k \in Kinds, NEW n \in Names, NEW h \in ParentNames, NEW g \in ParentNames,
         Upload(i, k, n, h, g)
  PROVE  /\ \E saved \in Profile :
              /\ Keyed(saved, k, n) /\ SaveRow(saved) /\ Goes(i, [IdleImporter EXCEPT !.step = "finding", !.self = saved])
              /\ ~replaced' => saved.state = "pending" /\ \A r \in Rows : ~Keyed(r, k, n)
         /\ ~replaced' => ~replaced /\ ~ParentChanges(k)
         /\ CountsOK' /\ slicer' = slicer
<1> DEFINE old == table[k][n]
           saved == IF old = NoValue
                    THEN [kind |-> k, name |-> n, inherits |-> h, former |-> g, own |-> uploads',
                          state |-> "pending", settings |-> << >>]
                    ELSE [old EXCEPT !.inherits = h, !.former = g, !.own = uploads']
<1>1. uploads' \in 0 .. MaxUploads /\ uploads' \in 1 .. MaxUploads
  BY NamesAssumption DEF Types, CountsOK, Upload
<1>2. old \in Profile \cup {NoValue} /\ (old # NoValue => Keyed(old, k, n) /\ old \in Rows)
  BY DEF Types, TableOK, Rows, RowsOf
<1>3. << >> \in Seq(1 .. MaxUploads)
  OBVIOUS
<1>a. CountsOK' /\ slicer' = slicer
  <2>1. neglected' \subseteq Kinds \X Names
    BY LeftType DEF Upload, Types, CountsOK
  <2>2. replaced' \in BOOLEAN
    BY DEF Upload, Types, CountsOK, ParentChanges
  <2> QED BY <1>1, <2>1, <2>2 DEF Upload, Types, CountsOK
<1>b. ~replaced' => ~replaced /\ ~ParentChanges(k) /\ old = NoValue
  BY DEF Upload
<1>4. CASE old = NoValue
  <2>1. saved = [kind |-> k, name |-> n, inherits |-> h, former |-> g, own |-> uploads', state |-> "pending", settings |-> << >>]
    BY <1>4
  <2>2. saved \in Profile /\ Keyed(saved, k, n) /\ saved.state = "pending"
    BY <1>1, <1>3, <2>1 DEF Profile, Keyed
  <2>3. \A r \in Rows : ~Keyed(r, k, n)
    BY <1>4, RowFacts DEF Types, Keyed
  <2>4. SaveRow(saved) /\ Goes(i, [IdleImporter EXCEPT !.step = "finding", !.self = saved])
    BY DEF Upload
  <2> QED BY <1>a, <1>b, <2>2, <2>3, <2>4
<1>5. CASE old # NoValue
  <2>1. saved = [old EXCEPT !.inherits = h, !.former = g, !.own = uploads']
    BY <1>5
  <2>2. saved \in Profile /\ Keyed(saved, k, n)
    BY <1>1, <1>2, <1>5, <2>1 DEF Profile, Keyed
  <2>4. SaveRow(saved) /\ Goes(i, [IdleImporter EXCEPT !.step = "finding", !.self = saved])
    BY DEF Upload
  <2> QED BY <1>a, <1>b, <1>5, <2>2, <2>4
<1> QED BY <1>4, <1>5

\* The row a resolution saves, and what the process goes on with.
LEMMA ResolutionFacts ==
  ASSUME Types, NEW i \in Importers
  PROVE  /\ SaveResolved(i) =>
              LET saved == Resolved(importer[i].self, importer[i].layers) IN
              /\ importer[i].self \in Profile /\ importer[i].layers \in Seq(1 .. MaxUploads)
              /\ saved \in Profile /\ SaveRow(saved)
              /\ Goes(i, [IdleImporter EXCEPT !.step = "children", !.parents = {saved}])
         /\ \A work \in importer[i].todo : ResolveChild(i, work) =>
              LET saved == Resolved(work.child, work.layers) IN
              /\ work.child \in Profile /\ work.layers \in Seq(1 .. MaxUploads)
              /\ saved \in Profile /\ SaveRow(saved)
              /\ Goes(i, [importer[i] EXCEPT !.todo = @ \ {work}, !.parents = {saved}])
<1>1. importer[i] \in Jobs
  BY DEF Types, ImporterOK
<1>2. \A work \in importer[i].todo : work.child \in Profile /\ work.layers \in Seq(1 .. MaxUploads)
  BY <1>1 DEF Jobs, Work
<1>3. SaveResolved(i) => importer[i].self \in Profile /\ importer[i].layers \in Seq(1 .. MaxUploads)
  BY <1>1 DEF Types, ImporterOK, HasSelf, SaveResolved, Jobs
<1> QED BY <1>2, <1>3, ResolvedType DEF SaveResolved, ResolveChild

\* What is decided for a row: its parent's layers if the parent is resolved; otherwise to wait.
LEMMA DecideFacts ==
  ASSUME Types, NEW i \in Importers, Decide(i)
  PROVE  \E step \in {"resolving", "giving up"}, l \in Seq(1 .. MaxUploads) :
           /\ Goes(i, [importer[i] EXCEPT !.step = step, !.layers = l])
           /\ step = "resolving" => LiesOn(importer[i].self, l)
           /\ step = "giving up" =>
                \A p \in FindParent(importer[i].self.kind, importer[i].self.inherits) : p.state # "resolved"
<1> DEFINE self == importer[i].self
           found == FindParent(self.kind, self.inherits)
<1>1. importer[i] \in Jobs /\ self \in Profile /\ TableOK
  BY DEF Types, ImporterOK, Decide, HasSelf
<1>2. self.kind \in Kinds /\ self.inherits \in ParentNames
  BY <1>1 DEF Profile
<1>3. CASE self.inherits = NoValue /\ Goes(i, [importer[i] EXCEPT !.step = "resolving", !.layers = << >>])
  <2>1. << >> \in Seq(1 .. MaxUploads)
    OBVIOUS
  <2> QED BY <1>3, <2>1 DEF LiesOn
<1>4. ASSUME NEW p \in found, p.state = "resolved",
             Goes(i, [importer[i] EXCEPT !.step = "resolving", !.layers = p.settings])
      PROVE  \E l \in Seq(1 .. MaxUploads) :
               Goes(i, [importer[i] EXCEPT !.step = "resolving", !.layers = l]) /\ LiesOn(self, l)
  <2>1. p \in Rows /\ p.settings \in Seq(1 .. MaxUploads)
    BY <1>1, <1>2, FoundParents, RowFacts
  <2> QED BY <1>4, <2>1 DEF LiesOn
<1>5. CASE /\ \A p \in found : p.state # "resolved"
           /\ Goes(i, [importer[i] EXCEPT !.step = "giving up"])
  <2>1. importer[i].layers \in Seq(1 .. MaxUploads)
    BY <1>1 DEF Jobs
  <2>2. [importer[i] EXCEPT !.step = "giving up"]
          = [importer[i] EXCEPT !.step = "giving up", !.layers = importer[i].layers]
    BY <1>1 DEF Jobs
  <2> QED BY <1>5, <2>1, <2>2
<1>6. \/ self.inherits = NoValue /\ Goes(i, [importer[i] EXCEPT !.step = "resolving", !.layers = << >>])
      \/ \E p \in found : p.state = "resolved" /\ Goes(i, [importer[i] EXCEPT !.step = "resolving", !.layers = p.settings])
      \/ /\ \A p \in found : p.state # "resolved"
         /\ Goes(i, [importer[i] EXCEPT !.step = "giving up"])
  BY DEF Decide
<1> QED BY <1>3, <1>4, <1>5, <1>6

\* A deleted row is the only one that goes.
LEMMA Deleted ==
  ASSUME TableOK, NEW k \in Kinds, NEW n \in Names, Delete(k, n)
  PROVE  TableOK' /\ \A r : r \in Rows' <=> r \in Rows /\ ~Keyed(r, k, n)
<1>1. \A l \in Kinds, m \in Names :
        table'[l][m] = IF l = k /\ m = n THEN NoValue ELSE table[l][m]
  BY DEF Delete, TableOK
<1>2. table' \in [Kinds -> [Names -> Profile \cup {NoValue}]]
  BY DEF Delete, TableOK
<1>3. TableOK'
  BY <1>1, <1>2 DEF TableOK, Keyed
<1>4. \A r : r \in Rows' <=> \E l \in Kinds, m \in Names : r = table'[l][m] /\ r # NoValue
  BY DEF Rows, RowsOf
<1>5. \A r : r \in Rows <=> \E l \in Kinds, m \in Names : r = table[l][m] /\ r # NoValue
  BY DEF Rows, RowsOf
<1>6. \A r : r \in Rows' <=> r \in Rows /\ ~Keyed(r, k, n)
  BY <1>1, <1>4, <1>5 DEF TableOK, Keyed
<1> QED BY <1>3, <1>6

\* A fault, or a lookup, that touches neither the table nor the slicer.
LEMMA FaultType ==
  ASSUME CountsOK, NEW N, N \subseteq Kinds \X Names, faults < MaxFaults, faults' = faults + 1,
         neglected' = neglected \cup N, UNCHANGED << uploads, replaced >>
  PROVE  CountsOK'
<1>1. faults' \in 0 .. MaxFaults
  BY NamesAssumption DEF CountsOK
<1> QED BY <1>1 DEF CountsOK

\* The slicer keeps to its types.
LEMMA SlicerTypes ==
  ASSUME Types, SlicerStep
  PROVE  SlicerOK'
<1>1. SlicerOK /\ TableOK
  BY DEF Types
<1>2. ASSUME NEW k \in Kinds, NEW n \in Names, StartRebuild(k, n)
      PROVE  SlicerOK'
  <2>1. table[k][n] \in Profile /\ table[k][n].own \in 1 .. MaxUploads
    BY <1>1, <1>2 DEF TableOK, StartRebuild, Profile
  <2>2. << table[k][n].own >> \in Seq(1 .. MaxUploads)
    BY <2>1
  <2> QED BY <1>2, <2>1, <2>2 DEF StartRebuild, Slicings, SlicerOK
<1>3. CASE Climb
  <2>1. PICK p \in NextUp :
           slicer' = [slicer EXCEPT !.current = p, !.visited = @ \cup {p.name}, !.chain = << p.own >> \o @]
    BY <1>3 DEF Climb
  <2>2. p \in RowsOf(slicer.current.kind)
    BY <2>1, FindParentIs DEF NextUp, FindIn
  <2>3. slicer.current.kind \in Kinds
    BY <1>1, <1>3 DEF SlicerOK, Climb, Profile
  <2>4. p \in Profile
    BY <1>1, <2>2, <2>3 DEF RowsOf, TableOK
  <2>5. p.name \in Names /\ p.own \in 1 .. MaxUploads
    BY <2>4 DEF Profile
  <2>6. << p.own >> \o slicer.chain \in Seq(1 .. MaxUploads)
    BY <1>1, <2>5 DEF Slicings, SlicerOK
  <2>7. slicer.visited \cup {p.name} \in SUBSET Names
    BY <1>1, <2>5 DEF Slicings, SlicerOK
  <2> QED BY <1>1, <2>1, <2>4, <2>6, <2>7 DEF Slicings, SlicerOK
<1>4. CASE EndRebuild
  BY <1>1, <1>4 DEF EndRebuild, Slicings, SlicerOK
<1>5. CASE CallSlicer
  <2>1. << >> \in Seq(1 .. MaxUploads)
    OBVIOUS
  <2> QED BY <1>5, <2>1 DEF CallSlicer, IdleSlicer, Slicings, SlicerOK
<1> QED BY <1>2, <1>3, <1>4, <1>5, <1>1 DEF SlicerStep

\* ImportTypeOK, with every row under its own type and name, is inductive ...
LEMMA StepTypes == Types /\ [ImportNext]_importVars => Types'
<1> SUFFICES ASSUME Types, [ImportNext]_importVars
             PROVE  Types'
  OBVIOUS
<1>a. TableOK /\ ImporterOK /\ CountsOK /\ SlicerOK
  BY DEF Types
<1>1. ASSUME NEW i \in Importers, NEW k \in Kinds, NEW n \in Names, NEW h \in ParentNames, NEW g \in ParentNames,
             Upload(i, k, n, h, g)
      PROVE  Types'
  <2>1. PICK saved \in Profile :
           SaveRow(saved) /\ Goes(i, [IdleImporter EXCEPT !.step = "finding", !.self = saved])
    BY <1>1, UploadFacts
  <2>2. [IdleImporter EXCEPT !.step = "finding", !.self = saved] \in Jobs
    BY FromIdle
  <2>3. [IdleImporter EXCEPT !.step = "finding", !.self = saved].self = saved
    BY FromIdle
  <2>4. TableOK'
    BY <1>a, <2>1, Saved
  <2>5. ImporterOK'
    BY <1>a, <2>1, <2>2, <2>3, WentOK
  <2>6. CountsOK' /\ slicer' = slicer
    BY <1>1, UploadFacts
  <2> QED BY <1>a, <2>4, <2>5, <2>6 DEF Types, SlicerOK
<1>2. ASSUME NEW i \in Importers, ImportStep(i)
      PROVE  Types'
  <2>a. importer[i] \in Jobs /\ (HasSelf(i) => importer[i].self \in Profile)
    BY <1>a DEF ImporterOK
  <2>b. ASSUME TableOK', ImporterOK', UNCHANGED << slicer, uploads, faults, replaced, neglected >>
        PROVE  Types'
    BY <1>a, <2>b DEF Types, CountsOK, SlicerOK
  <2>1. CASE Decide(i)
    <3>1. PICK s \in {"resolving", "giving up"}, l \in Seq(1 .. MaxUploads) :
            Goes(i, [importer[i] EXCEPT !.step = s, !.layers = l])
      BY <2>1, DecideFacts
    <3>2. [importer[i] EXCEPT !.step = s, !.layers = l] \in Jobs
      BY <2>a, <3>1 DEF Jobs
    <3>3. [importer[i] EXCEPT !.step = s, !.layers = l].self = importer[i].self /\ importer[i].self \in Profile
      BY <2>1, <2>a DEF Jobs, Decide, HasSelf
    <3>4. ImporterOK'
      BY <1>a, <3>1, <3>2, <3>3, WentOK
    <3> QED BY <1>a, <2>b, <2>1, <3>4 DEF Decide, TableOK
  <2>2. CASE SavePending(i)
    <3>1. importer[i].self \in Profile
      BY <2>2, <2>a DEF SavePending, HasSelf
    <3>2. [importer[i].self EXCEPT !.state = "pending"] \in Profile
      BY <3>1 DEF Profile
    <3>3. TableOK'
      BY <1>a, <2>2, <3>2, Saved DEF SavePending
    <3>4. ImporterOK'
      BY <1>a, <2>2, IdleType, WentOK DEF SavePending
    <3> QED BY <2>b, <2>2, <3>3, <3>4 DEF SavePending
  <2>3. CASE SaveResolved(i)
    <3> DEFINE saved == Resolved(importer[i].self, importer[i].layers)
               s == [IdleImporter EXCEPT !.step = "children", !.parents = {saved}]
    <3>1. saved \in Profile /\ SaveRow(saved) /\ Goes(i, s)
      BY <2>3, ResolutionFacts
    <3>2. s \in Jobs /\ s.step = "children"
      BY <3>1, FromIdle
    <3>3. TableOK'
      BY <1>a, <3>1, Saved
    <3> HIDE DEF s
    <3>5. ImporterOK'
      BY <1>a, <3>1, <3>2, WentOK
    <3> QED BY <2>b, <2>3, <3>3, <3>5 DEF SaveResolved
  <2>4. CASE EndImport(i)
    <3>1. ImporterOK'
      BY <1>a, <2>4, IdleType, WentOK DEF EndImport
    <3> QED BY <1>a, <2>b, <2>4, <3>1 DEF EndImport, TableOK
  <2>5. ASSUME NEW q \in importer[i].parents, FindChildren(i, q)
        PROVE  Types'
    <3> DEFINE found == {[child |-> r, layers |-> q.settings] : r \in WaitingChildren(q)}
               s == [importer[i] EXCEPT !.parents = @ \ {q}, !.todo = @ \cup found]
    <3>1. q \in Profile
      BY <2>a DEF Jobs
    <3>2. \A r \in WaitingChildren(q) : r \in Profile
      BY <1>a, <3>1, FoundChildren, RowFacts
    <3>3. found \subseteq Work
      BY <3>1, <3>2 DEF Work, Profile
    <3>4. s \in Jobs /\ s.step = "children"
      BY <2>a, <2>5, <3>3 DEF Jobs, FindChildren
    <3>5. Goes(i, s) /\ UNCHANGED << table, slicer, uploads, faults >>
          /\ neglected' \subseteq neglected /\ replaced' \in BOOLEAN
      BY <1>a, <2>5 DEF FindChildren, CountsOK
    <3> HIDE DEF s
    <3>6. ImporterOK'
      BY <1>a, <3>4, <3>5, WentOK
    <3> QED BY <1>a, <3>5, <3>6 DEF Types, TableOK, CountsOK, SlicerOK
  <2>6. ASSUME NEW work \in importer[i].todo, ResolveChild(i, work)
        PROVE  Types'
    <3> DEFINE saved == Resolved(work.child, work.layers)
               s == [importer[i] EXCEPT !.todo = @ \ {work}, !.parents = {saved}]
    <3>1. saved \in Profile /\ SaveRow(saved) /\ Goes(i, s)
      BY <2>6, ResolutionFacts
    <3>2. s \in Jobs /\ s.step = "children"
      BY <2>a, <2>6, <3>1 DEF Jobs, ResolveChild
    <3>3. TableOK'
      BY <1>a, <3>1, Saved
    <3> HIDE DEF s
    <3>5. ImporterOK'
      BY <1>a, <3>1, <3>2, WentOK
    <3> QED BY <2>b, <2>6, <3>3, <3>5 DEF ResolveChild
  <2>7. ASSUME NEW work \in importer[i].todo, ResolveFails(i, work)
        PROVE  Types'
    <3>1. [importer[i] EXCEPT !.todo = @ \ {work}] \in Jobs
          /\ [importer[i] EXCEPT !.todo = @ \ {work}].step = "children"
      BY <2>a, <2>7 DEF Jobs, ResolveFails
    <3>2. ImporterOK'
      BY <1>a, <2>7, <3>1, WentOK DEF ResolveFails
    <3>3. {Key(work.child)} \subseteq Kinds \X Names
      BY <2>a, KeyType DEF Jobs, Work
    <3>4. CountsOK'
      BY <1>a, <2>7, <3>3, FaultType DEF ResolveFails
    <3> QED BY <1>a, <2>7, <3>2, <3>4 DEF ResolveFails, Types, TableOK, SlicerOK
  <2>8. ASSUME NEW q \in importer[i].parents, LookupFails(i, q)
        PROVE  Types'
    <3>1. [importer[i] EXCEPT !.parents = @ \ {q}] \in Jobs
          /\ [importer[i] EXCEPT !.parents = @ \ {q}].step = "children"
      BY <2>a, <2>8 DEF Jobs, LookupFails
    <3>2. ImporterOK'
      BY <1>a, <2>8, <3>1, WentOK DEF LookupFails
    <3>3. {Key(q)} \subseteq Kinds \X Names
      BY <2>a, KeyType DEF Jobs
    <3>4. CountsOK'
      BY <1>a, <2>8, <3>3, FaultType DEF LookupFails
    <3> QED BY <1>a, <2>8, <3>2, <3>4 DEF LookupFails, Types, TableOK, SlicerOK
  <2>9. CASE Break(i)
    <3> DEFINE N == IF importer[i].step = "children"
                    THEN {Key(p) : p \in importer[i].parents} \cup {Key(w.child) : w \in importer[i].todo}
                    ELSE {Key(importer[i].self)}
    <3>1. ImporterOK'
      BY <1>a, <2>9, IdleType, WentOK DEF Break
    <3>4. N \subseteq Kinds \X Names
      <4>1. CASE importer[i].step = "children"
        <5>1. \A p \in importer[i].parents : Key(p) \in Kinds \X Names
          BY <2>a, KeyType DEF Jobs
        <5>2. \A w \in importer[i].todo : Key(w.child) \in Kinds \X Names
          BY <2>a, KeyType DEF Jobs, Work
        <5> QED BY <4>1, <5>1, <5>2
      <4>2. CASE importer[i].step # "children"
        <5>1. importer[i].self \in Profile
          BY <2>a, <2>9, <4>2 DEF Break, HasSelf, Jobs
        <5> QED BY <4>2, <5>1, KeyType
      <4> QED BY <4>1, <4>2
    <3>5. faults < MaxFaults /\ faults' = faults + 1 /\ neglected' = neglected \cup N
          /\ UNCHANGED << table, slicer, uploads, replaced >>
      BY <2>9 DEF Break
    <3> HIDE DEF N
    <3>6. CountsOK'
      BY <1>a, <3>4, <3>5, FaultType
    <3> QED BY <1>a, <3>1, <3>5, <3>6 DEF Types, TableOK, SlicerOK
  <2> QED BY <1>2, <2>1, <2>2, <2>3, <2>4, <2>5, <2>6, <2>7, <2>8, <2>9 DEF ImportStep
<1>3. ASSUME NEW k \in Kinds, NEW n \in Names, Delete(k, n)
      PROVE  Types'
  <2>1. TableOK' /\ neglected' \subseteq Kinds \X Names
    BY <1>a, <1>3, Deleted, LeftType DEF Delete, CountsOK
  <2> QED BY <1>a, <1>3, <2>1 DEF Delete, Types, ImporterOK, HasSelf, CountsOK, SlicerOK
<1>4. CASE SlicerStep
  <2>1. UNCHANGED << tableVars, faults >>
    BY <1>4 DEF SlicerStep, StartRebuild, Climb, EndRebuild, CallSlicer
  <2> QED BY <1>a, <1>4, <2>1, SlicerTypes DEF tableVars, Types, TableOK, ImporterOK, HasSelf, CountsOK
<1>5. CASE UNCHANGED importVars
  BY <1>a, <1>5 DEF importVars, tableVars, Types, TableOK, ImporterOK, HasSelf, CountsOK, SlicerOK
<1> QED BY <1>1, <1>2, <1>3, <1>4, <1>5, StepCases

LEMMA InitTypes == ImportInit => Types
<1> SUFFICES ASSUME ImportInit
             PROVE  Types
  OBVIOUS
<1>1. TableOK
  BY DEF ImportInit, TableOK
<1>2. CountsOK
  <2>1. 0 \in 0 .. MaxUploads /\ 0 \in 0 .. MaxFaults
    BY NamesAssumption
  <2> QED BY <2>1 DEF ImportInit, CountsOK
<1>3. \A i \in Importers : importer[i] = IdleImporter
  BY DEF ImportInit
<1>4. ImporterOK
  BY <1>3, IdleType DEF ImportInit, ImporterOK, HasSelf
<1>5. << >> \in Seq(1 .. MaxUploads)
  OBVIOUS
<1>6. SlicerOK
  BY <1>5 DEF ImportInit, IdleSlicer, SlicerOK, Slicings
<1> QED BY <1>1, <1>2, <1>4, <1>6 DEF Types

\* ... so every reachable state has the types of ImportTypeOK, whether imports overlap or not.
THEOREM ProfileTypes == ImportSpec => []ImportTypeOK
<1>1. Types => ImportTypeOK
  BY DEF Types, TableOK, ImporterOK, CountsOK, SlicerOK, Slicings, Jobs, ImportTypeOK
<1> QED BY <1>1, InitTypes, StepTypes, PTL DEF ImportSpec

-----------------------------------------------------------------------------
\* Imports one after the other: only the process that takes a step is not idle.
LEMMA Alone ==
  ASSUME ImporterOK, SoleImport, NEW i \in Importers, NEW s, Goes(i, s),
         importer[i].step # "idle" \/ Others(i)
  PROVE  /\ importer'[i] = s
         /\ \A j \in Importers : j # i => importer[j].step = "idle" /\ importer'[j].step = "idle"
         /\ SoleImport'
<1>1. \A j \in Importers : j # i => importer[j].step = "idle"
  BY DEF SoleImport, Others
<1> QED BY <1>1, Went DEF SoleImport

\* What is covered is neglected or in the hands of the only process that works.
LEMMA OnlyOneSees ==
  ASSUME Covered, NEW i \in Importers, \A j \in Importers : j # i => importer[j].step = "idle",
         NEW r \in Rows, NEW p \in FindParent(r.kind, r.inherits), p \in Rows, r.state = "pending", p.state = "resolved"
  PROVE  Neglected(r, p) \/ WillSee(i, r, p)
BY DEF Covered, WillSee, HasSelf

\* A step keeps CoverInv if what the process that took it will see from now on is as it
\* should be.
LEMMA CoverKept ==
  ASSUME Types', SoleImport', NEW i \in Importers,
         \A j \in Importers : j # i => importer'[j].step = "idle",
         \A r, p \in Rows' :
            r.state = "pending" /\ p.state = "resolved" /\ p \in FindParent(r.kind, r.inherits)'
               => Neglected(r, p)' \/ WillSee(i, r, p)',
         importer'[i].step \in {"finding", "resolving", "giving up"} => importer'[i].self \in Rows',
         importer'[i].step = "children" =>
            /\ \A q \in importer'[i].parents : q \in Rows' /\ q.state = "resolved"
            /\ \A w \in importer'[i].todo : \E old \in Rows' : SameFile(old, w.child),
         \A k, h : importer'[i].step = "giving up" /\ k = importer'[i].self.kind /\ h = importer'[i].self.inherits =>
            \A p \in FindParent(k, h)' : p.state # "resolved"
  PROVE  CoverInv'
<1>1. InTable'
  BY DEF InTable, HasSelf
<1>2. Covered'
  <2> SUFFICES ASSUME NEW r \in Rows', NEW p \in Rows', r.state = "pending", p.state = "resolved",
                      (p \in FindParent(r.kind, r.inherits))'
               PROVE  Neglected(r, p)' \/ \E j \in Importers : WillSee(j, r, p)'
    BY DEF Covered
  <2>1. p \in FindParent(r.kind, r.inherits)'
    OBVIOUS
  <2> QED BY <2>1
<1>3. GivesUpRightly'
  BY DEF GivesUpRightly
<1> QED BY <1>1, <1>2, <1>3 DEF CoverInv

\* An upload begins when nothing waits for a resolved parent but what was neglected.  A
\* profile that now finds another one than before was left to it, or finds the uploaded row.
LEMMA UploadCovered ==
  ASSUME CoverInv, ~Overlapping, NEW i \in Importers, NEW k \in Kinds, NEW n \in Names, NEW h \in ParentNames,
         NEW g \in ParentNames, Upload(i, k, n, h, g), Types'
  PROVE  CoverInv'
<1>a. TableOK /\ ImporterOK /\ SoleImport /\ Covered /\ Types
  BY DEF CoverInv, Types
<1>b. Others(i) /\ importer[i].step = "idle"
  BY DEF Upload
<1>1. PICK saved \in Profile :
        Keyed(saved, k, n) /\ SaveRow(saved) /\ Goes(i, [IdleImporter EXCEPT !.step = "finding", !.self = saved])
  BY <1>a, UploadFacts
<1> DEFINE s == [IdleImporter EXCEPT !.step = "finding", !.self = saved]
<1>2. s.step = "finding" /\ s.self = saved
  BY FromIdle
<1> HIDE DEF s
<1>3. importer'[i] = s /\ SoleImport' /\ \A j \in Importers : j # i => importer[j].step = "idle" /\ importer'[j].step = "idle"
  BY <1>a, <1>b, <1>1, Alone DEF s
<1>4. \A r : r \in Rows' <=> r = saved \/ (r \in Rows /\ ~Keyed(r, saved.kind, saved.name))
  BY <1>a, <1>1, Saved
<1>5. ASSUME NEW r \in Rows', NEW p \in Rows', r.state = "pending", p.state = "resolved",
             p \in FindParent(r.kind, r.inherits)'
      PROVE  Neglected(r, p)' \/ WillSee(i, r, p)'
  <2>1. CASE Keyed(r, k, n) \/ Keyed(p, k, n)
    BY <1>1, <1>2, <1>3, <2>1 DEF WillSee, HasSelf, Keyed
  <2>2. CASE ~Keyed(r, k, n) /\ ~Keyed(p, k, n)
    <3>1. r \in Rows /\ p \in Rows
      BY <1>1, <1>4, <2>2 DEF Keyed
    <3>2. Key(r) # << k, n >> /\ Key(p) # << k, n >>
      BY <2>2 DEF Key, Keyed
    <3>3. CASE p \in FindParent(r.kind, r.inherits)
      <4>1. Neglected(r, p)
        BY <1>a, <1>b, <1>3, <1>5, <3>1, <3>3, OnlyOneSees DEF WillSee, HasSelf
      <4> QED BY <3>2, <4>1 DEF Neglected, Upload
    <3>4. CASE p \notin FindParent(r.kind, r.inherits)
      <4>1. r.kind = k /\ p.kind = k
        <5>1. r.kind \in Kinds /\ TableOK'
          BY <1>a, <1>1, <3>1, RowFacts, Saved
        <5>2. p \in RowsOf(r.kind)'
          BY <1>5, FindParentIs DEF FindIn
        <5>3. p.kind = r.kind
          BY <5>1, <5>2, NextRowsOf
        <5>4. CASE r.kind # k
          <6>1. \A x : x \in RowsOf(r.kind)' <=> x \in RowsOf(r.kind)
            BY <1>a, <1>1, <1>4, <5>1, <5>4, NextRowsOf, RowsOfFacts DEF Keyed
          <6>2. RowsOf(r.kind)' = RowsOf(r.kind)
            BY <6>1
          <6>3. FindParent(r.kind, r.inherits)' = FindParent(r.kind, r.inherits)
            BY <6>2, FindParentIs
          <6> QED BY <1>5, <3>4, <6>3
        <5> QED BY <5>3, <5>4
      <4>2. r \in RowsOf(k) /\ r.name # n /\ p.name # n
        BY <1>a, <2>2, <3>1, <4>1, RowsOfFacts DEF Keyed
      <4>3. Key(r) \in LeftToAnother(k, n)
        BY <1>5, <3>4, <4>1, <4>2 DEF LeftToAnother
      <4> QED BY <4>3 DEF Neglected, Upload
    <3> QED BY <3>3, <3>4
  <2> QED BY <2>1, <2>2
<1> QED BY <1>2, <1>3, <1>4, <1>5, CoverKept

\* Looking for the parent changes nothing in the table; who gives up has found none.
LEMMA DecideCovered ==
  ASSUME CoverInv, NEW i \in Importers, Decide(i), Types'
  PROVE  CoverInv'
<1>a. TableOK /\ ImporterOK /\ SoleImport /\ Covered /\ importer[i] \in Jobs /\ Types /\ InTable
  BY DEF CoverInv, Types, ImporterOK
<1>b. importer[i].step = "finding" /\ HasSelf(i) /\ UNCHANGED table
  BY DEF Decide, HasSelf
<1>c. Rows' = Rows /\ \A k, h : FindParent(k, h)' = FindParent(k, h)
  BY <1>b, SameRows
<1>1. PICK step \in {"resolving", "giving up"}, l \in Seq(1 .. MaxUploads) :
        /\ Goes(i, [importer[i] EXCEPT !.step = step, !.layers = l])
        /\ step = "giving up" =>
             \A p \in FindParent(importer[i].self.kind, importer[i].self.inherits) : p.state # "resolved"
  BY <1>a, DecideFacts
<1> DEFINE s == [importer[i] EXCEPT !.step = step, !.layers = l]
<1>d. s.step = step /\ s.self = importer[i].self /\ Goes(i, s)
  BY <1>a, <1>1 DEF Jobs
<1> HIDE DEF s
<1>2. importer'[i] = s /\ SoleImport'
      /\ \A j \in Importers : j # i => importer[j].step = "idle" /\ importer'[j].step = "idle"
  BY <1>a, <1>b, <1>d, Alone
<1>3. ASSUME NEW r \in Rows', NEW p \in Rows', r.state = "pending", p.state = "resolved",
             p \in FindParent(r.kind, r.inherits)'
      PROVE  Neglected(r, p)' \/ WillSee(i, r, p)'
  <2>1. Neglected(r, p) \/ WillSee(i, r, p)
    BY <1>a, <1>c, <1>2, <1>3, OnlyOneSees
  <2>2. neglected' = neglected
    BY DEF Decide
  <2> QED BY <1>b, <1>d, <1>2, <2>1, <2>2 DEF WillSee, HasSelf, Neglected
<1>4. \A k, h : s.step = "giving up" /\ k = s.self.kind /\ h = s.self.inherits =>
        \A p \in FindParent(k, h)' : p.state # "resolved"
  BY <1>c, <1>d, <1>1
<1>5. s.self \in Rows' /\ s.step # "children"
  BY <1>a, <1>b, <1>c, <1>d DEF InTable
<1> QED BY <1>2, <1>3, <1>4, <1>5, CoverKept

\* A row that is saved as pending has no resolved parent.
LEMMA SavePendingCovered ==
  ASSUME CoverInv, NEW i \in Importers, SavePending(i), Types'
  PROVE  CoverInv'
<1>a. TableOK /\ ImporterOK /\ SoleImport /\ Covered /\ GivesUpRightly /\ InTable
  BY DEF CoverInv, Types
<1>b. importer[i].step = "giving up" /\ importer[i].self \in Profile /\ importer[i].self \in Rows
  BY <1>a DEF SavePending, ImporterOK, HasSelf, InTable
<1> DEFINE old == importer[i].self
           saved == [old EXCEPT !.state = "pending"]
<1>1. saved \in Profile /\ saved.state = "pending" /\ SameFile(old, saved)
  BY <1>b DEF Profile, SameFile
<1>2. SaveRow(saved) /\ Goes(i, IdleImporter) /\ neglected' = neglected
  BY DEF SavePending
<1>c. \A p \in FindParent(old.kind, old.inherits) : p.state # "resolved"
  BY <1>a, <1>b DEF GivesUpRightly
<1>3. importer'[i] = IdleImporter /\ SoleImport'
      /\ \A j \in Importers : j # i => importer[j].step = "idle" /\ importer'[j].step = "idle"
  BY <1>a, <1>b, <1>2, Alone
<1>d. \A r, p : WillSee(i, r, p) => Keyed(old, r.kind, r.name) \/ Keyed(old, p.kind, p.name)
  BY <1>b DEF WillSee
<1> HIDE DEF saved, old
<1>4. \A r : r \in Rows' <=> r = saved \/ (r \in Rows /\ ~Keyed(r, saved.kind, saved.name))
  BY <1>a, <1>1, <1>2, Saved
<1>5. ASSUME NEW r \in Rows', NEW p \in Rows', r.state = "pending", p.state = "resolved",
             p \in FindParent(r.kind, r.inherits)'
      PROVE  Neglected(r, p)'
  <2>0. old \in Rows
    BY <1>b DEF old
  <2>1. p \in Rows /\ p # old /\ ~Keyed(old, p.kind, p.name)
    BY <1>1, <1>4, <1>5 DEF Keyed, SameFile
  <2>2. r.kind \in Kinds /\ (r = saved \/ r \in Rows)
    BY <1>a, <1>1, <1>4, RowFacts DEF Profile
  <2>3. p \in FindParent(r.kind, r.inherits)
    BY <1>a, <1>1, <1>2, <1>5, <2>0, <2>1, <2>2, FoundAgain
  <2>4. r # saved
    BY <1>1, <1>5, <1>c, <2>3 DEF SameFile
  <2>5. r \in Rows /\ ~Keyed(old, r.kind, r.name)
    BY <1>1, <1>4, <2>4 DEF Keyed, SameFile
  <2>6. Neglected(r, p)
    BY <1>a, <1>3, <1>5, <1>d, <2>1, <2>3, <2>5, OnlyOneSees
  <2> QED BY <1>2, <2>6 DEF Neglected
<1> QED BY <1>3, <1>5, IdleType, CoverKept

\* A row that is resolved is remembered as a parent, so whatever waits for it will be seen;
\* what was to be seen before is that row, or remains to be seen.
LEMMA ResolutionCovered ==
  ASSUME CoverInv, NEW i \in Importers, NEW saved \in Profile, NEW s, NEW old \in Rows, SameFile(old, saved),
         SaveRow(saved), saved.state = "resolved", Goes(i, s), importer[i].step # "idle", neglected' = neglected,
         s.step = "children", s.parents = {saved},
         \A w \in s.todo : \E x \in Rows : SameFile(x, w.child),
         \A r, p \in Rows : WillSee(i, r, p) =>
            \/ Keyed(r, saved.kind, saved.name) \/ Keyed(p, saved.kind, saved.name)
            \/ \E w \in s.todo : Keyed(w.child, r.kind, r.name),
         Types'
  PROVE  CoverInv'
<1>a. TableOK /\ ImporterOK /\ SoleImport /\ Covered
  BY DEF CoverInv, Types
<1>1. \A r : r \in Rows' <=> r = saved \/ (r \in Rows /\ ~Keyed(r, saved.kind, saved.name))
  BY <1>a, Saved
<1>2. importer'[i] = s /\ SoleImport'
      /\ \A j \in Importers : j # i => importer[j].step = "idle" /\ importer'[j].step = "idle"
  BY <1>a, Alone
<1>3. ASSUME NEW r \in Rows', NEW p \in Rows', r.state = "pending", p.state = "resolved",
             p \in FindParent(r.kind, r.inherits)'
      PROVE  Neglected(r, p)' \/ WillSee(i, r, p)'
  <2>1. r \in Rows /\ ~Keyed(r, saved.kind, saved.name)
    BY <1>1, <1>3
  <2>2. CASE p = saved
    BY <1>2, <2>2 DEF WillSee
  <2>3. CASE p # saved
    <3>1. p \in Rows /\ ~Keyed(p, saved.kind, saved.name)
      BY <1>1, <2>3
    <3>2. p \in FindParent(r.kind, r.inherits)
      BY <1>a, <1>3, <2>1, <2>3, RowFacts, FoundAgain
    <3>3. Neglected(r, p) \/ WillSee(i, r, p)
      BY <1>a, <1>2, <1>3, <2>1, <3>1, <3>2, OnlyOneSees
    <3> QED BY <1>2, <2>1, <3>1, <3>3 DEF WillSee, Neglected
  <2> QED BY <2>2, <2>3
<1>4. saved \in Rows'
  BY <1>1
<1>5. \A w \in s.todo : \E x \in Rows' : SameFile(x, w.child)
  <2> SUFFICES ASSUME NEW w \in s.todo
               PROVE  \E x \in Rows' : SameFile(x, w.child)
    OBVIOUS
  <2>1. PICK x \in Rows : SameFile(x, w.child)
    OBVIOUS
  <2>2. CASE Keyed(x, saved.kind, saved.name)
    <3>1. x = old
      BY <1>a, <2>2, OneRowPerName DEF Keyed, SameFile
    <3> QED BY <1>4, <2>1, <3>1 DEF SameFile
  <2> QED BY <1>1, <2>1, <2>2
<1> QED BY <1>2, <1>3, <1>4, <1>5, CoverKept

\* Looking for children, its failures and the end of an import leave the table alone: what
\* was to be seen is neglected now, or remains to be seen.
LEMMA HandsOnCovered ==
  ASSUME CoverInv, NEW i \in Importers, NEW s, Goes(i, s), importer[i].step # "idle", UNCHANGED table,
         s.step \in {"idle", "children"},
         s.step = "children" =>
            /\ \A q \in s.parents : q \in Rows /\ q.state = "resolved"
            /\ \A w \in s.todo : \E x \in Rows : SameFile(x, w.child),
         \A r, p \in Rows :
            r.state = "pending" /\ p \in FindParent(r.kind, r.inherits) /\ (Neglected(r, p) \/ WillSee(i, r, p)) =>
               \/ neglected' \cap {Key(r), Key(p)} # {}
               \/ s.step = "children" /\ (p \in s.parents \/ \E w \in s.todo : Keyed(w.child, r.kind, r.name)),
         Types'
  PROVE  CoverInv'
<1>a. TableOK /\ ImporterOK /\ SoleImport /\ Covered
  BY DEF CoverInv, Types
<1>1. importer'[i] = s /\ SoleImport'
      /\ \A j \in Importers : j # i => importer[j].step = "idle" /\ importer'[j].step = "idle"
  BY <1>a, Alone
<1>2. Rows' = Rows /\ \A k, h : FindParent(k, h)' = FindParent(k, h)
  BY SameRows
<1>3. ASSUME NEW r \in Rows', NEW p \in Rows', r.state = "pending", p.state = "resolved",
             p \in FindParent(r.kind, r.inherits)'
      PROVE  Neglected(r, p)' \/ WillSee(i, r, p)'
  <2>1. p \in FindParent(r.kind, r.inherits)
    BY <1>2, <1>3
  <2>2. Neglected(r, p) \/ WillSee(i, r, p)
    BY <1>a, <1>1, <1>2, <1>3, <2>1, OnlyOneSees
  <2>3. Key(r)' = Key(r) /\ Key(p)' = Key(p)
    BY DEF Key
  <2> QED BY <1>1, <1>2, <1>3, <2>1, <2>2, <2>3 DEF WillSee, Neglected
<1> QED BY <1>1, <1>2, <1>3, CoverKept

\* What waits for a parent whose children were looked up is to be resolved.
LEMMA FindChildrenCovered ==
  ASSUME CoverInv, NEW i \in Importers, NEW q \in importer[i].parents, FindChildren(i, q), Types'
  PROVE  CoverInv'
<1>a. TableOK /\ InTable /\ importer[i] \in Jobs
  BY DEF CoverInv, Types, ImporterOK
<1>b. importer[i].step = "children" /\ q \in Profile /\ (\A p \in importer[i].parents : p \in Rows /\ p.state = "resolved")
      /\ \A w \in importer[i].todo : \E x \in Rows : SameFile(x, w.child)
  BY <1>a DEF FindChildren, Jobs, InTable
<1> DEFINE found == {[child |-> r, layers |-> q.settings] : r \in WaitingChildren(q)}
           s == [importer[i] EXCEPT !.parents = @ \ {q}, !.todo = @ \cup found]
<1>1. /\ s.step = "children" /\ s.parents = importer[i].parents \ {q}
      /\ s.todo = importer[i].todo \cup found
  BY <1>a, <1>b DEF Jobs
<1>2. Goes(i, s) /\ UNCHANGED table /\ neglected' = neglected \ {Key(q)}
  BY DEF FindChildren
<1>3. \A w \in found : \E x \in Rows : SameFile(x, w.child)
  <2>1. \A r \in WaitingChildren(q) : r \in Rows
    BY <1>a, <1>b, FoundChildren
  <2> QED BY <2>1 DEF SameFile
<1>4. \A r \in Rows : r.state = "pending" /\ Below(r, q) => [child |-> r, layers |-> q.settings] \in found
  BY <1>a, <1>b, FoundChildren
<1> HIDE DEF s, found
<1>5. ASSUME NEW r \in Rows, NEW p \in Rows, r.state = "pending", p \in FindParent(r.kind, r.inherits),
             Neglected(r, p) \/ WillSee(i, r, p)
      PROVE  neglected' \cap {Key(r), Key(p)} # {} \/ p \in s.parents \/ \E w \in s.todo : Keyed(w.child, r.kind, r.name)
  <2>1. Below(r, p)
    BY <1>a, <1>5, FoundParentsOf
  <2>2. CASE p = q
    <3>1. [child |-> r, layers |-> q.settings] \in s.todo
      BY <1>1, <1>4, <1>5, <2>1, <2>2
    <3> QED BY <3>1 DEF Keyed
  <2>3. CASE Key(p) = Key(q)
    <3>1. p = q
      BY <1>a, <1>b, <2>3, OneRowPerName DEF Key
    <3> QED BY <2>2, <3>1
  <2>4. Key(r) # Key(q)
    BY <1>a, <1>b, <1>5, OneRowPerName DEF Key
  <2>5. CASE p # q /\ Key(p) # Key(q)
    BY <1>b, <1>1, <1>2, <1>5, <2>4, <2>5 DEF Neglected, WillSee, HasSelf
  <2> QED BY <2>2, <2>3, <2>5
<1>6. (\A p \in s.parents : p \in Rows /\ p.state = "resolved") /\ \A w \in s.todo : \E x \in Rows : SameFile(x, w.child)
  BY <1>b, <1>1, <1>3
<1> QED BY <1>b, <1>1, <1>2, <1>5, <1>6, HandsOnCovered

\* CoverInv is inductive if imports do not overlap.
LEMMA StepCoverInv == CoverInv /\ ~Overlapping /\ [ImportNext]_importVars => CoverInv'
<1> SUFFICES ASSUME CoverInv, ~Overlapping, [ImportNext]_importVars
             PROVE  CoverInv'
  OBVIOUS
<1>a. Types /\ Types' /\ TableOK /\ ImporterOK /\ SoleImport /\ InTable /\ Covered /\ GivesUpRightly
  BY StepTypes DEF CoverInv, Types
<1>1. ASSUME NEW i \in Importers, NEW k \in Kinds, NEW n \in Names, NEW h \in ParentNames, NEW g \in ParentNames,
             Upload(i, k, n, h, g)
      PROVE  CoverInv'
  BY <1>a, <1>1, UploadCovered
<1>2. ASSUME NEW i \in Importers, ImportStep(i)
      PROVE  CoverInv'
  <2>a. importer[i] \in Jobs
    BY <1>a DEF ImporterOK
  <2>b. importer[i].step = "children" =>
          /\ \A q \in importer[i].parents : q \in Rows /\ q.state = "resolved"
          /\ \A w \in importer[i].todo : \E x \in Rows : SameFile(x, w.child)
    BY <1>a DEF InTable
  <2>1. CASE SaveResolved(i)
    <3> DEFINE self == importer[i].self
               saved == Resolved(self, importer[i].layers)
               s == [IdleImporter EXCEPT !.step = "children", !.parents = {saved}]
    <3>1. self \in Profile /\ importer[i].layers \in Seq(1 .. MaxUploads)
          /\ saved \in Profile /\ SaveRow(saved) /\ Goes(i, s)
      BY <1>a, <2>1, ResolutionFacts
    <3>2. SameFile(self, saved) /\ saved.state = "resolved"
      BY <3>1, ResolvedType
    <3>3. importer[i].step = "resolving" /\ neglected' = neglected
      BY <2>1 DEF SaveResolved
    <3>4. self \in Rows
      BY <1>a, <3>3 DEF InTable, HasSelf
    <3>5. \A r, p : WillSee(i, r, p) => Keyed(self, r.kind, r.name) \/ Keyed(self, p.kind, p.name)
      BY <3>3 DEF WillSee
    <3> HIDE DEF saved, self
    <3>6. s.step = "children" /\ s.parents = {saved} /\ s.todo = {}
      BY <3>1, FromIdle
    <3>7. \A r, p \in Rows : WillSee(i, r, p) => Keyed(r, saved.kind, saved.name) \/ Keyed(p, saved.kind, saved.name)
      BY <3>2, <3>5 DEF Keyed, SameFile
    <3> HIDE DEF s
    <3> QED BY <1>a, <3>1, <3>2, <3>3, <3>4, <3>6, <3>7, ResolutionCovered
  <2>2. CASE EndImport(i)
    <3>1. importer[i].step = "children" /\ importer[i].parents = {} /\ importer[i].todo = {} /\ Goes(i, IdleImporter)
          /\ UNCHANGED table /\ neglected' = neglected
      BY <2>2 DEF EndImport
    <3>2. \A r, p : ~WillSee(i, r, p)
      BY <3>1 DEF WillSee, HasSelf
    <3> QED BY <1>a, <3>1, <3>2, IdleType, HandsOnCovered DEF Neglected
  <2>3. ASSUME NEW work \in importer[i].todo, ResolveChild(i, work)
        PROVE  CoverInv'
    <3> DEFINE saved == Resolved(work.child, work.layers)
               s == [importer[i] EXCEPT !.todo = @ \ {work}, !.parents = {saved}]
    <3>1. /\ work.child \in Profile /\ work.layers \in Seq(1 .. MaxUploads)
          /\ saved \in Profile /\ SaveRow(saved) /\ Goes(i, s)
      BY <1>a, <2>3, ResolutionFacts
    <3>2. SameFile(work.child, saved) /\ saved.state = "resolved"
      BY <3>1, ResolvedType
    <3>3. importer[i].step = "children" /\ importer[i].parents = {} /\ neglected' = neglected
      BY <2>3 DEF ResolveChild
    <3>4. s.step = "children" /\ s.parents = {saved} /\ s.todo = importer[i].todo \ {work}
      BY <2>a, <3>3 DEF Jobs
    <3> HIDE DEF saved, s
    <3>5. PICK old \in Rows : SameFile(old, work.child)
      BY <2>b, <3>3
    <3>6. SameFile(old, saved)
      BY <3>2, <3>5 DEF SameFile
    <3>7. \A r, p \in Rows : WillSee(i, r, p) =>
            Keyed(r, saved.kind, saved.name) \/ \E w \in s.todo : Keyed(w.child, r.kind, r.name)
      BY <3>2, <3>3, <3>4 DEF WillSee, HasSelf, Keyed, SameFile
    <3>8. \A w \in s.todo : \E x \in Rows : SameFile(x, w.child)
      BY <2>b, <3>3, <3>4
    <3> QED BY <1>a, <3>1, <3>2, <3>3, <3>4, <3>6, <3>7, <3>8, ResolutionCovered
  <2>4. ASSUME NEW work \in importer[i].todo, ResolveFails(i, work)
        PROVE  CoverInv'
    <3> DEFINE s == [importer[i] EXCEPT !.todo = @ \ {work}]
    <3>1. importer[i].step = "children" /\ UNCHANGED table /\ neglected' = neglected \cup {Key(work.child)} /\ Goes(i, s)
      BY <2>4 DEF ResolveFails
    <3>2. s.step = "children" /\ s.parents = importer[i].parents /\ s.todo = importer[i].todo \ {work}
      BY <2>a, <3>1 DEF Jobs
    <3> HIDE DEF s
    <3>3. ASSUME NEW r \in Rows, NEW p \in Rows, Neglected(r, p) \/ WillSee(i, r, p)
          PROVE  \/ neglected' \cap {Key(r), Key(p)} # {}
                 \/ p \in s.parents \/ \E w \in s.todo : Keyed(w.child, r.kind, r.name)
      <4>1. Keyed(work.child, r.kind, r.name) => Key(r) = Key(work.child)
        BY DEF Keyed, Key
      <4> QED BY <3>1, <3>2, <3>3, <4>1 DEF Neglected, WillSee, HasSelf
    <3> QED BY <1>a, <2>b, <3>1, <3>2, <3>3, HandsOnCovered
  <2>5. ASSUME NEW q \in importer[i].parents, LookupFails(i, q)
        PROVE  CoverInv'
    <3> DEFINE s == [importer[i] EXCEPT !.parents = @ \ {q}]
    <3>1. importer[i].step = "children" /\ UNCHANGED table /\ neglected' = neglected \cup {Key(q)} /\ Goes(i, s)
      BY <2>5 DEF LookupFails
    <3>2. s.step = "children" /\ s.parents = importer[i].parents \ {q} /\ s.todo = importer[i].todo
      BY <2>a, <3>1 DEF Jobs
    <3> HIDE DEF s
    <3>3. ASSUME NEW r \in Rows, NEW p \in Rows, Neglected(r, p) \/ WillSee(i, r, p)
          PROVE  \/ neglected' \cap {Key(r), Key(p)} # {}
                 \/ p \in s.parents \/ \E w \in s.todo : Keyed(w.child, r.kind, r.name)
      BY <3>1, <3>2, <3>3 DEF Neglected, WillSee, HasSelf
    <3> QED BY <1>a, <2>b, <3>1, <3>2, <3>3, HandsOnCovered
  <2>6. CASE Break(i)
    <3>1. importer[i].step # "idle" /\ UNCHANGED table /\ Goes(i, IdleImporter)
      BY <2>6 DEF Break
    <3>2. ASSUME NEW r \in Rows, NEW p \in Rows, Neglected(r, p) \/ WillSee(i, r, p)
          PROVE  neglected' \cap {Key(r), Key(p)} # {}
      <4>1. CASE importer[i].step = "children"
        <5>1. neglected' = neglected \cup {Key(q) : q \in importer[i].parents} \cup {Key(w.child) : w \in importer[i].todo}
          BY <2>6, <4>1 DEF Break
        <5>2. \A w : Keyed(w.child, r.kind, r.name) => Key(r) = Key(w.child)
          BY DEF Keyed, Key
        <5> QED BY <3>2, <4>1, <5>1, <5>2 DEF Neglected, WillSee, HasSelf
      <4>2. CASE importer[i].step # "children"
        <5>1. neglected' = neglected \cup {Key(importer[i].self)}
          BY <2>6, <4>2 DEF Break
        <5> QED BY <3>2, <4>2, <5>1 DEF Neglected, WillSee, Keyed, Key
      <4> QED BY <4>1, <4>2
    <3> QED BY <1>a, <3>1, <3>2, IdleType, HandsOnCovered
  <2> QED BY <1>a, <1>2, <2>1, <2>2, <2>3, <2>4, <2>5, <2>6, DecideCovered, SavePendingCovered, FindChildrenCovered
      DEF ImportStep
<1>3. ASSUME NEW k \in Kinds, NEW n \in Names, Delete(k, n)
      PROVE  CoverInv'
  <2>1. importer' = importer /\ \A i \in Importers : importer[i].step = "idle"
    BY <1>3 DEF Delete, AllIdle
  <2>2. TableOK' /\ \A r : r \in Rows' <=> r \in Rows /\ ~Keyed(r, k, n)
    BY <1>a, <1>3, Deleted
  <2>3. ASSUME NEW r \in Rows', NEW p \in Rows', r.state = "pending", p.state = "resolved",
               p \in FindParent(r.kind, r.inherits)'
        PROVE  Neglected(r, p)'
    <3>1. r \in Rows /\ p \in Rows /\ ~Keyed(r, k, n) /\ ~Keyed(p, k, n) /\ r.kind \in Kinds
      BY <1>a, <2>2, RowFacts
    <3>2. CASE p \in FindParent(r.kind, r.inherits)
      <4>1. Neglected(r, p)
        BY <1>a, <2>1, <2>3, <3>1, <3>2 DEF Covered, WillSee, HasSelf
      <4> QED BY <1>3, <4>1 DEF Neglected, Delete
    <3>3. CASE p \notin FindParent(r.kind, r.inherits)
      <4>1. p \in RowsOf(r.kind)'
        BY <2>3, FindParentIs DEF FindIn
      <4>2. p.kind = r.kind
        BY <2>2, <3>1, <4>1, NextRowsOf
      <4>3. r.kind = k
        <5> SUFFICES ASSUME r.kind # k
                     PROVE  FALSE
          OBVIOUS
        <5>1. \A x : x \in RowsOf(r.kind)' <=> x \in RowsOf(r.kind)
          BY <1>a, <2>2, <3>1, NextRowsOf, RowsOfFacts DEF Keyed
        <5>2. RowsOf(r.kind)' = RowsOf(r.kind)
          BY <5>1
        <5> QED BY <2>3, <3>3, <5>2, FindParentIs
      <4>4. r \in RowsOf(k) /\ r.name # n /\ p.name # n
        BY <1>a, <3>1, <4>2, <4>3, RowsOfFacts DEF Keyed
      <4>5. Key(r) \in LeftToAnother(k, n)
        BY <2>3, <3>3, <4>3, <4>4 DEF LeftToAnother
      <4> QED BY <1>3, <4>5 DEF Neglected, Delete
    <3> QED BY <3>2, <3>3
  <2>4. Covered'
    BY <2>3 DEF Covered
  <2> QED BY <1>a, <2>1, <2>4 DEF CoverInv, SoleImport, InTable, GivesUpRightly, HasSelf
<1>4. ASSUME UNCHANGED << table, importer, neglected >>
      PROVE  CoverInv'
  <2>1. importer' = importer /\ neglected' = neglected /\ Rows' = Rows /\ \A k, h : FindParent(k, h)' = FindParent(k, h)
    BY <1>4, SameRows
  <2>2. Covered'
    <3> SUFFICES ASSUME NEW r \in Rows, NEW p \in Rows, r.state = "pending", p.state = "resolved",
                        p \in FindParent(r.kind, r.inherits)'
                 PROVE  Neglected(r, p)' \/ \E i \in Importers : WillSee(i, r, p)'
      BY <2>1 DEF Covered
    <3>1. Neglected(r, p) \/ \E i \in Importers : WillSee(i, r, p)
      BY <1>a, <2>1 DEF Covered
    <3> QED BY <2>1, <3>1 DEF Neglected, WillSee, HasSelf
  <2>3. GivesUpRightly'
    BY <1>a, <2>1 DEF GivesUpRightly
  <2> QED BY <1>a, <2>1, <2>2, <2>3 DEF CoverInv, SoleImport, InTable, HasSelf
<1>5. SlicerStep => UNCHANGED << table, importer, neglected >>
  BY DEF SlicerStep, StartRebuild, Climb, EndRebuild, CallSlicer, tableVars
<1> QED BY <1>1, <1>2, <1>3, <1>4, <1>5, StepCases DEF importVars, tableVars

LEMMA InitCoverInv == ImportInit => CoverInv
<1> SUFFICES ASSUME ImportInit
             PROVE  CoverInv
  OBVIOUS
<1>1. \A i \in Importers : importer[i].step = "idle"
  BY IdleType DEF ImportInit
<1>2. Rows = {}
  BY DEF ImportInit, Rows, RowsOf
<1> QED BY <1>1, <1>2, InitTypes DEF CoverInv, SoleImport, InTable, Covered, GivesUpRightly, HasSelf

\* Imports one after the other leave no profile waiting whose parent is there, but for those
\* that neglected names: neither the order of the files, nor a parent that is uploaded under
\* a new name, again or with another parent of its own, nor former names that are the present
\* ones of others.
THEOREM PendingHasAReasonAlways ==
  ASSUME ~Overlapping
  PROVE  ImportSpec => []PendingHasAReason
<1>1. CoverInv => PendingHasAReason
  <2> SUFFICES ASSUME CoverInv, AllIdle, NEW r \in Rows, r.state = "pending", NEW p \in FindParent(r.kind, r.inherits)
               PROVE  p.state = "pending" \/ neglected \cap {Key(r), Key(p)} # {}
    BY DEF PendingHasAReason
  <2>1. TableOK /\ Covered /\ \A i \in Importers : importer[i].step = "idle"
    BY DEF CoverInv, Types, AllIdle
  <2>2. p \in Rows
    BY <2>1, FoundParentsOf
  <2>3. ~ \E i \in Importers : WillSee(i, r, p)
    BY <2>1 DEF WillSee, HasSelf
  <2> QED BY <2>1, <2>2, <2>3, RowFacts DEF Covered, Neglected
<1>2. CoverInv /\ [ImportNext]_importVars => CoverInv'
  BY StepCoverInv
<1> QED BY <1>1, <1>2, InitCoverInv, PTL DEF ImportSpec

-----------------------------------------------------------------------------
\* A parent is found once: two layers that a row lies on are the same.
LEMMA LiesOnOne ==
  ASSUME TableOK, NEW r \in Rows, NEW l, NEW m, LiesOn(r, l), LiesOn(r, m)
  PROVE  l = m
<1>1. \A p, q \in FindParent(r.kind, r.inherits) : p = q /\ r.inherits # NoValue
  BY FoundParentsOf DEF Below
<1> QED BY <1>1 DEF LiesOn

\* What is on the way stays so if rows that are resolved stay, and lie on what they lay on.
LEMMA LayersStay ==
  ASSUME \A p \in Rows : p.state = "resolved" => p \in Rows',
         \A r \in Rows : \A l : LiesOn(r, l) => LiesOn(r, l)',
         \A r \in Rows' : r.state = "resolved" =>
            \/ r \in Rows
            \/ \E l \in Seq(1 .. MaxUploads) : LiesOn(r, l)' /\ r.settings = Append(l, r.own)
  PROVE  /\ Stacked => Stacked'
         /\ ClimbIsOnTheWay /\ slicer' = slicer => ClimbIsOnTheWay'
<1>1. ASSUME Stacked
      PROVE  Stacked'
  <2> SUFFICES ASSUME NEW r \in Rows', r.state = "resolved"
               PROVE  \E l \in Seq(1 .. MaxUploads) : LiesOn(r, l)' /\ r.settings = Append(l, r.own)
    BY DEF Stacked
  <2> QED BY <1>1 DEF Stacked
<1>2. ASSUME ClimbIsOnTheWay, slicer' = slicer
      PROVE  ClimbIsOnTheWay'
  <2>1. ASSUME NEW c, NEW chain, NEW seen, NEW settings, OnTheWay(c, chain, seen, settings)
        PROVE  OnTheWay(c, chain, seen, settings)'
    BY <2>1 DEF OnTheWay
  <2>2. PICK c, chain, seen, settings : << c, chain, seen, settings >>
                = << slicer.current, slicer.chain, slicer.visited, slicer.leaf.settings >>
    OBVIOUS
  <2>3. slicer.step = "climbing" => OnTheWay(c, chain, seen, settings)'
    BY <1>2, <2>1, <2>2 DEF ClimbIsOnTheWay
  <2>4. << c, chain, seen, settings >>
          = << slicer'.current, slicer'.chain, slicer'.visited, slicer'.leaf.settings >>
    BY <1>2, <2>2
  <2> QED BY <1>2, <2>3, <2>4 DEF ClimbIsOnTheWay, OnTheWay, LiesOn
<1> QED BY <1>1, <1>2

\* A row that is saved in the place of none, or of one that waits, takes no resolved row away:
\* if the parents found stay so, what lies on other rows still does.
LEMMA LayersKept ==
  ASSUME TableOK, NEW saved \in Profile, SaveRow(saved),
         \A r \in Rows : Keyed(r, saved.kind, saved.name) => r.state = "pending",
         \A k \in Kinds, h \in ParentNames : \A p \in FindParent(k, h) :
            p.state = "resolved" => p \in FindParent(k, h)'
  PROVE  /\ \A r \in Profile : \A l : LiesOn(r, l) => LiesOn(r, l)'
         /\ (saved.state = "resolved" =>
              \E l \in Seq(1 .. MaxUploads) : LiesOn(saved, l) /\ saved.settings = Append(l, saved.own))
            => /\ Stacked => Stacked'
               /\ ClimbIsOnTheWay /\ slicer' = slicer => ClimbIsOnTheWay'
<1>1. \A r : r \in Rows' <=> r = saved \/ (r \in Rows /\ ~Keyed(r, saved.kind, saved.name))
  BY Saved
<1>2. \A p \in Rows : p.state = "resolved" => p \in Rows'
  BY <1>1
<1>3. ASSUME NEW r \in Profile, NEW l, LiesOn(r, l)
      PROVE  LiesOn(r, l)'
  <2>1. r.kind \in Kinds /\ r.inherits \in ParentNames
    BY DEF Profile
  <2> QED BY <1>3, <2>1 DEF LiesOn
<1>4. \A r \in Rows : r \in Profile
  BY RowFacts
<1>5. ASSUME saved.state = "resolved" =>
               \E l \in Seq(1 .. MaxUploads) : LiesOn(saved, l) /\ saved.settings = Append(l, saved.own)
      PROVE  /\ Stacked => Stacked'
             /\ ClimbIsOnTheWay /\ slicer' = slicer => ClimbIsOnTheWay'
  <2>1. \A r \in Rows' : r.state = "resolved" =>
            \/ r \in Rows
            \/ \E l \in Seq(1 .. MaxUploads) : LiesOn(r, l)' /\ r.settings = Append(l, r.own)
    BY <1>1, <1>3, <1>5
  <2> QED BY <1>2, <1>3, <1>4, <2>1, LayersStay
<1> QED BY <1>3, <1>5

\* The parents found stay so if a row that waits is saved again from its file.
LEMMA ParentsKept ==
  ASSUME TableOK, NEW saved \in Profile, SaveRow(saved), NEW old \in Rows, SameFile(old, saved), old.state = "pending",
         NEW k \in Kinds, NEW h \in ParentNames, NEW p \in FindParent(k, h), p.state = "resolved"
  PROVE  p \in FindParent(k, h)'
<1>1. p \in Rows /\ p # old
  BY FoundParents
<1>2. p # saved
  BY <1>1, OneRowPerName DEF SameFile
<1> QED BY <1>1, <1>2, FoundAgain

\* The work of an import is current if that of the process that took the step is.
LEMMA WorkKept ==
  ASSUME NEW i \in Importers, \A j \in Importers : j # i => importer'[j].step = "idle",
         importer'[i].step \in {"finding", "resolving", "giving up"} =>
            importer'[i].self \in Rows' /\ importer'[i].self.state = "pending",
         importer'[i].step = "resolving" =>
            \A r, l : r = importer'[i].self /\ l = importer'[i].layers => LiesOn(r, l)',
         importer'[i].step = "children" =>
            \A w \in importer'[i].todo :
               w.child \in Rows' /\ w.child.state = "pending" /\ LiesOn(w.child, w.layers)'
  PROVE  WorkIsCurrent'
<1> SUFFICES ASSUME NEW j \in Importers
             PROVE  /\ HasSelf(j)' => importer'[j].self \in Rows' /\ importer'[j].self.state = "pending"
                    /\ importer'[j].step = "resolving" => LiesOn(importer[j].self, importer[j].layers)'
                    /\ importer'[j].step = "children" =>
                         \A w \in importer'[j].todo :
                            w.child \in Rows' /\ w.child.state = "pending" /\ LiesOn(w.child, w.layers)'
  BY DEF WorkIsCurrent
<1>1. ASSUME importer'[j].step = "resolving"
      PROVE  LiesOn(importer[j].self, importer[j].layers)'
  <2>1. j = i
    BY <1>1
  <2>2. PICK r, l : r = importer'[j].self /\ l = importer'[j].layers
    OBVIOUS
  <2>3. LiesOn(r, l)'
    BY <1>1, <2>1, <2>2
  <2> QED BY <2>2, <2>3 DEF LiesOn
<1> QED BY <1>1 DEF HasSelf

\* A new row is nobody's parent, or the settings that lie on others are exempt.
LEMMA UploadLayers ==
  ASSUME LayerInv, ~Overlapping, ~replaced', NEW i \in Importers, NEW k \in Kinds, NEW n \in Names,
         NEW h \in ParentNames, NEW g \in ParentNames, Upload(i, k, n, h, g)
  PROVE  Layers'
<1>a. TableOK /\ ImporterOK /\ SoleImport /\ Types
  BY DEF LayerInv, CoverInv, Types
<1>b. Others(i) /\ importer[i].step = "idle"
  BY DEF Upload
<1>1. PICK saved \in Profile :
        /\ Keyed(saved, k, n) /\ SaveRow(saved) /\ Goes(i, [IdleImporter EXCEPT !.step = "finding", !.self = saved])
        /\ saved.state = "pending" /\ \A r \in Rows : ~Keyed(r, k, n)
  BY <1>a, UploadFacts
<1>c. ~replaced /\ ~ParentChanges(k) /\ slicer' = slicer
  BY <1>a, UploadFacts
<1>d. Layers
  BY <1>c DEF LayerInv
<1> DEFINE s == [IdleImporter EXCEPT !.step = "finding", !.self = saved]
<1>2. s.step = "finding" /\ s.self = saved
  BY FromIdle
<1> HIDE DEF s
<1>3. importer'[i] = s /\ \A j \in Importers : j # i => importer'[j].step = "idle"
  BY <1>a, <1>b, <1>1, Alone DEF s
<1>4. TableOK' /\ \A r : r \in Rows' <=> r = saved \/ (r \in Rows /\ ~Keyed(r, saved.kind, saved.name))
  BY <1>a, <1>1, Saved
<1>5. ASSUME NEW l \in Kinds, NEW x \in ParentNames, NEW p \in FindParent(l, x)
      PROVE  p \in FindParent(l, x)'
  <2>1. CASE l = k
    <3>1. x \in Names
      BY <1>a, <1>5, FoundParents DEF ParentNames
    <3> QED BY <1>c, <1>5, <2>1, <3>1 DEF ParentChanges
  <2>2. CASE l # k
    <3>1. \A r : r \in RowsOf(l)' <=> r \in RowsOf(l)
      BY <1>a, <1>1, <1>4, <2>2, NextRowsOf, RowsOfFacts DEF Keyed
    <3>2. RowsOf(l)' = RowsOf(l)
      BY <3>1
    <3> QED BY <1>5, <3>2, FindParentIs
  <2> QED BY <2>1, <2>2
<1>6. \A r \in Rows : Keyed(r, saved.kind, saved.name) => r.state = "pending"
  BY <1>1 DEF Keyed
<1>7. Stacked' /\ ClimbIsOnTheWay'
  BY <1>a, <1>c, <1>d, <1>1, <1>5, <1>6, LayersKept DEF Layers
<1>8. WorkIsCurrent'
  BY <1>1, <1>2, <1>3, <1>4, WorkKept
<1> QED BY <1>7, <1>8 DEF Layers

\* Steps that leave the table and the slicer alone.
LEMMA LayersSame ==
  ASSUME Layers, UNCHANGED << table, slicer >>
  PROVE  Stacked' /\ ClimbIsOnTheWay' /\ Rows' = Rows /\ \A r, l : LiesOn(r, l) <=> LiesOn(r, l)'
<1>1. Rows' = Rows /\ \A k, h : FindParent(k, h)' = FindParent(k, h)
  BY SameRows
<1>2. \A r, l : LiesOn(r, l) <=> LiesOn(r, l)'
  BY <1>1 DEF LiesOn
<1> QED BY <1>1, <1>2, LayersStay DEF Layers

LEMMA DecideLayers ==
  ASSUME LayerInv, ~replaced, NEW i \in Importers, Decide(i)
  PROVE  Layers'
<1>a. TableOK /\ ImporterOK /\ SoleImport /\ importer[i] \in Jobs /\ Layers
  BY DEF LayerInv, CoverInv, Types, ImporterOK
<1>b. importer[i].step = "finding" /\ HasSelf(i) /\ UNCHANGED << table, slicer >>
  BY DEF Decide, HasSelf
<1>c. Stacked' /\ ClimbIsOnTheWay' /\ Rows' = Rows /\ \A r, l : LiesOn(r, l) <=> LiesOn(r, l)'
  BY <1>a, <1>b, LayersSame
<1>1. PICK step \in {"resolving", "giving up"}, l \in Seq(1 .. MaxUploads) :
        /\ Goes(i, [importer[i] EXCEPT !.step = step, !.layers = l])
        /\ step = "resolving" => LiesOn(importer[i].self, l)
  BY DecideFacts DEF LayerInv, CoverInv
<1> DEFINE s == [importer[i] EXCEPT !.step = step, !.layers = l]
<1>2. s.step = step /\ s.self = importer[i].self /\ s.layers = l /\ Goes(i, s)
  BY <1>a, <1>1 DEF Jobs
<1> HIDE DEF s
<1>3. importer'[i] = s /\ \A j \in Importers : j # i => importer'[j].step = "idle"
  BY <1>a, <1>b, <1>2, Alone
<1>4. importer[i].self \in Rows /\ importer[i].self.state = "pending"
  BY <1>a, <1>b DEF Layers, WorkIsCurrent
<1>5. s.step = "resolving" => \A r, layers : r = s.self /\ layers = s.layers => LiesOn(r, layers)'
  BY <1>1, <1>2, <1>c
<1>6. WorkIsCurrent'
  BY <1>c, <1>2, <1>3, <1>4, <1>5, WorkKept
<1> QED BY <1>c, <1>6 DEF Layers

LEMMA SavePendingLayers ==
  ASSUME LayerInv, ~replaced, NEW i \in Importers, SavePending(i)
  PROVE  Layers'
<1>a. TableOK /\ ImporterOK /\ SoleImport /\ Layers
  BY DEF LayerInv, CoverInv, Types
<1> DEFINE old == importer[i].self
           saved == [old EXCEPT !.state = "pending"]
<1>1. importer[i].step = "giving up" /\ SaveRow(saved) /\ Goes(i, IdleImporter) /\ slicer' = slicer
  BY DEF SavePending
<1>2. old \in Rows /\ old.state = "pending" /\ old \in Profile
  BY <1>a, <1>1 DEF Layers, WorkIsCurrent, HasSelf, ImporterOK
<1>3. saved \in Profile /\ saved.state = "pending" /\ SameFile(old, saved)
  BY <1>2 DEF Profile, SameFile
<1>4. importer'[i] = IdleImporter /\ \A j \in Importers : j # i => importer'[j].step = "idle"
  BY <1>a, <1>1, Alone
<1> HIDE DEF saved, old
<1>5. \A r \in Rows : Keyed(r, saved.kind, saved.name) => r.state = "pending"
  BY <1>a, <1>2, <1>3, OneRowPerName DEF Keyed, SameFile
<1>6. \A k \in Kinds, h \in ParentNames : \A p \in FindParent(k, h) :
         p.state = "resolved" => p \in FindParent(k, h)'
  BY <1>a, <1>1, <1>2, <1>3, ParentsKept
<1>7. Stacked' /\ ClimbIsOnTheWay'
  BY <1>a, <1>1, <1>3, <1>5, <1>6, LayersKept DEF Layers
<1>8. WorkIsCurrent'
  BY <1>4, IdleType, WorkKept
<1> QED BY <1>7, <1>8 DEF Layers

\* A row that waited is laid over its parent and saved; the rest of the work is as current
\* as before.
LEMMA ResolutionLayers ==
  ASSUME LayerInv, ~replaced, NEW i \in Importers, importer[i].step # "idle", slicer' = slicer,
         NEW old \in Rows, old.state = "pending", NEW l \in Seq(1 .. MaxUploads), LiesOn(old, l),
         NEW s, SaveRow(Resolved(old, l)), Goes(i, s), s.step = "children",
         \A w \in s.todo :
            w.child \in Rows /\ w.child.state = "pending" /\ LiesOn(w.child, w.layers) /\ w.child # old
  PROVE  Layers'
<1>a. TableOK /\ ImporterOK /\ SoleImport /\ Layers
  BY DEF LayerInv, CoverInv, Types
<1> DEFINE saved == Resolved(old, l)
<1>b. old \in Profile
  BY <1>a, RowFacts
<1>1. /\ saved \in Profile /\ saved.state = "resolved" /\ SameFile(old, saved)
      /\ saved.settings = Append(l, old.own)
  BY <1>b, ResolvedType
<1>c. SaveRow(saved)
  OBVIOUS
<1> HIDE DEF saved
<1>2. \A r \in Rows : Keyed(r, saved.kind, saved.name) => r = old
  BY <1>a, <1>1, OneRowPerName DEF Keyed, SameFile
<1>3. \A r : r \in Rows' <=> r = saved \/ (r \in Rows /\ ~Keyed(r, saved.kind, saved.name))
  BY <1>a, <1>1, <1>c, Saved
<1>4. LiesOn(saved, l) /\ saved.own = old.own
  BY <1>1 DEF LiesOn, SameFile
<1>5. \A k \in Kinds, h \in ParentNames : \A p \in FindParent(k, h) :
         p.state = "resolved" => p \in FindParent(k, h)'
  BY <1>a, <1>1, <1>c, ParentsKept
<1>6. Stacked' /\ ClimbIsOnTheWay' /\ \A r \in Profile : \A layers : LiesOn(r, layers) => LiesOn(r, layers)'
  <2>1. \A r \in Rows : Keyed(r, saved.kind, saved.name) => r.state = "pending"
    BY <1>2
  <2> QED BY <1>a, <1>1, <1>c, <1>4, <1>5, <2>1, LayersKept DEF Layers
<1>7. importer'[i] = s /\ \A j \in Importers : j # i => importer'[j].step = "idle"
  BY <1>a, Alone
<1>8. \A w \in s.todo : w.child \in Rows' /\ w.child.state = "pending" /\ LiesOn(w.child, w.layers)'
  BY <1>a, <1>2, <1>3, <1>6, RowFacts
<1>9. WorkIsCurrent'
  BY <1>7, <1>8, WorkKept
<1> QED BY <1>6, <1>9 DEF Layers

\* The children that are found lie on the parent, since it is the one that is found for them.
LEMMA FindChildrenLayers ==
  ASSUME LayerInv, ~replaced', NEW i \in Importers, NEW q \in importer[i].parents, FindChildren(i, q)
  PROVE  Layers'
<1>a. TableOK /\ ImporterOK /\ SoleImport /\ importer[i] \in Jobs /\ InTable /\ Layers
  BY DEF LayerInv, CoverInv, Types, ImporterOK, FindChildren
<1>b. importer[i].step = "children" /\ UNCHANGED << table, slicer >>
      /\ q \in Profile /\ q \in Rows /\ q.state = "resolved"
  BY <1>a DEF FindChildren, Jobs, InTable
<1>c. Stacked' /\ ClimbIsOnTheWay' /\ Rows' = Rows /\ \A r, l : LiesOn(r, l) <=> LiesOn(r, l)'
  BY <1>a, <1>b, LayersSame
<1> DEFINE found == {[child |-> r, layers |-> q.settings] : r \in WaitingChildren(q)}
           s == [importer[i] EXCEPT !.parents = @ \ {q}, !.todo = @ \cup found]
<1>1. s.step = "children" /\ s.todo = importer[i].todo \cup found
  BY <1>a, <1>b DEF Jobs
<1>2. Goes(i, s)
  BY DEF FindChildren
<1>3. \A w \in found : w.child \in Rows /\ w.child.state = "pending" /\ LiesOn(w.child, w.layers)
  <2> SUFFICES ASSUME NEW r \in WaitingChildren(q)
               PROVE  r \in Rows /\ r.state = "pending" /\ LiesOn(r, q.settings)
    OBVIOUS
  <2>1. FindParent(r.kind, r.inherits) = {q}
    BY DEF FindChildren
  <2> QED BY <1>a, <1>b, <2>1, FoundChildren DEF LiesOn
<1> HIDE DEF s
<1>4. importer'[i] = s /\ \A j \in Importers : j # i => importer'[j].step = "idle"
  BY <1>a, <1>b, <1>2, Alone
<1>5. \A w \in s.todo : w.child \in Rows /\ w.child.state = "pending" /\ LiesOn(w.child, w.layers)
  BY <1>a, <1>b, <1>1, <1>3 DEF Layers, WorkIsCurrent
<1>6. WorkIsCurrent'
  BY <1>c, <1>1, <1>4, <1>5, WorkKept
<1> QED BY <1>c, <1>6 DEF Layers

\* A step that only takes something off the work.
LEMMA LessLayers ==
  ASSUME LayerInv, ~replaced, NEW i \in Importers, NEW s, Goes(i, s), importer[i].step # "idle",
         UNCHANGED << table, slicer >>, s.step \in {"idle", "children"},
         s.step = "children" => importer[i].step = "children" /\ s.todo \subseteq importer[i].todo
  PROVE  Layers'
<1>a. TableOK /\ ImporterOK /\ SoleImport /\ Layers
  BY DEF LayerInv, CoverInv, Types
<1>1. Stacked' /\ ClimbIsOnTheWay' /\ Rows' = Rows /\ \A r, l : LiesOn(r, l) <=> LiesOn(r, l)'
  BY <1>a, LayersSame
<1>2. importer'[i] = s /\ \A j \in Importers : j # i => importer'[j].step = "idle"
  BY <1>a, Alone
<1>3. s.step = "children" => \A w \in s.todo : w.child \in Rows /\ w.child.state = "pending" /\ LiesOn(w.child, w.layers)
  BY <1>a DEF Layers, WorkIsCurrent
<1>4. WorkIsCurrent'
  BY <1>1, <1>2, <1>3, WorkKept
<1> QED BY <1>1, <1>4 DEF Layers

\* The slicer starts at a leaf, which lies on all its layers but its own ...
LEMMA StartLayers ==
  ASSUME LayerInv, ~replaced, NEW k \in Kinds, NEW n \in Names, StartRebuild(k, n)
  PROVE  ClimbIsOnTheWay'
<1>a. TableOK /\ Layers
  BY DEF LayerInv, CoverInv, Types
<1> DEFINE leaf == table[k][n]
<1>1. leaf \in Rows /\ leaf.state = "resolved" /\ Keyed(leaf, k, n)
  BY <1>a DEF StartRebuild, Rows, RowsOf, TableOK
<1>2. slicer' = [step |-> IF leaf.inherits \in {NoValue, n} THEN "done" ELSE "climbing",
                 leaf |-> leaf, current |-> leaf, visited |-> {n}, chain |-> << leaf.own >>]
  BY DEF StartRebuild
<1>3. Rows' = Rows /\ \A q, h : FindParent(q, h)' = FindParent(q, h)
  BY SameRows DEF StartRebuild, tableVars
<1> HIDE DEF leaf
<1>4. leaf \in Profile /\ leaf.own \in 1 .. MaxUploads /\ leaf.name \in Names
  BY <1>a, <1>1, RowFacts DEF Profile
<1>5. PICK l \in Seq(1 .. MaxUploads) : LiesOn(leaf, l) /\ leaf.settings = Append(l, leaf.own)
  BY <1>a, <1>1 DEF Layers, Stacked
<1>6. leaf.settings = l \o << leaf.own >> /\ Len(leaf.settings) = Len(l) + 1 /\ Len(l) \in Nat
  BY <1>4, <1>5
<1>7. CASE leaf.inherits = NoValue
  <2>1. \A p \in FindParent(leaf.kind, leaf.inherits) : FALSE
    BY <1>a, <1>1, <1>7, FoundParentsOf DEF Below
  <2>2. l = << >>
    BY <1>5, <2>1 DEF LiesOn
  <2>3. leaf.settings = << leaf.own >>
    BY <1>4, <1>5, <2>2
  <2> QED BY <1>2, <1>7, <2>3 DEF ClimbIsOnTheWay
<1>8. leaf.inherits # n
  <2> SUFFICES ASSUME leaf.inherits = n
               PROVE  FALSE
    OBVIOUS
  <2>1. leaf.inherits = leaf.name /\ leaf.inherits # NoValue
    BY <1>1, NamesAssumption DEF Keyed
  <2>2. leaf \in FindParent(leaf.kind, leaf.inherits)
    <3>1. leaf \in RowsOf(leaf.kind)
      BY <1>a, <1>1, RowFacts
    <3> QED BY <2>1, <3>1, FindParentIs DEF FindIn
  <2>3. LiesOn(leaf, leaf.settings)
    BY <1>1, <2>2 DEF LiesOn
  <2>4. leaf.settings = l
    BY <1>a, <1>1, <1>5, <2>3, LiesOnOne
  <2> QED BY <1>6, <2>4
<1>9. CASE leaf.inherits # NoValue
  <2>1. OnTheWay(leaf, << leaf.own >>, {n}, leaf.settings)
    <3>1. Len(leaf.settings) >= Len(leaf.settings)
      BY <1>6
    <3>2. \A m \in {n} : \E x \in Rows :
            Keyed(x, leaf.kind, m) /\ x.state = "resolved" /\ Len(x.settings) >= Len(leaf.settings)
      BY <1>1, <3>1 DEF Keyed
    <3> QED BY <1>1, <1>5, <1>6, <3>2 DEF OnTheWay
  <2>3. PICK c, chain, seen, settings : << c, chain, seen, settings >> = << leaf, << leaf.own >>, {n}, leaf.settings >>
    OBVIOUS
  <2>4. OnTheWay(c, chain, seen, settings)
    BY <2>1, <2>3
  <2>5. OnTheWay(c, chain, seen, settings)'
    BY <1>3, <2>4 DEF OnTheWay, LiesOn
  <2>6. /\ slicer'.current = c /\ slicer'.chain = chain /\ slicer'.visited = seen /\ slicer'.leaf.settings = settings
        /\ slicer'.step = "climbing"
    BY <1>2, <1>8, <1>9, <2>3
  <2> QED BY <2>5, <2>6 DEF ClimbIsOnTheWay, OnTheWay, LiesOn
<1> QED BY <1>7, <1>9

\* ... climbs one layer at a time ...
LEMMA ClimbLayers ==
  ASSUME LayerInv, ~replaced, Climb
  PROVE  ClimbIsOnTheWay'
<1>a. TableOK /\ Layers /\ slicer \in Slicings
  BY DEF LayerInv, CoverInv, Types, SlicerOK
<1>b. PICK c, chain, seen, settings : << c, chain, seen, settings >>
                = << slicer.current, slicer.chain, slicer.visited, slicer.leaf.settings >>
  OBVIOUS
<1>1. c \in Rows /\ OnTheWay(c, chain, seen, settings)
  BY <1>a, <1>b DEF Climb, Layers, ClimbIsOnTheWay, OnTheWay
<1>2. PICK l \in Seq(1 .. MaxUploads) : LiesOn(c, l) /\ settings = l \o chain
  BY <1>1 DEF OnTheWay
<1>3. PICK p \in FindParent(c.kind, c.inherits) :
        /\ p.state = "resolved" /\ c.inherits # NoValue
        /\ slicer' = [slicer EXCEPT !.current = p, !.visited = @ \cup {p.name}, !.chain = << p.own >> \o @]
  BY <1>b DEF Climb, NextUp
<1>4. p \in Rows /\ p.kind = c.kind /\ LiesOn(c, p.settings)
  BY <1>a, <1>1, <1>3, FoundParentsOf DEF LiesOn, Below
<1>5. l = p.settings
  BY <1>a, <1>1, <1>2, <1>4, LiesOnOne
<1>6. PICK m \in Seq(1 .. MaxUploads) : LiesOn(p, m) /\ p.settings = Append(m, p.own)
  BY <1>a, <1>3, <1>4 DEF Layers, Stacked
<1>7. p.own \in 1 .. MaxUploads /\ chain \in Seq(1 .. MaxUploads) /\ p.name \in Names
  BY <1>a, <1>b, <1>4, RowFacts DEF Slicings, Profile
<1>8. settings = m \o (<< p.own >> \o chain)
  <2>1. l = m \o << p.own >>
    BY <1>5, <1>6, <1>7
  <2>2. (m \o << p.own >>) \o chain = m \o (<< p.own >> \o chain)
    BY <1>6, <1>7
  <2> QED BY <1>2, <2>1, <2>2
<1>9. Len(p.settings) \in Nat /\ Len(c.settings) = Len(p.settings) + 1
  <2>1. PICK x \in Seq(1 .. MaxUploads) : LiesOn(c, x) /\ c.settings = Append(x, c.own)
    BY <1>a, <1>1 DEF Layers, Stacked, OnTheWay
  <2>2. x = p.settings
    BY <1>a, <1>1, <1>4, <2>1, LiesOnOne
  <2> QED BY <2>1, <2>2
<1> DEFINE longer == << p.own >> \o chain
<1>10. OnTheWay(p, longer, seen \cup {p.name}, settings)
  <2>1. ASSUME NEW n \in seen
        PROVE  \E x \in Rows : Keyed(x, p.kind, n) /\ x.state = "resolved" /\ Len(x.settings) >= Len(p.settings)
    <3>1. PICK x \in Rows : Keyed(x, c.kind, n) /\ x.state = "resolved" /\ Len(x.settings) >= Len(c.settings)
      BY <1>1 DEF OnTheWay
    <3>2. Len(x.settings) \in Nat
      BY <1>a, RowFacts
    <3> QED BY <1>4, <1>9, <3>1, <3>2
  <2>2. Keyed(p, p.kind, p.name) /\ Len(p.settings) >= Len(p.settings)
    BY <1>9 DEF Keyed
  <2> QED BY <1>3, <1>4, <1>6, <1>8, <2>1, <2>2 DEF OnTheWay
<1>11. Rows' = Rows /\ \A q, h : FindParent(q, h)' = FindParent(q, h)
  BY SameRows DEF Climb, tableVars
<1>12. /\ slicer'.current = p /\ slicer'.chain = longer /\ slicer'.visited = seen \cup {p.name}
       /\ slicer'.leaf.settings = settings /\ slicer'.step = "climbing"
  BY <1>a, <1>b, <1>3 DEF Slicings, Climb
<1>13. PICK wider : wider = seen \cup {p.name}
  OBVIOUS
<1>14. PICK more : more = longer
  OBVIOUS
<1>15. OnTheWay(p, more, wider, settings)'
  BY <1>10, <1>11, <1>13, <1>14 DEF OnTheWay, LiesOn
<1> HIDE DEF longer
<1> QED BY <1>12, <1>13, <1>14, <1>15 DEF ClimbIsOnTheWay, OnTheWay, LiesOn

\* ... and stops nowhere but at the base: no name is met twice, since the rows met before
\* have more layers than a parent.
LEMMA EndLayers ==
  ASSUME LayerInv, ~replaced, EndRebuild
  PROVE  slicer.chain = slicer.leaf.settings
<1>a. TableOK /\ Layers /\ slicer \in Slicings
  BY DEF LayerInv, CoverInv, Types, SlicerOK
<1>b. PICK c, chain, seen, settings : << c, chain, seen, settings >>
                = << slicer.current, slicer.chain, slicer.visited, slicer.leaf.settings >>
  OBVIOUS
<1>1. c \in Rows /\ c.state = "resolved" /\ OnTheWay(c, chain, seen, settings)
  BY <1>a, <1>b DEF EndRebuild, Layers, ClimbIsOnTheWay, OnTheWay
<1>2. PICK l \in Seq(1 .. MaxUploads) : LiesOn(c, l) /\ settings = l \o chain
  BY <1>1 DEF OnTheWay
<1>3. CASE l = << >>
  <2>1. chain \in Seq(1 .. MaxUploads)
    BY <1>a, <1>b DEF Slicings
  <2>2. << >> \o chain = chain
    BY <2>1
  <2> QED BY <1>b, <1>2, <1>3, <2>2
<1>4. ASSUME NEW p \in FindParent(c.kind, c.inherits), p.state = "resolved", l = p.settings
      PROVE  FALSE
  <2>1. p \in Rows /\ p.kind = c.kind /\ c.inherits # NoValue
    BY <1>a, <1>1, <1>4, FoundParentsOf DEF Below
  <2>2. c.inherits \in seen
    BY <1>b, <1>4, <2>1 DEF EndRebuild, NextUp
  <2>3. PICK x \in Rows : Keyed(x, c.kind, c.inherits) /\ x.state = "resolved" /\ Len(x.settings) >= Len(c.settings)
    BY <1>1, <2>2 DEF OnTheWay
  <2>4. x = p
    <3>1. x \in RowsOf(c.kind)
      BY <1>a, <2>3, RowFacts DEF Keyed
    <3>2. x \in FindParent(c.kind, c.inherits)
      BY <2>3, <3>1, FindParentIs DEF FindIn, Keyed
    <3> QED BY <1>a, <1>1, <1>4, <3>2, FoundParentsOf
  <2>5. PICK y \in Seq(1 .. MaxUploads) : LiesOn(c, y) /\ c.settings = Append(y, c.own)
    BY <1>a, <1>1 DEF Layers, Stacked
  <2>6. y = p.settings
    BY <1>a, <1>1, <1>2, <1>4, <2>5, LiesOnOne
  <2>7. Len(c.settings) = Len(p.settings) + 1 /\ Len(p.settings) \in Nat
    BY <2>5, <2>6
  <2> QED BY <2>3, <2>4, <2>7
<1> QED BY <1>2, <1>3, <1>4 DEF LiesOn

LEMMA SlicerLayers ==
  ASSUME LayerInv, ~replaced, SlicerStep
  PROVE  Layers'
<1>a. SlicerOK /\ Layers
  BY DEF LayerInv, CoverInv, Types
<1>1. UNCHANGED << table, importer >>
  BY DEF SlicerStep, StartRebuild, Climb, EndRebuild, CallSlicer, tableVars
<1>2. Rows' = Rows /\ \A q, h : FindParent(q, h)' = FindParent(q, h)
  BY <1>1, SameRows
<1>3. \A r, l : LiesOn(r, l) <=> LiesOn(r, l)'
  BY <1>2 DEF LiesOn
<1>4. Stacked'
  BY <1>a, <1>2, <1>3, LayersStay DEF Layers
<1>5. WorkIsCurrent'
  <2>1. ASSUME NEW i \in Importers, importer[i].step = "resolving"
        PROVE  LiesOn(importer[i].self, importer[i].layers)'
    <3>1. PICK r, l : r = importer[i].self /\ l = importer[i].layers
      OBVIOUS
    <3>2. LiesOn(r, l)
      BY <1>a, <2>1, <3>1 DEF Layers, WorkIsCurrent
    <3>3. LiesOn(r, l)'
      BY <1>3, <3>2
    <3> QED BY <1>1, <3>1, <3>3 DEF LiesOn
  <2> QED BY <1>a, <1>1, <1>2, <1>3, <2>1 DEF Layers, WorkIsCurrent, HasSelf
<1>6. EndRebuild => ClimbIsOnTheWay'
  BY <1>a, EndLayers DEF EndRebuild, ClimbIsOnTheWay, SlicerOK, Slicings
<1>7. CallSlicer => ClimbIsOnTheWay'
  BY DEF CallSlicer, IdleSlicer, ClimbIsOnTheWay
<1>8. ClimbIsOnTheWay'
  BY <1>6, <1>7, StartLayers, ClimbLayers DEF SlicerStep
<1> QED BY <1>4, <1>5, <1>8 DEF Layers

\* LayerInv is inductive if imports do not overlap.
LEMMA StepLayerInv == LayerInv /\ ~Overlapping /\ [ImportNext]_importVars => LayerInv'
<1> SUFFICES ASSUME LayerInv, ~Overlapping, [ImportNext]_importVars, ~replaced'
             PROVE  Layers'
  BY StepCoverInv DEF LayerInv
<1>a. Types /\ TableOK /\ ImporterOK /\ SoleImport
  BY DEF LayerInv, CoverInv, Types
<1>1. ASSUME NEW i \in Importers, NEW k \in Kinds, NEW n \in Names, NEW h \in ParentNames, NEW g \in ParentNames,
             Upload(i, k, n, h, g)
      PROVE  Layers'
  BY <1>1, UploadLayers
<1>2. ASSUME NEW i \in Importers, ImportStep(i)
      PROVE  Layers'
  <2>1. ~replaced
    BY <1>2 DEF ImportStep, Decide, SavePending, SaveResolved, EndImport, FindChildren, ResolveChild,
                ResolveFails, LookupFails, Break
  <2>2. importer[i] \in Jobs /\ Layers
    BY <1>a, <2>1 DEF LayerInv, ImporterOK
  <2>3. CASE SaveResolved(i)
    <3> DEFINE saved == Resolved(importer[i].self, importer[i].layers)
               s == [IdleImporter EXCEPT !.step = "children", !.parents = {saved}]
    <3>1. /\ importer[i].layers \in Seq(1 .. MaxUploads)
          /\ saved \in Profile /\ SaveRow(saved) /\ Goes(i, s)
      BY <1>a, <2>3, ResolutionFacts
    <3>2. importer[i].step = "resolving" /\ slicer' = slicer
      BY <2>3 DEF SaveResolved
    <3>3. /\ importer[i].self \in Rows /\ importer[i].self.state = "pending"
          /\ LiesOn(importer[i].self, importer[i].layers)
      BY <2>2, <3>2 DEF Layers, WorkIsCurrent, HasSelf
    <3>4. \A r \in Profile : LET c == [IdleImporter EXCEPT !.step = "children", !.parents = {r}]
                             IN  c.step = "children" /\ c.parents = {r} /\ c.todo = {}
      BY FromIdle
    <3>5. s.step = "children" /\ s.todo = {}
      BY <3>1, <3>4
    <3> HIDE DEF s
    <3> QED BY <2>1, <3>1, <3>2, <3>3, <3>5, ResolutionLayers
  <2>4. ASSUME NEW work \in importer[i].todo, ResolveChild(i, work)
        PROVE  Layers'
    <3> DEFINE saved == Resolved(work.child, work.layers)
               s == [importer[i] EXCEPT !.todo = @ \ {work}, !.parents = {saved}]
    <3>1. work.layers \in Seq(1 .. MaxUploads) /\ SaveRow(saved) /\ Goes(i, s)
      BY <1>a, <2>4, ResolutionFacts
    <3>2. importer[i].step = "children" /\ slicer' = slicer
      BY <2>4 DEF ResolveChild
    <3>3. s.step = "children" /\ s.todo = importer[i].todo \ {work}
      BY <2>2, <3>2 DEF Jobs
    <3>4. \A w \in importer[i].todo : w.child \in Rows /\ w.child.state = "pending" /\ LiesOn(w.child, w.layers)
      BY <2>2, <3>2 DEF Layers, WorkIsCurrent
    <3>5. \A w \in s.todo : w.child # work.child
      <4> SUFFICES ASSUME NEW w \in importer[i].todo, w.child = work.child
                   PROVE  w = work
        BY <3>3
      <4>1. w.layers = work.layers
        BY <1>a, <3>4, LiesOnOne
      <4>2. w \in Work /\ work \in Work
        BY <2>2 DEF Jobs
      <4> QED BY <4>1, <4>2 DEF Work
    <3> HIDE DEF s
    <3> QED BY <2>1, <3>1, <3>2, <3>3, <3>4, <3>5, ResolutionLayers
  <2>5. EndImport(i) => Layers'
    BY <2>1, IdleType, LessLayers DEF EndImport
  <2>6. Break(i) => Layers'
    BY <2>1, IdleType, LessLayers DEF Break
  <2>7. ASSUME NEW work \in importer[i].todo, ResolveFails(i, work)
        PROVE  Layers'
    <3> DEFINE s == [importer[i] EXCEPT !.todo = @ \ {work}]
    <3>1. importer[i].step = "children" /\ Goes(i, s) /\ UNCHANGED << table, slicer >>
      BY <2>7 DEF ResolveFails
    <3>2. s.step = "children" /\ s.todo \subseteq importer[i].todo
      BY <2>2, <3>1 DEF Jobs
    <3> HIDE DEF s
    <3> QED BY <2>1, <3>1, <3>2, LessLayers
  <2>8. ASSUME NEW q \in importer[i].parents, LookupFails(i, q)
        PROVE  Layers'
    <3> DEFINE s == [importer[i] EXCEPT !.parents = @ \ {q}]
    <3>1. importer[i].step = "children" /\ Goes(i, s) /\ UNCHANGED << table, slicer >>
      BY <2>8 DEF LookupFails
    <3>2. s.step = "children" /\ s.todo \subseteq importer[i].todo
      BY <2>2, <3>1 DEF Jobs
    <3> HIDE DEF s
    <3> QED BY <2>1, <3>1, <3>2, LessLayers
  <2> QED BY <1>2, <2>1, <2>3, <2>4, <2>5, <2>6, <2>7, <2>8, DecideLayers, SavePendingLayers, FindChildrenLayers
      DEF ImportStep
<1>3. ASSUME NEW k \in Kinds, NEW n \in Names, Delete(k, n)
      PROVE  FALSE
  BY <1>3 DEF Delete
<1>4. SlicerStep => Layers'
  <2>1. SlicerStep => replaced' = replaced
    BY DEF SlicerStep, StartRebuild, Climb, EndRebuild, CallSlicer, tableVars
  <2> QED BY <2>1, SlicerLayers
<1>5. CASE UNCHANGED importVars
  <2>1. importer' = importer /\ UNCHANGED << table, slicer >> /\ ~replaced
    BY <1>5 DEF importVars, tableVars
  <2>2. Layers
    BY <2>1 DEF LayerInv
  <2>3. Stacked' /\ ClimbIsOnTheWay' /\ Rows' = Rows /\ \A r, l : LiesOn(r, l) <=> LiesOn(r, l)'
    BY <2>1, <2>2, LayersSame
  <2>4. WorkIsCurrent'
    <3>1. ASSUME NEW i \in Importers, importer[i].step = "resolving"
          PROVE  LiesOn(importer[i].self, importer[i].layers)'
      <4>1. PICK r, l : r = importer[i].self /\ l = importer[i].layers
        OBVIOUS
      <4>2. LiesOn(r, l)
        BY <2>2, <3>1, <4>1 DEF Layers, WorkIsCurrent
      <4>3. LiesOn(r, l)'
        BY <2>3, <4>2
      <4> QED BY <2>1, <4>1, <4>3 DEF LiesOn
    <3> QED BY <2>1, <2>2, <2>3, <3>1 DEF Layers, WorkIsCurrent, HasSelf
  <2> QED BY <2>3, <2>4 DEF Layers
<1> QED BY <1>1, <1>2, <1>3, <1>4, <1>5, StepCases

LEMMA InitLayerInv == ImportInit => LayerInv
<1> SUFFICES ASSUME ImportInit
             PROVE  Layers
  BY InitCoverInv DEF LayerInv
<1>1. \A i \in Importers : importer[i].step = "idle"
  BY IdleType DEF ImportInit
<1>2. Rows = {}
  BY DEF ImportInit, Rows, RowsOf
<1>3. slicer.step = "idle"
  BY DEF ImportInit, IdleSlicer
<1> QED BY <1>1, <1>2, <1>3 DEF Layers, Stacked, WorkIsCurrent, ClimbIsOnTheWay, HasSelf

-----------------------------------------------------------------------------
\* The files are laid over each other from the first one on.
LaidUpTo(f, lay, files, m) == f = [n \in 0 .. m |-> IF n = 0 THEN 0 ELSE lay[files[n]][f[n - 1]]]

LEMMA UponIs ==
  ASSUME NEW lay, NEW files, Len(files) \in Nat
  PROVE  \E f : /\ f[0] = 0
                /\ \A n \in 1 .. Len(files) : f[n] = lay[files[n]][f[n - 1]]
                /\ Upon(lay, files) = f[Len(files)]
<1> DEFINE T == {m \in Nat : \E f : LaidUpTo(f, lay, files, m)}
<1>1. 0 \in T
  <2> DEFINE f == [n \in 0 .. 0 |-> 0]
  <2>1. LaidUpTo(f, lay, files, 0)
    BY DEF LaidUpTo
  <2> QED BY <2>1
<1>2. ASSUME NEW m \in Nat, m \in T
      PROVE  m + 1 \in T
  <2>1. PICK f : LaidUpTo(f, lay, files, m)
    BY <1>2
  <2> DEFINE g == [n \in 0 .. m + 1 |-> IF n = m + 1 THEN lay[files[m + 1]][f[m]] ELSE f[n]]
  <2>a. \A n \in 0 .. m : f[n] = IF n = 0 THEN 0 ELSE lay[files[n]][f[n - 1]]
    BY <2>1 DEF LaidUpTo
  <2>b. (\A n \in 0 .. m : g[n] = f[n]) /\ g[m + 1] = lay[files[m + 1]][f[m]]
    OBVIOUS
  <2>2. \A n \in 0 .. m + 1 : g[n] = IF n = 0 THEN 0 ELSE lay[files[n]][g[n - 1]]
    <3> SUFFICES ASSUME NEW n \in 0 .. m + 1
                 PROVE  g[n] = IF n = 0 THEN 0 ELSE lay[files[n]][g[n - 1]]
      OBVIOUS
    <3> HIDE DEF g
    <3>1. CASE n = m + 1
      BY <2>b, <3>1
    <3>2. CASE n \in 1 .. m
      <4>1. n - 1 \in 0 .. m /\ n \in 0 .. m
        BY <3>2
      <4> QED BY <2>a, <2>b, <3>2, <4>1
    <3>3. CASE n = 0
      BY <2>a, <2>b, <3>3
    <3> QED BY <3>1, <3>2, <3>3
  <2>3. g = [n \in 0 .. m + 1 |-> g[n]]
    OBVIOUS
  <2> HIDE DEF g
  <2>4. LaidUpTo(g, lay, files, m + 1)
    BY <2>2, <2>3 DEF LaidUpTo
  <2> QED BY <2>4
<1>3. \E f : LaidUpTo(f, lay, files, Len(files))
  <2>1. Nat \subseteq T
    <3> HIDE DEF T
    <3> QED BY <1>1, <1>2, NumberInduction
  <2> QED BY <2>1
<1> HIDE DEF T
<1> DEFINE upTo == CHOOSE f : LaidUpTo(f, lay, files, Len(files))
<1>4. LaidUpTo(upTo, lay, files, Len(files))
  BY <1>3
<1>5. Upon(lay, files) = upTo[Len(files)]
  BY DEF Upon, LaidUpTo
<1> HIDE DEF upTo
<1>6. \A n \in 0 .. Len(files) : upTo[n] = IF n = 0 THEN 0 ELSE lay[files[n]][upTo[n - 1]]
  BY <1>4 DEF LaidUpTo
<1> QED BY <1>5, <1>6

\* The two merges make the same of one setting, but for what cannot be stored.
Agree(s, shown, sent) ==
    /\ shown \in 0 .. MaxUploads /\ sent \in 0 .. MaxUploads
    /\ \/ shown = sent
       \/ shown = 0 /\ sent # 0 /\ s[sent] \in {"empty", "unreadable"}

LEMMA MergesAgree ==
  ASSUME NEW s \in Setting, NEW files \in Seq(1 .. MaxUploads)
  PROVE  Agree(s, Stored(s, files), Sent(s, files))
<1>a. Len(files) \in Nat
  OBVIOUS
<1>b. ASSUME NEW n \in 1 .. Len(files)
      PROVE  files[n] \in 1 .. MaxUploads
  <2>1. \A S : files \in Seq(S) => files[n] \in S
    OBVIOUS
  <2> QED BY <2>1
<1>1. Len(files) \in Nat /\ \A n \in 1 .. Len(files) : files[n] \in 1 .. MaxUploads
  BY <1>a, <1>b
<1>2. PICK f : /\ f[0] = 0
               /\ \A n \in 1 .. Len(files) : f[n] = Laid(s)[files[n]][f[n - 1]]
               /\ Stored(s, files) = f[Len(files)]
  BY <1>1, UponIs DEF Stored
<1>3. PICK g : /\ g[0] = 0
               /\ \A n \in 1 .. Len(files) : g[n] = Overridden(s)[files[n]][g[n - 1]]
               /\ Sent(s, files) = g[Len(files)]
  BY <1>1, UponIs DEF Sent
<1>4. ASSUME NEW a \in 0 .. MaxUploads, NEW b \in 0 .. MaxUploads, NEW file \in 1 .. MaxUploads, Agree(s, a, b)
      PROVE  Agree(s, Laid(s)[file][a], Overridden(s)[file][b])
  <2>1. s[file] \in {"plain", "empty", "unreadable", "absent"}
    BY DEF Setting
  <2>2. /\ s[file] \in {"plain", "empty"} => Laid(s)[file][a] = file
        /\ s[file] = "unreadable" => Laid(s)[file][a] = 0
        /\ s[file] = "absent" => Laid(s)[file][a] = IF a # 0 /\ s[a] = "empty" THEN 0 ELSE a
    BY DEF Laid
  <2>3. Overridden(s)[file][b] = IF s[file] = "absent" THEN b ELSE file
    BY DEF Overridden
  <2>4. file \in 0 .. MaxUploads /\ 0 \in 0 .. MaxUploads /\ file # 0
    BY NamesAssumption
  <2> QED BY <1>4, <2>1, <2>2, <2>3, <2>4 DEF Agree
<1> DEFINE T == {n \in Nat : n <= Len(files) => Agree(s, f[n], g[n])}
<1>5. 0 \in T
  BY <1>2, <1>3, NamesAssumption DEF Agree
<1>6. ASSUME NEW n \in Nat, n \in T
      PROVE  n + 1 \in T
  <2> SUFFICES ASSUME n + 1 <= Len(files)
               PROVE  Agree(s, f[n + 1], g[n + 1])
    OBVIOUS
  <2>1. n + 1 \in 1 .. Len(files) /\ (n + 1) - 1 = n
    BY <1>1
  <2>2. Agree(s, f[n], g[n])
    BY <1>1, <1>6
  <2>3. f[n] \in 0 .. MaxUploads /\ g[n] \in 0 .. MaxUploads
    BY <2>2 DEF Agree
  <2>4. Agree(s, Laid(s)[files[n + 1]][f[n]], Overridden(s)[files[n + 1]][g[n]])
    BY <1>1, <1>4, <2>1, <2>2, <2>3
  <2> QED BY <1>2, <1>3, <2>1, <2>4
<1>7. Len(files) \in T
  <2> HIDE DEF T
  <2> QED BY <1>1, <1>5, <1>6, NumberInduction
<1> QED BY <1>1, <1>2, <1>3, <1>7

\* While nothing was replaced, the slicer is sent what is shown, but for values that cannot be
\* stored: for any number of files of any type, in any order, whatever they call their parents
\* and their former names, wherever imports fail, and whenever the slicer asks.
THEOREM ShownIsSentAlways ==
  ASSUME ~Overlapping
  PROVE  ImportSpec => []ShownIsSent
<1>1. LayerInv => ShownIsSent
  <2> SUFFICES ASSUME LayerInv, slicer.step = "done", ~replaced, NEW s \in Setting
               PROVE  \/ Stored(s, slicer.leaf.settings) = Sent(s, slicer.chain)
                      \/ /\ Stored(s, slicer.leaf.settings) = 0
                         /\ s[Sent(s, slicer.chain)] \in {"empty", "unreadable"}
    BY DEF ShownIsSent
  <2>1. slicer.chain = slicer.leaf.settings /\ slicer.chain \in Seq(1 .. MaxUploads)
    BY DEF LayerInv, Layers, ClimbIsOnTheWay, CoverInv, Types, SlicerOK, Slicings
  <2> QED BY <2>1, MergesAgree DEF Agree
<1>2. LayerInv /\ [ImportNext]_importVars => LayerInv'
  BY StepLayerInv
<1> QED BY <1>1, <1>2, InitLayerInv, PTL DEF ImportSpec

-----------------------------------------------------------------------------
(* Estimates.                                                              *)

(* The parts of the type invariant the arguments below look into: a row    *)
(* that exists is a row, the worker is busy with a part that exists, and   *)
(* so is a request that is not idle.                                       *)
RowsShape == DOMAIN row = Parts /\ \A x \in Parts : Exists(x) => row[x] \in Row

WorkerShape ==
    /\ worker \in [at: {"free", "claimed", "slicing", "aborting"}, part: Parts \cup {None},
                   model: Models \cup {None}, preset: Presets \cup {None}]
    /\ worker.at = "free" => worker.part = None
    /\ worker.at # "free" => worker.part \in Parts /\ Exists(worker.part)
    /\ worker.at = "slicing" => worker.model \in Models /\ worker.preset \in Presets

RequestsShape ==
    /\ request \in [Requests -> Request]
    /\ \A r \in Requests :
          request[r].at \in {"loaded", "edited", "moved", "copied"}
          => request[r].part \in Parts /\ Exists(request[r].part) /\ request[r].seen \in Row
    /\ \A r \in Requests : \A x \in request[r].todo : Exists(x)

Shape ==
    /\ RowsShape /\ WorkerShape /\ RequestsShape
    /\ default \in [Projects -> Presets \cup {None}]
    /\ presets \subseteq Presets

(* Saving, copying and clearing yield rows.                                *)
LEMMA ClearedRow == ASSUME NEW p \in Row, NEW q \in BOOLEAN PROVE Cleared(p, q) \in Row
  BY DEF Cleared, Row, Statuses

LEMMA RequeuedRow == ASSUME NEW p \in Row, NEW k \in Row PROVE Requeued(p, k) \in Row
  BY ClearedRow DEF Requeued

LEMMA StatusUpdate == ASSUME NEW p \in Row, NEW st \in Statuses PROVE [p EXCEPT !.status = st] \in Row
  BY DEF Row

LEMMA AbortUpdate == ASSUME NEW p \in Row PROVE [p EXCEPT !.status = "none", !.with = None] \in Row
  BY DEF Row, Statuses

LEMMA FinishUpdate ==
  ASSUME NEW p \in Row, NEW m \in Models, NEW s \in Presets
  PROVE  [p EXCEPT !.status = "success", !.made = <<m, s>>, !.with = s] \in Row
  BY DEF Row, Statuses

LEMMA FormUpdate ==
  ASSUME NEW p \in Row, NEW j \in Projects, NEW s \in Presets \cup {None}, NEW m \in Models \cup {None}
  PROVE  /\ [p EXCEPT !.project = j, !.preset = s, !.model = m] \in Row
         /\ [p EXCEPT !.project = j, !.preset = s] \in Row
  BY DEF Row

LEMMA CopyUpdate ==
  ASSUME NEW p \in Row, NEW j \in Projects, NEW st \in Statuses, NEW w \in Presets \cup {None}
  PROVE  [p EXCEPT !.project = j, !.status = st, !.with = w] \in Row
  BY DEF Row

LEMMA PresetUpdate ==
  ASSUME NEW p \in Row, NEW s \in Presets \cup {None}, NEW w \in Presets \cup {None}
  PROVE  [p EXCEPT !.preset = s, !.with = w] \in Row
  BY DEF Row

(* Parts never cease to exist, so what is said of them stays true.         *)
Grows == \A x \in Parts : Exists(x) => Exists(x)'

LEMMA RowUpdate ==
  ASSUME RowsShape, NEW x \in Parts, NEW p \in Row, row' = [row EXCEPT ![x] = p]
  PROVE  RowsShape' /\ Grows
  BY NoneAssumption DEF RowsShape, Grows, Exists

LEMMA WorkerKept == ASSUME WorkerShape, Grows, UNCHANGED worker PROVE WorkerShape'
  BY DEF WorkerShape, Grows, Exists

LEMMA WorkerFreed == ASSUME worker' = NoWork PROVE WorkerShape'
  BY DEF WorkerShape, NoWork

LEMMA RequestsKept == ASSUME RequestsShape, Grows, UNCHANGED request PROVE RequestsShape'
  <1>1. \A r \in Requests : request[r].todo \subseteq Parts
    BY DEF RequestsShape, Request
  <1>2. \A r \in Requests : \A x \in request[r].todo : row'[x] # None
    BY <1>1 DEF RequestsShape, Grows, Exists
  <1>3. \A r \in Requests : request[r].at \in {"loaded", "edited", "moved", "copied"}
            => request[r].part \in Parts /\ row'[request[r].part] # None /\ request[r].seen \in Row
    BY DEF RequestsShape, Grows, Exists
  <1>. QED BY <1>2, <1>3 DEF RequestsShape, Exists

LEMMA RequestUpdate ==
  ASSUME RequestsShape, Grows, NEW r \in Requests, NEW q \in Request,
         request' = [request EXCEPT ![r] = q],
         q.at \in {"loaded", "edited", "moved", "copied"}
         => q.part \in Parts /\ Exists(q.part)' /\ q.seen \in Row,
         \A x \in q.todo : Exists(x)'
  PROVE  RequestsShape'
  <1>1. request' \in [Requests -> Request] /\ \A k \in Requests : request'[k] = IF k = r THEN q ELSE request[k]
    BY DEF RequestsShape
  <1>2. \A k \in Requests, x \in Parts : x \in request[k].todo => Exists(x)'
    BY DEF RequestsShape, Grows
  <1>3. \A k \in Requests : request[k].todo \subseteq Parts
    BY DEF RequestsShape, Request
  <1>4. \A k \in Requests : \A x \in request'[k].todo : Exists(x)'
    BY <1>1, <1>2, <1>3
  <1>5. ASSUME NEW k \in Requests, request'[k].at \in {"loaded", "edited", "moved", "copied"}
        PROVE  request'[k].part \in Parts /\ row'[request'[k].part] # None /\ request'[k].seen \in Row
    <2>1. CASE k = r
      BY <1>1, <1>5, <2>1 DEF Exists
    <2>2. CASE k # r
      BY <1>1, <1>5, <2>2 DEF RequestsShape, Grows, Exists
    <2>. QED BY <2>1, <2>2
  <1>6. \A k \in Requests : request'[k].at \in {"loaded", "edited", "moved", "copied"}
            => request'[k].part \in Parts /\ row'[request'[k].part] # None /\ request'[k].seen \in Row
    BY <1>5
  <1>7. \A k \in Requests : \A x \in request'[k].todo : row'[x] # None
    BY <1>4 DEF Exists
  <1>. QED BY <1>1, <1>6, <1>7, Zenon DEF RequestsShape, Exists

LEMMA IdleRequest == Idle \in Request /\ Idle.at = "idle" /\ Idle.todo = {}
  BY DEF Idle, Request

LEMMA InitShape == Init => Shape
  <1>. SUFFICES ASSUME Init PROVE Shape
    OBVIOUS
  <1>1. RowsShape
    BY NoneAssumption DEF Init, RowsShape, Exists, Row, Statuses
  <1>2. WorkerShape /\ RequestsShape
    BY DEF Init, WorkerShape, RequestsShape, NoWork, Idle, Request
  <1>. QED BY <1>1, <1>2 DEF Init, Shape

LEMMA StepShape == Shape /\ [Next]_vars => Shape' /\ Grows
  <1>. SUFFICES ASSUME Shape, [Next]_vars PROVE Shape' /\ Grows
    OBVIOUS
  <1>. USE DEF Shape
  <1>0. ASSUME UNCHANGED row PROVE RowsShape' /\ Grows
    BY <1>0 DEF RowsShape, Grows, Exists
  <1>1. ASSUME NEW r \in Requests, NEW x \in Parts, Read(r, x) PROVE Shape' /\ Grows
    <2>. DEFINE q == [Idle EXCEPT !.at = "loaded", !.part = x, !.seen = row[x]]
    <2>1. q \in Request /\ q.part = x /\ q.seen \in Row /\ q.todo = {}
      BY <1>1 DEF Read, Idle, Request, RowsShape
    <2>2. RequestsShape'
      BY <1>0, <1>1, <2>1, RequestUpdate DEF Read, Exists
    <2>. QED BY <1>0, <1>1, <2>2, WorkerKept DEF Read
  <1>2. ASSUME NEW r \in Requests, NEW saved \in Row, NEW next \in {"idle", "edited", "moved"},
               request[r].at = "loaded", Save(r, saved, next)
        PROVE  Shape' /\ Grows
    <2>. DEFINE q == IF next = "idle" THEN Idle ELSE [request[r] EXCEPT !.at = next, !.seen = saved]
    <2>1. request[r].part \in Parts /\ Exists(request[r].part) /\ request[r] \in Request
      BY <1>2 DEF RequestsShape
    <2>2. RowsShape' /\ Grows
      BY <1>2, <2>1, RowUpdate DEF Save
    <2>3. /\ q \in Request
          /\ q.at # "idle" => q.part = request[r].part /\ q.seen = saved
          /\ q.todo \subseteq request[r].todo
      BY <2>1, IdleRequest DEF Request
    <2>4. request' = [request EXCEPT ![r] = q]
      BY <1>2 DEF Save, RequestsShape
    <2>6. \A x \in q.todo : Exists(x)'
      BY <2>1, <2>2, <2>3 DEF Grows, RequestsShape, Request
    <2>5. RequestsShape'
      BY <2>1, <2>2, <2>3, <2>4, <2>6, RequestUpdate DEF Grows
    <2>. QED BY <1>2, <2>2, <2>5, WorkerKept DEF Save
  <1>3. ASSUME NEW r \in Requests, SaveForm(r) PROVE Shape' /\ Grows
    <2>1. request[r].at = "loaded" /\ request[r].seen \in Row
      BY <1>3 DEF SaveForm, RequestsShape
    <2>2. PICK j \in Projects, s \in presets \cup {None}, m \in Models \cup {None} :
             Save(r, [request[r].seen EXCEPT !.project = j, !.preset = s, !.model = m],
                  IF s # request[r].seen.preset \/ m # request[r].seen.model THEN "edited"
                  ELSE IF j # request[r].seen.project THEN "moved" ELSE "idle")
      BY <1>3 DEF SaveForm
    <2>3. [request[r].seen EXCEPT !.project = j, !.preset = s, !.model = m] \in Row
      BY <2>1, FormUpdate
    <2>. QED BY <1>2, <2>1, <2>2, <2>3
  <1>4. ASSUME NEW r \in Requests, SavePatch(r) PROVE Shape' /\ Grows
    <2>1. request[r].at = "loaded" /\ request[r].seen \in Row
      BY <1>4 DEF SavePatch, RequestsShape
    <2>2. PICK j \in Projects, s \in presets \cup {None} :
             Save(r, [request[r].seen EXCEPT !.project = j, !.preset = s],
                  IF j # request[r].seen.project THEN "moved" ELSE "idle")
      BY <1>4 DEF SavePatch
    <2>3. [request[r].seen EXCEPT !.project = j, !.preset = s] \in Row
      BY <2>1, FormUpdate, NoneAssumption
    <2>. QED BY <1>2, <2>1, <2>2, <2>3
  <1>5. ASSUME NEW r \in Requests, GiveUp(r) PROVE Shape' /\ Grows
    BY <1>0, <1>5, IdleRequest, RequestUpdate, WorkerKept DEF GiveUp
  <1>6. ASSUME NEW r \in Requests, Copy(r) PROVE Shape' /\ Grows
    <2>1. request[r].seen \in Row
      BY <1>6 DEF Copy, RequestsShape
    <2>. DEFINE reset == request[r].seen.status \in {"pending", "estimating"}
                st == IF reset THEN "none" ELSE request[r].seen.status
                w == IF reset THEN None ELSE request[r].seen.with
    <2>2. PICK y \in Parts, j \in Projects :
             LET new == [request[r].seen EXCEPT !.project = j, !.status = st, !.with = w]
             IN  /\ row' = [row EXCEPT ![y] = new]
                 /\ request' = [request EXCEPT ![r] = [Idle EXCEPT !.at = "copied", !.part = y, !.seen = new]]
      BY <1>6, Zenon DEF Copy
    <2>a. st \in Statuses /\ w \in Presets \cup {None}
      BY <2>1 DEF Row, Statuses
    <2>. DEFINE new == [request[r].seen EXCEPT !.project = j, !.status = st, !.with = w]
                q == [Idle EXCEPT !.at = "copied", !.part = y, !.seen = new]
    <2>3. new \in Row
      BY <2>1, <2>a, CopyUpdate
    <2>4. RowsShape' /\ Grows
      BY <2>2, <2>3, RowUpdate
    <2>5. q \in Request /\ q.part = y /\ q.seen = new /\ q.todo = {}
      BY <2>3 DEF Idle, Request
    <2>6. row'[y] = new
      BY <2>2 DEF RowsShape
    <2>7. Exists(y)'
      BY <2>3, <2>6, NoneAssumption DEF Exists
    <2>8. request' = [request EXCEPT ![r] = q]
      BY <2>2
    <2>9. RequestsShape'
      <3>. HIDE DEF new, q
      <3>. QED BY <2>3, <2>4, <2>5, <2>7, <2>8, RequestUpdate
    <2>. QED BY <1>6, <2>4, <2>9, WorkerKept DEF Copy
  <1>7. ASSUME NEW r \in Requests, Trigger(r) PROVE Shape' /\ Grows
    <2>1. request[r].part \in Parts /\ row[request[r].part] \in Row
      BY <1>7 DEF Trigger, RequestsShape, RowsShape
    <2>2. RowsShape' /\ Grows
      BY <1>7, <2>1, ClearedRow, RowUpdate DEF Trigger, IsEstimable
    <2>. QED BY <1>7, <2>2, IdleRequest, RequestUpdate, WorkerKept DEF Trigger
  <1>8. ASSUME NEW r \in Requests, Requeue(r) PROVE Shape' /\ Grows
    <2>1. request[r].part \in Parts /\ row[request[r].part] \in Row /\ request[r].seen \in Row
      BY <1>8 DEF Requeue, RequestsShape, RowsShape
    <2>2. RowsShape' /\ Grows
      BY <1>8, <2>1, RequeuedRow, RowUpdate DEF Requeue
    <2>. QED BY <1>8, <2>2, IdleRequest, RequestUpdate, WorkerKept DEF Requeue
  <1>9. ASSUME NEW r \in Requests, RequeueSubtree(r) PROVE Shape' /\ Grows
    <2>1. RowsShape' /\ Grows
      BY <1>9, RequeuedRow, NoneAssumption DEF RequeueSubtree, RowsShape, Grows, Exists
    <2>. QED BY <1>9, <2>1, IdleRequest, RequestUpdate, WorkerKept DEF RequeueSubtree
  <1>10. ASSUME NEW r \in Requests, NEW js \in (SUBSET Projects) \ {{}}, NEW s \in presets, EditProject(r, js, s)
         PROVE  Shape' /\ Grows
    <2>. DEFINE q == [Idle EXCEPT !.at = "retreed", !.projects = js]
    <2>1. q \in Request /\ q.at = "retreed" /\ q.todo = {}
      BY DEF Idle, Request
    <2>2. RequestsShape'
      BY <1>0, <1>10, <2>1, RequestUpdate DEF EditProject
    <2>. QED BY <1>0, <1>10, <2>2, WorkerKept DEF EditProject
  <1>11. ASSUME NEW x \in Parts, ReEstimate(x) PROVE Shape' /\ Grows
    <2>1. RowsShape' /\ Grows
      BY <1>11, ClearedRow, RowUpdate DEF ReEstimate, RowsShape
    <2>. QED BY <1>11, <2>1, RequestsKept, WorkerKept DEF ReEstimate
  <1>12. ASSUME NEW s \in Presets, DeletePreset(s) PROVE Shape' /\ Grows
    <2>1. \A x \in Parts : Exists(x) =>
             [row[x] EXCEPT !.preset = IF @ = s THEN None ELSE @, !.with = IF @ = s THEN None ELSE @] \in Row
      <3>. SUFFICES ASSUME NEW x \in Parts, Exists(x)
                    PROVE  [row[x] EXCEPT !.preset = IF @ = s THEN None ELSE @,
                                          !.with = IF @ = s THEN None ELSE @] \in Row
        OBVIOUS
      <3>. DEFINE p == row[x]
                  a == IF p.preset = s THEN None ELSE p.preset
                  w == IF p.with = s THEN None ELSE p.with
      <3>1. p \in Row
        BY DEF RowsShape
      <3>2. a \in Presets \cup {None} /\ w \in Presets \cup {None}
        BY <3>1 DEF Row
      <3>3. [p EXCEPT !.preset = a, !.with = w] \in Row
        BY <3>1, <3>2, PresetUpdate
      <3>. QED BY <3>3
    <2>2. RowsShape' /\ Grows
      BY <1>12, <2>1, NoneAssumption DEF DeletePreset, RowsShape, Grows, Exists
    <2>. QED BY <1>12, <2>2, RequestsKept, WorkerKept DEF DeletePreset
  <1>13. CASE Claim
    <2>1. PICK x \in Parts : /\ Exists(x)
                             /\ row' = [row EXCEPT ![x].status = "estimating"]
                             /\ worker' = [NoWork EXCEPT !.at = "claimed", !.part = x]
      BY <1>13 DEF Claim, Pending
    <2>2. RowsShape' /\ Grows
      BY <2>1, RowUpdate, StatusUpdate DEF RowsShape, Statuses
    <2>3. WorkerShape'
      BY <2>1, <2>2 DEF WorkerShape, NoWork, Grows
    <2>. QED BY <1>13, <2>2, <2>3, RequestsKept DEF Claim
  <1>14. CASE LoadPart
    <2>1. worker.part \in Parts /\ Exists(worker.part) /\ row[worker.part] \in Row
      BY <1>14 DEF LoadPart, WorkerShape, RowsShape
    <2>2. Effective(row[worker.part]) \in Presets \cup {None} /\ row[worker.part].model \in Models \cup {None}
      BY <2>1 DEF Effective, Row
    <2>3. WorkerShape'
      <3>1. CASE worker' = [worker EXCEPT !.at = "aborting"] /\ row' = row
        BY <2>1, <3>1 DEF WorkerShape, Exists
      <3>2. CASE worker' = NoWork
        BY <3>2, WorkerFreed
      <3>3. CASE /\ worker' = [worker EXCEPT !.at = "slicing", !.model = row[worker.part].model,
                                             !.preset = Effective(row[worker.part])]
                 /\ IsEstimable(row[worker.part]) /\ row' = row
        BY <2>1, <2>2, <3>3 DEF WorkerShape, Exists, IsEstimable
      <3>. QED BY <1>14, <3>1, <3>2, <3>3 DEF LoadPart
    <2>. QED BY <1>0, <1>14, <2>3, RequestsKept DEF LoadPart
  <1>15. CASE FinishEstimate
    <2>1. worker.part \in Parts /\ row[worker.part] \in Row /\ <<worker.model, worker.preset>> \in Models \X Presets
          /\ worker.preset \in Presets
      BY <1>15 DEF FinishEstimate, WorkerShape, RowsShape
    <2>2. RowsShape' /\ Grows
      BY <1>0, <1>15, <2>1, RowUpdate, FinishUpdate DEF FinishEstimate
    <2>. QED BY <1>15, <2>2, RequestsKept, WorkerFreed DEF FinishEstimate
  <1>16. CASE FailEstimate
    <2>1. worker.part \in Parts /\ row[worker.part] \in Row
      BY <1>16 DEF FailEstimate, WorkerShape, RowsShape
    <2>2. RowsShape' /\ Grows
      BY <1>0, <1>16, <2>1, RowUpdate, StatusUpdate DEF FailEstimate, Statuses
    <2>. QED BY <1>16, <2>2, RequestsKept, WorkerFreed DEF FailEstimate
  <1>17. CASE AbortEstimate
    <2>1. worker.part \in Parts /\ row[worker.part] \in Row
      BY <1>17 DEF AbortEstimate, WorkerShape, RowsShape
    <2>2. RowsShape' /\ Grows
      BY <1>17, <2>1, RowUpdate, AbortUpdate DEF AbortEstimate
    <2>. QED BY <1>17, <2>2, RequestsKept, WorkerFreed DEF AbortEstimate
  <1>18. CASE StartProcess
    BY <1>0, <1>18, WorkerKept, WorkerFreed, RequestsKept DEF StartProcess
  <1>19. CASE RequeueStuck
    <2>1. \A x \in Parts : Exists(x) => [row[x] EXCEPT !.status = "pending"] \in Row
      BY StatusUpdate DEF RowsShape, Statuses
    <2>2. RowsShape' /\ Grows
      BY <1>19, <2>1, NoneAssumption DEF RequeueStuck, RowsShape, Grows, Exists
    <2>. QED BY <1>19, <2>2, RequestsKept, WorkerKept DEF RequeueStuck
  <1>21. ASSUME NEW r \in Requests, NEW js \in (SUBSET Projects) \ {{}}, ListParts(r, js)
         PROVE  Shape' /\ Grows
    <2>. DEFINE eligible == {x \in Parts : Exists(x) /\ row[x].project \in js /\ IsEstimable(row[x])}
                q == [Idle EXCEPT !.at = "listed", !.todo = eligible]
    <2>1. q \in Request /\ q.at = "listed" /\ request' = [request EXCEPT ![r] = q] /\ q.todo = eligible
      BY <1>21 DEF ListParts, Idle, Request
    <2>3. \A x \in q.todo : Exists(x)'
      BY <1>21, <2>1 DEF ListParts, Exists
    <2>. HIDE DEF q
    <2>2. RequestsShape'
      BY <1>0, <1>21, <2>1, <2>3, RequestUpdate DEF ListParts
    <2>. QED BY <1>0, <1>21, <2>2, WorkerKept DEF ListParts
  <1>22. ASSUME NEW r \in Requests, NEW x \in Parts, QueueListed(r, x) PROVE Shape' /\ Grows
    <2>1. DOMAIN row = Parts /\ row[x] \in Row /\ request[r] \in Request
          /\ \A y \in request[r].todo : Exists(y)
      BY <1>22 DEF QueueListed, RequestsShape, RowsShape
    <2>2. RowsShape' /\ Grows
      BY <1>22, <2>1, ClearedRow, RowUpdate DEF QueueListed
    <2>. DEFINE q == IF request[r].todo = {x} THEN Idle
                     ELSE [Idle EXCEPT !.at = "listed", !.todo = request[r].todo \ {x}]
    <2>3. q \in Request /\ q.at \in {"idle", "listed"} /\ request' = [request EXCEPT ![r] = q]
          /\ q.todo \subseteq request[r].todo
      BY <1>22, <2>1, IdleRequest DEF QueueListed, Idle, Request
    <2>. HIDE DEF q
    <2>5. \A y \in q.todo : Exists(y)'
      BY <2>1, <2>2, <2>3 DEF Grows, Request
    <2>4. RequestsShape'
      BY <2>2, <2>3, <2>5, RequestUpdate
    <2>. QED BY <1>22, <2>2, <2>4, WorkerKept DEF QueueListed
  <1>23. CASE ChangeMachines
    BY <1>0, <1>23, WorkerKept, RequestsKept DEF ChangeMachines
  <1>20. CASE UNCHANGED vars
    BY <1>0, <1>20, WorkerKept, RequestsKept DEF vars
  <1>. QED BY <1>1, <1>3, <1>4, <1>5, <1>6, <1>7, <1>8, <1>9, <1>10, <1>11, <1>12, <1>13, <1>14, <1>15,
              <1>16, <1>17, <1>18, <1>19, <1>20, <1>21, <1>22, <1>23 DEF Next, RequestNext, WorkerNext, Estimating

-----------------------------------------------------------------------------
(* An estimate of the model a row has, with the preset it names.           *)
Consistent(p) == p.status = "success" => p.made # None /\ p.made[1] = p.model /\ p.with \in {p.made[2], None}

(* The inductive invariant adds to the two properties that the worker      *)
(* slices the present model of a part that is still estimating, and that   *)
(* no request has read the row of a part between the writes of an edit.    *)
SlicedModelIsPresent ==
    worker.at = "slicing" /\ row[worker.part].status = "estimating" /\ ~BetweenWrites(worker.part)
    => worker.model = row[worker.part].model

SeenIsConsistent == \A r \in Requests : request[r].at = "loaded" => Consistent(request[r].seen)

RowInv == SlicedModelIsPresent /\ EstimatingIsUnderWay /\ EstimateIsOfThePresentModel

EstimateInv == Shape /\ SeenIsConsistent /\ RowInv

(* What a step of a request does to a part at most: it stops the estimate, *)
(* it forgets the preset of one, it changes nothing the worker relies on,  *)
(* or it is the first of two writes.                                       *)
Tame(x) ==
    Exists(x)' =>
       \/ row'[x].status \in {"none", "pending", "error"}
       \/ /\ Exists(x) /\ row'[x].status = row[x].status /\ BetweenWrites(x)'
       \/ /\ Exists(x) /\ row'[x].status = row[x].status /\ row'[x].model = row[x].model
          /\ row'[x].made = row[x].made /\ row'[x].with \in {row[x].with, None}
          /\ BetweenWrites(x) => BetweenWrites(x)'
       \/ /\ ~Exists(x) /\ row'[x].status # "estimating" /\ Consistent(row'[x])

LEMMA TameSteps ==
  ASSUME Shape, RowInv, UNCHANGED <<worker, starting, unsupported>>, Grows, \A x \in Parts : Tame(x)
  PROVE  RowInv'
  <1>1. SlicedModelIsPresent'
    <2>. SUFFICES ASSUME worker.at = "slicing", row'[worker.part].status = "estimating",
                         ~BetweenWrites(worker.part)'
                  PROVE  worker.model = row'[worker.part].model
      BY DEF SlicedModelIsPresent, BetweenWrites
    <2>. DEFINE x == worker.part
    <2>1. x \in Parts /\ Exists(x) /\ Exists(x)' /\ Tame(x)
      BY DEF Shape, WorkerShape, Grows
    <2>2. row[x].status = "estimating" /\ row'[x].model = row[x].model /\ ~BetweenWrites(x)
      BY <2>1 DEF Tame
    <2>. QED BY <2>1, <2>2 DEF RowInv, SlicedModelIsPresent
  <1>2. EstimatingIsUnderWay'
    BY DEF RowInv, EstimatingIsUnderWay, Tame, Exists
  <1>3. EstimateIsOfThePresentModel'
    <2>. SUFFICES ASSUME NEW x \in Parts, Exists(x)', row'[x].status = "success", ~BetweenWrites(x)'
                  PROVE  Consistent(row'[x])
      BY DEF EstimateIsOfThePresentModel, BetweenWrites, Exists, Consistent
    <2>1. Tame(x)
      OBVIOUS
    <2>2. CASE ~Exists(x)
      BY <2>1, <2>2 DEF Tame
    <2>3. CASE Exists(x)
      <3>1. /\ row[x].status = "success" /\ row'[x].model = row[x].model /\ row'[x].made = row[x].made
            /\ row'[x].with \in {row[x].with, None} /\ ~BetweenWrites(x)
        BY <2>1, <2>3 DEF Tame
      <3>. QED BY <2>3, <3>1 DEF RowInv, EstimateIsOfThePresentModel, Consistent
    <2>. QED BY <2>2, <2>3
  <1>. QED BY <1>1, <1>2, <1>3 DEF RowInv

(* Steps that touch no row, no worker and end no edit.                     *)
LEMMA Elsewhere ==
  ASSUME Shape, RowInv, UNCHANGED <<row, worker, starting, unsupported>>,
         \A x \in Parts : BetweenWrites(x) => BetweenWrites(x)'
  PROVE  RowInv'
  <1>1. Grows /\ \A x \in Parts : Tame(x)
    BY DEF Grows, Tame, Exists
  <1>. QED BY <1>1, TameSteps

LEMMA SeenKept == ASSUME SeenIsConsistent, UNCHANGED request PROVE SeenIsConsistent'
  BY DEF SeenIsConsistent, Consistent

LEMMA SeenUpdate ==
  ASSUME SeenIsConsistent, request \in [Requests -> Request], NEW r \in Requests, NEW q,
         request' = [request EXCEPT ![r] = q], q.at = "loaded" => Consistent(q.seen)
  PROVE  SeenIsConsistent'
  BY DEF SeenIsConsistent, Consistent

LEMMA InitEstimateInv == Init => EstimateInv
  <1>. SUFFICES ASSUME Init PROVE EstimateInv
    OBVIOUS
  <1>1. \A x \in Parts : Exists(x) => row[x].status = "pending"
    BY DEF Init, Exists
  <1>2. worker.at = "free" /\ \A r \in Requests : request[r].at = "idle"
    BY DEF Init, NoWork, Idle
  <1>. QED BY <1>1, <1>2, InitShape DEF EstimateInv, RowInv, SeenIsConsistent, SlicedModelIsPresent,
              EstimatingIsUnderWay, EstimateIsOfThePresentModel

LEMMA StepEstimateInv == StaleReads = FALSE /\ EstimateInv /\ [Next]_vars => EstimateInv'
  <1>. SUFFICES ASSUME StaleReads = FALSE, EstimateInv, [Next]_vars PROVE SeenIsConsistent' /\ RowInv'
    BY StepShape DEF EstimateInv
  <1>. USE DEF EstimateInv
  <1>0. Shape' /\ Grows /\ request \in [Requests -> Request]
    BY StepShape DEF Shape, RequestsShape
  <1>1. ASSUME NEW r \in Requests, NEW x \in Parts, Read(r, x) PROVE SeenIsConsistent' /\ RowInv'
    <2>. DEFINE q == [Idle EXCEPT !.at = "loaded", !.part = x, !.seen = row[x]]
    <2>1. Consistent(row[x]) /\ q.seen = row[x]
      BY <1>1 DEF Read, RowInv, EstimateIsOfThePresentModel, Consistent, Idle
    <2>2. SeenIsConsistent'
      <3>1. request' = [request EXCEPT ![r] = q]
        BY <1>1 DEF Read
      <3>. HIDE DEF q
      <3>. QED BY <1>0, <2>1, <3>1, SeenUpdate
    <2>3. \A y \in Parts : BetweenWrites(y) => BetweenWrites(y)'
      BY <1>0, <1>1 DEF Read, BetweenWrites, Idle
    <2>. QED BY <1>1, <2>2, <2>3, Elsewhere DEF Read
  <1>2. ASSUME NEW r \in Requests, NEW saved \in Row, NEW next \in {"idle", "edited", "moved"},
               request[r].at = "loaded", Timely(r), Save(r, saved, next),
               saved.status = request[r].seen.status, saved.made = request[r].seen.made,
               saved.with = request[r].seen.with,
               next # "edited" => saved.model = request[r].seen.model
        PROVE  SeenIsConsistent' /\ RowInv'
    <2>. DEFINE q == IF next = "idle" THEN Idle ELSE [request[r] EXCEPT !.at = next, !.seen = saved]
    <2>1. PICK x \in Parts : x = request[r].part /\ Exists(x) /\ request[r] \in Request /\ request[r].seen = row[x]
      BY <1>2 DEF Shape, RequestsShape, Timely
    <2>2. request' = [request EXCEPT ![r] = q]
      BY <1>0, <1>2 DEF Save
    <2>3. q.at = next /\ (next # "idle" => q.part = x)
      BY <2>1 DEF Idle, Request
    <2>4. SeenIsConsistent'
      BY <1>0, <2>2, <2>3, SeenUpdate
    <2>5. row' = [row EXCEPT ![x] = saved] /\ DOMAIN row = Parts
      BY <1>2, <2>1 DEF Save, Shape, RowsShape
    <2>6. \A y \in Parts : BetweenWrites(y) => BetweenWrites(y)'
      <3>. HIDE DEF q
      <3>. QED BY <1>0, <1>2, <2>2 DEF BetweenWrites
    <2>7. next = "edited" => BetweenWrites(x)'
      BY <1>0, <2>1, <2>2, <2>3 DEF BetweenWrites
    <2>8. \A y \in Parts : Tame(y)
      <3>. HIDE DEF q
      <3>1. row'[x] = saved /\ \A y \in Parts \ {x} : row'[y] = row[y]
        BY <2>1, <2>5
      <3>2. saved.status = row[x].status /\ saved.made = row[x].made /\ saved.with = row[x].with
            /\ (next # "edited" => saved.model = row[x].model)
        BY <1>2, <2>1
      <3>3. Tame(x)
        BY <2>1, <2>6, <2>7, <3>1, <3>2 DEF Tame
      <3>4. ASSUME NEW y \in Parts \ {x} PROVE Tame(y)
        <4>1. row'[y] = row[y] /\ (BetweenWrites(y) => BetweenWrites(y)')
          BY <2>6, <3>1
        <4>. QED BY <4>1 DEF Tame, Exists
      <3>. QED BY <3>3, <3>4
    <2>. QED BY <1>0, <1>2, <2>4, <2>8, TameSteps DEF Save
  <1>3. ASSUME NEW r \in Requests, SaveForm(r) PROVE SeenIsConsistent' /\ RowInv'
    <2>1. request[r].at = "loaded" /\ Timely(r) /\ request[r].seen \in Row
      BY <1>3 DEF SaveForm, Shape, RequestsShape
    <2>2. PICK j \in Projects, s \in presets \cup {None}, m \in Models \cup {None} :
             Save(r, [request[r].seen EXCEPT !.project = j, !.preset = s, !.model = m],
                  IF s # request[r].seen.preset \/ m # request[r].seen.model THEN "edited"
                  ELSE IF j # request[r].seen.project THEN "moved" ELSE "idle")
      BY <1>3 DEF SaveForm
    <2>. DEFINE saved == [request[r].seen EXCEPT !.project = j, !.preset = s, !.model = m]
    <2>3. saved \in Row
      BY <2>1, FormUpdate DEF Shape
    <2>4. /\ saved.status = request[r].seen.status /\ saved.made = request[r].seen.made
          /\ saved.with = request[r].seen.with /\ saved.model = m
      BY <2>1 DEF Row
    <2>. HIDE DEF saved
    <2>. QED BY <1>2, <2>1, <2>2, <2>3, <2>4 DEF saved
  <1>4. ASSUME NEW r \in Requests, SavePatch(r) PROVE SeenIsConsistent' /\ RowInv'
    <2>1. request[r].at = "loaded" /\ Timely(r) /\ request[r].seen \in Row
      BY <1>4 DEF SavePatch, Shape, RequestsShape
    <2>2. PICK j \in Projects, s \in presets \cup {None} :
             Save(r, [request[r].seen EXCEPT !.project = j, !.preset = s],
                  IF j # request[r].seen.project THEN "moved" ELSE "idle")
      BY <1>4 DEF SavePatch
    <2>. DEFINE saved == [request[r].seen EXCEPT !.project = j, !.preset = s]
    <2>3. saved \in Row
      BY <2>1, FormUpdate, NoneAssumption DEF Shape
    <2>4. /\ saved.status = request[r].seen.status /\ saved.made = request[r].seen.made
          /\ saved.with = request[r].seen.with /\ saved.model = request[r].seen.model
      BY <2>1 DEF Row
    <2>. QED BY <1>2, <2>1, <2>2, <2>3, <2>4
  <1>5. ASSUME NEW r \in Requests, GiveUp(r) PROVE SeenIsConsistent' /\ RowInv'
    <2>1. SeenIsConsistent'
      BY <1>0, <1>5, IdleRequest, SeenUpdate DEF GiveUp
    <2>2. \A y \in Parts : BetweenWrites(y) => BetweenWrites(y)'
      BY <1>0, <1>5 DEF GiveUp, BetweenWrites
    <2>. QED BY <1>5, <2>1, <2>2, Elsewhere DEF GiveUp
  <1>6. ASSUME NEW r \in Requests, Copy(r) PROVE SeenIsConsistent' /\ RowInv'
    <2>. DEFINE seen == request[r].seen
                reset == seen.status \in {"pending", "estimating"}
                st == IF reset THEN "none" ELSE seen.status
                w == IF reset THEN None ELSE seen.with
    <2>1. PICK y \in Parts, j \in Projects :
             LET new == [seen EXCEPT !.project = j, !.status = st, !.with = w]
             IN  /\ ~Exists(y) /\ row' = [row EXCEPT ![y] = new]
                 /\ request' = [request EXCEPT ![r] = [Idle EXCEPT !.at = "copied", !.part = y, !.seen = new]]
      BY <1>6, Zenon DEF Copy
    <2>. DEFINE new == [seen EXCEPT !.project = j, !.status = st, !.with = w]
                q == [Idle EXCEPT !.at = "copied", !.part = y, !.seen = new]
    <2>2. request[r].at = "loaded" /\ seen \in Row /\ Consistent(seen)
      BY <1>6 DEF Copy, Shape, RequestsShape, SeenIsConsistent
    <2>3. new.status = st /\ new.made = seen.made /\ new.model = seen.model /\ new.with = w
      BY <2>2 DEF Row
    <2>4. new.status # "estimating" /\ Consistent(new)
      BY <2>2, <2>3 DEF Consistent
    <2>5. q.at = "copied" /\ request' = [request EXCEPT ![r] = q]
      BY <2>1 DEF Idle
    <2>6. SeenIsConsistent'
      <3>. HIDE DEF q
      <3>. QED BY <1>0, <2>5, SeenUpdate
    <2>7. \A z \in Parts : BetweenWrites(z) => BetweenWrites(z)'
      <3>. HIDE DEF q
      <3>. QED BY <1>0, <2>2, <2>5 DEF BetweenWrites
    <2>8. row' = [row EXCEPT ![y] = new] /\ DOMAIN row = Parts /\ ~Exists(y)
      BY <2>1 DEF Shape, RowsShape
    <2>9. \A z \in Parts : Tame(z)
      <3>. HIDE DEF new
      <3>. QED BY <2>4, <2>7, <2>8 DEF Tame, Exists
    <2>. QED BY <1>0, <1>6, <2>6, <2>9, TameSteps DEF Copy
  <1>7. ASSUME NEW r \in Requests, NEW rows, row' = rows, DOMAIN row = Parts, request' = [request EXCEPT ![r] = Idle],
               UNCHANGED <<worker, starting, unsupported>>,
               request[r].at = "edited" => row'[request[r].part].status \in {"none", "pending"},
               \A x \in Parts : Exists(x)' => /\ Exists(x)
                                              /\ row'[x] = row[x] \/ row'[x].status \in {"none", "pending"}
        PROVE  SeenIsConsistent' /\ RowInv'
    <2>1. SeenIsConsistent'
      BY <1>0, <1>7, IdleRequest, SeenUpdate
    <2>2. \A y \in Parts : BetweenWrites(y) /\ ~BetweenWrites(y)'
                           => request[r].at = "edited" /\ y = request[r].part
      BY <1>0, <1>7 DEF BetweenWrites
    <2>3. \A y \in Parts : Tame(y)
      BY <1>7, <2>2 DEF Tame
    <2>. QED BY <1>0, <1>7, <2>1, <2>3, TameSteps
  <1>8. ASSUME NEW r \in Requests, Trigger(r) PROVE SeenIsConsistent' /\ RowInv'
    <2>. DEFINE x == request[r].part
    <2>1. x \in Parts /\ Exists(x) /\ row[x] \in Row /\ DOMAIN row = Parts
      BY <1>8 DEF Trigger, Shape, RequestsShape, RowsShape
    <2>2. /\ row' = [row EXCEPT ![x] = Cleared(row[x], IsEstimable(request[r].seen))]
          /\ Cleared(row[x], IsEstimable(request[r].seen)).status \in {"none", "pending"}
      BY <1>8, <2>1 DEF Trigger, Cleared, Row
    <2>3. \A y \in Parts : Exists(y)' => /\ Exists(y)
                                         /\ row'[y] = row[y] \/ row'[y].status \in {"none", "pending"}
      BY <2>1, <2>2 DEF Exists
    <2>. QED BY <1>7, <1>8, <2>1, <2>2, <2>3 DEF Trigger
  <1>9. ASSUME NEW p \in Row, NEW k \in Row
        PROVE  Requeued(p, k) = p \/ Requeued(p, k).status \in {"none", "pending"}
    BY DEF Requeued, Cleared, Row
  <1>10. ASSUME NEW r \in Requests, Requeue(r) PROVE SeenIsConsistent' /\ RowInv'
    <2>. DEFINE x == request[r].part
    <2>1. x \in Parts /\ Exists(x) /\ row[x] \in Row /\ request[r].seen \in Row /\ DOMAIN row = Parts
          /\ request[r].at # "edited"
      BY <1>10 DEF Requeue, Shape, RequestsShape, RowsShape
    <2>2. row' = [row EXCEPT ![x] = Requeued(row[x], request[r].seen)]
      BY <1>10 DEF Requeue
    <2>3. \A y \in Parts : Exists(y)' => /\ Exists(y)
                                         /\ row'[y] = row[y] \/ row'[y].status \in {"none", "pending"}
      BY <1>9, <2>1, <2>2 DEF Exists
    <2>. QED BY <1>7, <1>10, <2>1, <2>3 DEF Requeue
  <1>11. ASSUME NEW r \in Requests, RequeueSubtree(r) PROVE SeenIsConsistent' /\ RowInv'
    <2>1. DOMAIN row = Parts /\ \A y \in Parts : Exists(y) => row[y] \in Row
      BY DEF Shape, RowsShape
    <2>2. \A y \in Parts : Exists(y)' => /\ Exists(y)
                                         /\ row'[y] = row[y] \/ row'[y].status \in {"none", "pending"}
      BY <1>9, <1>11, <2>1 DEF RequeueSubtree, Exists
    <2>. QED BY <1>7, <1>11, <2>1, <2>2 DEF RequeueSubtree
  <1>12. ASSUME NEW r \in Requests, NEW js \in (SUBSET Projects) \ {{}}, NEW s \in presets, EditProject(r, js, s)
         PROVE  SeenIsConsistent' /\ RowInv'
    <2>1. SeenIsConsistent' /\ \A y \in Parts : BetweenWrites(y) => BetweenWrites(y)'
      BY <1>0, <1>12 DEF EditProject, SeenIsConsistent, Consistent, BetweenWrites, Idle
    <2>. QED BY <1>12, <2>1, Elsewhere DEF EditProject
  <1>13. ASSUME NEW x \in Parts, ReEstimate(x) PROVE SeenIsConsistent' /\ RowInv'
    <2>1. row[x] \in Row /\ Exists(x) /\ DOMAIN row = Parts
      BY <1>13 DEF ReEstimate, Shape, RowsShape
    <2>2. row' = [row EXCEPT ![x] = Cleared(row[x], TRUE)] /\ Cleared(row[x], TRUE).status = "pending"
      BY <1>13, <2>1 DEF ReEstimate, Cleared, Row
    <2>3. \A y \in Parts : Tame(y)
      BY <1>13, <2>1, <2>2 DEF Tame, Exists, ReEstimate, BetweenWrites
    <2>. QED BY <1>0, <1>13, <2>3, TameSteps, SeenKept DEF ReEstimate
  <1>14. ASSUME NEW s \in Presets, DeletePreset(s) PROVE SeenIsConsistent' /\ RowInv'
    <2>1. DOMAIN row = Parts /\ \A y \in Parts : Exists(y) => row[y] \in Row
      BY DEF Shape, RowsShape
    <2>2. \A y \in Parts : Tame(y)
      <3>. SUFFICES ASSUME NEW y \in Parts, Exists(y)' PROVE Tame(y)
        BY DEF Tame
      <3>. DEFINE new == [row[y] EXCEPT !.preset = IF @ = s THEN None ELSE @,
                                        !.with = IF @ = s THEN None ELSE @]
      <3>1. Exists(y) /\ row'[y] = new /\ row[y] \in Row
        BY <1>14, <2>1 DEF DeletePreset, Exists
      <3>2. /\ new.status = row[y].status /\ new.model = row[y].model /\ new.made = row[y].made
            /\ new.with \in {row[y].with, None}
        BY <3>1 DEF Row
      <3>3. BetweenWrites(y) => BetweenWrites(y)'
        BY <1>14 DEF DeletePreset, BetweenWrites
      <3>. HIDE DEF new
      <3>. QED BY <3>1, <3>2, <3>3 DEF Tame
    <2>. QED BY <1>0, <1>14, <2>2, TameSteps, SeenKept DEF DeletePreset
  <1>15. ASSUME UNCHANGED request PROVE SeenIsConsistent' /\ \A x \in Parts : BetweenWrites(x)' <=> BetweenWrites(x)
    BY <1>15, SeenKept DEF BetweenWrites
  <1>16. DOMAIN row = Parts /\ \A x \in Parts : Exists(x) => row[x] \in Row
    BY DEF Shape, RowsShape
  <1>17. CASE Claim
    <2>1. worker.at = "free" /\ worker.part = None
      BY <1>17 DEF Claim, Shape, WorkerShape
    <2>2. PICK x \in Parts :
             /\ row' = [row EXCEPT ![x] = [row[x] EXCEPT !.status = "estimating"]] /\ row[x] \in Row
             /\ worker' = [NoWork EXCEPT !.at = "claimed", !.part = x]
             /\ unsupported' = unsupported \ {x}
      BY <1>16, <1>17 DEF Claim, Pending
    <2>3. worker'.at = "claimed" /\ worker'.part = x
      BY <2>2 DEF NoWork
    <2>4. row'[x].status = "estimating" /\ \A y \in Parts \ {x} : row'[y] = row[y]
      BY <1>16, <2>2 DEF Row
    <2>5. SlicedModelIsPresent'
      BY <2>3 DEF SlicedModelIsPresent
    <2>6. EstimatingIsUnderWay'
      BY <1>17, <2>1, <2>2, <2>3, <2>4, ConstantsAssumption DEF Claim, RowInv, EstimatingIsUnderWay, Exists
    <2>7. EstimateIsOfThePresentModel'
      BY <1>15, <1>17, <2>4 DEF Claim, RowInv, EstimateIsOfThePresentModel, Exists
    <2>. QED BY <1>15, <1>17, <2>5, <2>6, <2>7 DEF Claim, RowInv
  <1>18. CASE LoadPart
    <2>1. worker.part \in Parts /\ Exists(worker.part) /\ worker.at = "claimed" /\ row' = row /\ starting' = starting
          /\ worker \in [at: {"free", "claimed", "slicing", "aborting"}, part: Parts \cup {None},
                         model: Models \cup {None}, preset: Presets \cup {None}]
      BY <1>18 DEF LoadPart, Shape, WorkerShape
    <2>2. /\ worker'.at = "slicing" => worker'.part = worker.part /\ worker'.model = row[worker.part].model
          /\ worker'.part = worker.part \/ worker.part \in unsupported'
          /\ unsupported \subseteq unsupported'
      <3>1. CASE worker' = [worker EXCEPT !.at = "aborting"] /\ UNCHANGED unsupported
        BY <2>1, <3>1
      <3>2. CASE worker' = NoWork /\ unsupported' = unsupported \cup {worker.part}
        BY <3>2 DEF NoWork
      <3>3. CASE /\ worker' = [worker EXCEPT !.at = "slicing", !.model = row[worker.part].model,
                                             !.preset = Effective(row[worker.part])]
                 /\ UNCHANGED unsupported
        BY <2>1, <3>3
      <3>. QED BY <1>18, <3>1, <3>2, <3>3 DEF LoadPart
    <2>5. SlicedModelIsPresent'
      BY <2>1, <2>2 DEF SlicedModelIsPresent
    <2>3. EstimatingIsUnderWay'
      BY <2>1, <2>2 DEF RowInv, EstimatingIsUnderWay, Exists
    <2>4. EstimateIsOfThePresentModel'
      BY <1>15, <1>18, <2>1 DEF LoadPart, RowInv, EstimateIsOfThePresentModel, Exists
    <2>. QED BY <1>15, <1>18, <2>3, <2>4, <2>5 DEF LoadPart, RowInv
  <1>19. ASSUME worker.at \in {"slicing", "aborting"}, worker' = NoWork, UNCHANGED <<request, starting, unsupported>>,
                NEW p \in Row, p.status # "estimating", BetweenWrites(worker.part) \/ Consistent(p),
                \/ row' = [row EXCEPT ![worker.part] = p]
                \/ row' = row /\ row[worker.part].status # "estimating"
         PROVE  SeenIsConsistent' /\ RowInv'
    <2>1. worker.part \in Parts /\ Exists(worker.part) /\ worker'.at = "free"
      BY <1>19 DEF Shape, WorkerShape, NoWork
    <2>2. SlicedModelIsPresent'
      BY <2>1 DEF SlicedModelIsPresent
    <2>3. EstimatingIsUnderWay'
      BY <1>16, <1>19, <2>1 DEF RowInv, EstimatingIsUnderWay, Exists
    <2>4. EstimateIsOfThePresentModel'
      BY <1>15, <1>16, <1>19, <2>1 DEF RowInv, EstimateIsOfThePresentModel, Exists, Consistent
    <2>. QED BY <1>15, <1>19, <2>2, <2>3, <2>4 DEF RowInv
  <1>20. CASE FinishEstimate
    <2>. DEFINE x == worker.part
                p == [row[x] EXCEPT !.status = "success", !.made = <<worker.model, worker.preset>>,
                                    !.with = worker.preset]
    <2>1. x \in Parts /\ row[x] \in Row /\ worker.at = "slicing" /\ worker.model \in Models /\ worker.preset \in Presets
      BY <1>16, <1>20 DEF FinishEstimate, Shape, WorkerShape
    <2>2. CASE StillEstimating(x)
      <3>1. /\ p \in Row /\ p.status # "estimating"
            /\ p.made = <<worker.model, worker.preset>> /\ p.with = worker.preset /\ p.model = row[x].model
        BY <2>1, FinishUpdate DEF Row
      <3>2. <<worker.model, worker.preset>> # None
        BY <2>1, NoneAssumption
      <3>3. BetweenWrites(x) \/ Consistent(p)
        <4>. HIDE DEF p
        <4>. QED BY <2>1, <2>2, <3>1, <3>2 DEF RowInv, SlicedModelIsPresent, StillEstimating, Consistent
      <3>4. row' = [row EXCEPT ![x] = p]
        BY <1>20, <2>2 DEF FinishEstimate
      <3>. HIDE DEF p
      <3>. QED BY <1>19, <1>20, <2>1, <3>1, <3>3, <3>4 DEF FinishEstimate
    <2>3. CASE ~StillEstimating(x)
      <3>. DEFINE e == [row[x] EXCEPT !.status = "error"]
      <3>1. e \in Row /\ e.status = "error"
        BY <2>1, StatusUpdate DEF Statuses, Row
      <3>. HIDE DEF e
      <3>. QED BY <1>19, <1>20, <2>1, <2>3, <3>1 DEF FinishEstimate, StillEstimating, Consistent
    <2>. QED BY <2>2, <2>3
  <1>21. CASE FailEstimate
    <2>. DEFINE x == worker.part
                e == [row[x] EXCEPT !.status = "error"]
    <2>1. x \in Parts /\ row[x] \in Row /\ worker.at = "slicing"
      BY <1>16, <1>21 DEF FailEstimate, Shape, WorkerShape
    <2>2. e \in Row /\ e.status = "error"
      BY <2>1, StatusUpdate DEF Statuses, Row
    <2>3. row' = [row EXCEPT ![x] = e] \/ (row' = row /\ row[x].status # "estimating")
      BY <1>21 DEF FailEstimate, StillEstimating
    <2>. HIDE DEF e
    <2>. QED BY <1>19, <1>21, <2>1, <2>2, <2>3 DEF FailEstimate, Consistent
  <1>22. CASE AbortEstimate
    <2>. DEFINE x == worker.part
                e == [row[x] EXCEPT !.status = "none", !.with = None]
    <2>1. x \in Parts /\ row[x] \in Row /\ worker.at = "aborting"
      BY <1>16, <1>22 DEF AbortEstimate, Shape, WorkerShape
    <2>2. e \in Row /\ e.status = "none"
      BY <2>1, AbortUpdate DEF Row
    <2>3. row' = [row EXCEPT ![x] = e]
      BY <1>22 DEF AbortEstimate
    <2>. HIDE DEF e
    <2>. QED BY <1>19, <1>22, <2>1, <2>2, <2>3 DEF AbortEstimate, Consistent
  <1>23. CASE StartProcess
    <2>1. SlicedModelIsPresent'
      BY <1>15, <1>23, <1>0 DEF StartProcess, RowInv, SlicedModelIsPresent, NoWork, BetweenWrites
    <2>2. EstimatingIsUnderWay' /\ EstimateIsOfThePresentModel'
      BY <1>15, <1>23 DEF StartProcess, RowInv, EstimatingIsUnderWay, EstimateIsOfThePresentModel, Exists
    <2>. QED BY <1>15, <1>23, <2>1, <2>2 DEF StartProcess, RowInv
  <1>24. CASE RequeueStuck
    <2>1. \A x \in Parts : Exists(x)' =>
             Exists(x) /\ (row'[x].status = "pending" \/ (row'[x] = row[x] /\ row[x].status # "estimating"))
      <3>. SUFFICES ASSUME NEW x \in Parts, Exists(x)'
                    PROVE  Exists(x) /\ (row'[x].status = "pending"
                                         \/ (row'[x] = row[x] /\ row[x].status # "estimating"))
        OBVIOUS
      <3>1. /\ row[x] # None
            /\ row'[x] = IF row[x].status = "estimating" THEN [row[x] EXCEPT !.status = "pending"] ELSE row[x]
        BY <1>24 DEF RequeueStuck, Exists
      <3>. QED BY <1>16, <3>1 DEF Exists, Row
    <2>2. SlicedModelIsPresent'
      <3>1. worker'.at = "slicing" => worker'.part \in Parts /\ Exists(worker.part)'
        BY <1>0 DEF Shape, WorkerShape
      <3>. QED BY <2>1, <3>1 DEF SlicedModelIsPresent
    <2>3. EstimatingIsUnderWay'
      BY <2>1 DEF EstimatingIsUnderWay
    <2>4. EstimateIsOfThePresentModel'
      BY <1>15, <1>24, <2>1 DEF RequeueStuck, RowInv, EstimateIsOfThePresentModel
    <2>. QED BY <1>15, <1>24, <2>2, <2>3, <2>4 DEF RequeueStuck, RowInv
  <1>26. ASSUME NEW r \in Requests, NEW js \in (SUBSET Projects) \ {{}}, ListParts(r, js)
         PROVE  SeenIsConsistent' /\ RowInv'
    <2>1. SeenIsConsistent' /\ \A y \in Parts : BetweenWrites(y) => BetweenWrites(y)'
      BY <1>0, <1>26 DEF ListParts, SeenIsConsistent, Consistent, BetweenWrites, Idle
    <2>. QED BY <1>26, <2>1, Elsewhere DEF ListParts
  <1>27. ASSUME NEW r \in Requests, NEW x \in Parts, QueueListed(r, x) PROVE SeenIsConsistent' /\ RowInv'
    <2>1. row[x] \in Row /\ Exists(x)
      BY <1>16, <1>27 DEF QueueListed, Shape, RequestsShape
    <2>2. row' = [row EXCEPT ![x] = Cleared(row[x], TRUE)] /\ Cleared(row[x], TRUE).status = "pending"
      BY <1>27, <2>1 DEF QueueListed, Cleared, Row
    <2>3. SeenIsConsistent' /\ \A y \in Parts : BetweenWrites(y) => BetweenWrites(y)'
      BY <1>0, <1>27 DEF QueueListed, SeenIsConsistent, Consistent, BetweenWrites, Idle
    <2>4. \A y \in Parts : Tame(y)
      BY <1>16, <2>1, <2>2, <2>3 DEF Tame, Exists
    <2>. QED BY <1>0, <1>27, <2>3, <2>4, TameSteps DEF QueueListed
  <1>28. CASE ChangeMachines
    BY <1>15, <1>28, Elsewhere DEF ChangeMachines
  <1>25. CASE UNCHANGED vars
    BY <1>25, SeenKept, Elsewhere DEF vars, BetweenWrites
  <1>. QED BY <1>1, <1>3, <1>4, <1>5, <1>6, <1>8, <1>10, <1>11, <1>12, <1>13, <1>14, <1>17, <1>18,
              <1>20, <1>21, <1>22, <1>23, <1>24, <1>25, <1>26, <1>27, <1>28 DEF Next, RequestNext, WorkerNext, Estimating

(* A part shown as estimating is in the hands of the worker, of a starting *)
(* process or left alone, whatever the number of parts and requests, if   *)
(* no request saves a row that others have changed since it was read:      *)
(* claim_estimate, requeue_stuck_estimates and the worker's exits of       *)
(* models/parts.py and services/slicing_worker.py leave no other case.     *)
THEOREM EstimatingIsUnderWayAlways ==
  ASSUME StaleReads = FALSE PROVE Spec => []EstimatingIsUnderWay
  <1>1. EstimateInv => EstimatingIsUnderWay
    BY DEF EstimateInv, RowInv
  <1>. QED BY <1>1, InitEstimateInv, StepEstimateInv, PTL DEF Spec

(* Under the same assumption a stored estimate was computed from the model *)
(* the part has now: the condition of Part.finish_estimate is enough.      *)
THEOREM EstimateIsOfThePresentModelAlways ==
  ASSUME StaleReads = FALSE PROVE Spec => []EstimateIsOfThePresentModel
  <1>1. EstimateInv => EstimateIsOfThePresentModel
    BY DEF EstimateInv, RowInv
  <1>. QED BY <1>1, InitEstimateInv, StepEstimateInv, PTL DEF Spec
=============================================================================
