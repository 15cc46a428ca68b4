--------------------------- MODULE CodeIndexProofs ---------------------------
(***************************************************************************)
(* Why what ensure_fresh returns fits the revision it returns it for.  The *)
(* argument is about every step of CodeIndex; TurnFilesProofs carries it   *)
(* over to the turns that run ensure_fresh.                                *)
(***************************************************************************)
EXTENDS CodeIndex, TLAPS

\* Every way the state of the index, or of the tree, moves.
CodeStep ==
  \/ /\ fresh.pc = "off" /\ fresh' = BeginFresh
     /\ UNCHANGED <<treeVars, meta, graph, cut>>
  \/ FreshStep
  \/ /\ fresh.pc \in {"returned", "raised"} /\ fresh' = FreshOff
     /\ UNCHANGED <<treeVars, meta, graph, cut>>
  \/ FreshKilled /\ UNCHANGED treeVars
  \/ (EditTree \/ CommitTree \/ \E r \in 1..Len(commits) : Checkout(r)) /\ UNCHANGED indexVars
  \/ UNCHANGED codeVars

Built == {"graph", "graph_open", "meta", "meta_open"}

\* Metadata comes after a graph, and names a commit there is.
MetaNames ==
  /\ meta \in Nat => meta \in 1..Len(commits)
  /\ meta \in Nat \/ fresh.pc \in {"meta", "meta_open"} => graph # Absent
  /\ fresh.revision \in Nat => fresh.revision \in 1..Len(commits)

\* As long as nobody went back, the latest commit is checked out.
HeadIsLast == ~ back => head = Len(commits)

\* An index under way was begun because the metadata named another revision;
\* an earlier one, as long as nobody went back.
IndexesLater ==
  ~ back /\ fresh.pc \in {"build", "graph", "graph_open", "meta"} /\ meta \in Nat => meta < head

\* What was built fits, and what is between the two saves is what was built.
BuiltFits ==
  /\ fresh.pc \in Built /\ fresh.revision # Nothing /\ fresh.graph.fits
     => fresh.graph.content = commits[fresh.revision]
  /\ fresh.pc \in Built /\ fresh.revision = Nothing => ~ fresh.graph.fits
  /\ fresh.pc \in {"meta", "meta_open"} => graph = fresh.graph

\* The two files fit each other, unless a save is or was cut in two.  One that
\* was left the metadata with an earlier revision than the one checked out.
StoredFits ==
  meta \in Nat /\ graph \notin {Absent, Torn} /\ graph.fits
  => \/ graph.content = commits[meta]
     \/ fresh.pc = "meta"
     \/ cut /\ (back \/ meta < head)

CodeInv ==
  CodeTypeOK /\ MetaNames /\ HeadIsLast /\ IndexesLater /\ BuiltFits /\ StoredFits /\ IndexFits

USE IndexAssumption

\* The order of the saves, as the cases below need it.
LEMMA Saves ==
  /\ AfterSave["build"] = "graph"
  /\ AfterSave["graph"] = "meta"
  /\ AfterSave["meta"] = "returned"
  BY DEF AfterSave

\* What ensure_fresh starts from and leaves, is of its type.
LEMMA NotBuilding ==
  /\ FreshOff \in Fresh /\ BeginFresh \in Fresh /\ NoGraph \in Graph
  /\ FreshOff.pc = "off" /\ BeginFresh.pc = "look"
  /\ FreshOff.revision = Nothing /\ BeginFresh.revision = Nothing
<1>1. NoGraph \in Graph
  BY DEF NoGraph, Graph
<1>2. FreshOff \in Fresh /\ FreshOff.pc = "off" /\ FreshOff.revision = Nothing
  BY <1>1 DEF FreshOff, Fresh
<1>3. BeginFresh \in Fresh /\ BeginFresh.pc = "look" /\ BeginFresh.revision = Nothing
  BY <1>1 DEF BeginFresh, FreshOff, Fresh
<1> QED
  BY <1>1, <1>2, <1>3

\* A project with no index, or with one of its only commit.
LEMMA CodeInitInv == CodeInit => CodeInv
<1> SUFFICES ASSUME CodeInit PROVE CodeInv
  OBVIOUS
<1> USE DEF CodeInit
<1>0. /\ commits \in Seq(Nat) /\ head = Len(commits)
      /\ graph \in Graph \cup {Absent}
      /\ \/ meta = 1 /\ Len(commits) = 1 /\ commits[1] = 0 /\ graph # Absent /\ graph.content = 0
         \/ meta = Absent
  <2>1. [content |-> 0, fits |-> TRUE] \in Graph
    BY DEF Graph
  <2>2. CASE commits = <<0>> /\ head = 1 /\ meta = 1 /\ graph = [content |-> 0, fits |-> TRUE]
    <3>1. <<0>> \in Seq(Nat) /\ Len(<<0>>) = 1 /\ <<0>>[1] = 0
      OBVIOUS
    <3>2. graph # Absent
      BY <2>1, <2>2
    <3> QED
      BY <2>1, <2>2, <3>1, <3>2
  <2>3. CASE commits = <<>> /\ head = 0 /\ meta = Absent /\ graph = Absent
    BY <2>3
  <2> QED
    BY <2>2, <2>3
<1>1. CodeTypeOK
  <2>1. back \in BOOLEAN /\ cut \in BOOLEAN
    BY Zenon
  <2> QED
    BY <1>0, <2>1, NotBuilding DEF CodeTypeOK
<1>2. MetaNames /\ HeadIsLast /\ IndexesLater
  BY <1>0, NotBuilding DEF MetaNames, HeadIsLast, IndexesLater
<1>3. BuiltFits /\ StoredFits /\ IndexFits
  BY <1>0, NotBuilding DEF BuiltFits, StoredFits, IndexFits, Built
<1> QED
  BY <1>1, <1>2, <1>3 DEF CodeInv

\* ensure_fresh begins, and is left.
LEMMA FreshBoundsKeep ==
  ASSUME CodeInv, fresh' \in {BeginFresh, FreshOff}, fresh.pc # "meta",
         UNCHANGED <<treeVars, meta, graph, cut>>
  PROVE  CodeInv'
<1> USE DEF CodeInv, treeVars
<1>1. /\ fresh'.pc \in {"off", "look"} /\ fresh'.revision = Nothing
      /\ fresh' \in Fresh
  BY NotBuilding
<1>2. CodeTypeOK'
  BY <1>1 DEF CodeTypeOK
<1>3. MetaNames' /\ HeadIsLast' /\ IndexesLater'
  BY <1>1 DEF MetaNames, HeadIsLast, IndexesLater
<1>4. BuiltFits' /\ StoredFits' /\ IndexFits'
  BY <1>1 DEF BuiltFits, StoredFits, IndexFits, Built
<1> QED
  BY <1>2, <1>3, <1>4

\* A kill leaves the files as they are, the one being written torn.
LEMMA FreshKilledKeeps ==
  ASSUME CodeInv, FreshKilled, UNCHANGED treeVars
  PROVE  CodeInv'
<1> USE NotBuilding DEF CodeInv, treeVars, FreshKilled
<1>1. CodeTypeOK'
  BY DEF CodeTypeOK
<1>2. MetaNames' /\ HeadIsLast' /\ IndexesLater'
  BY DEF MetaNames, HeadIsLast, IndexesLater
<1>3. BuiltFits' /\ IndexFits'
  BY DEF BuiltFits, IndexFits, Built
<1>4. StoredFits'
  BY DEF StoredFits, IndexesLater, Saving, CodeTypeOK
<1> QED
  BY <1>1, <1>2, <1>3, <1>4

\* The stored index is given only under its own revision, clean.
LEMMA LookUpKeeps ==
  ASSUME CodeInv, LookUp
  PROVE  CodeInv'
<1> DEFINE cached == Revision # Nothing /\ meta = Revision
           found  == cached /\ graph \notin {Absent, Torn}
<1> USE DEF CodeInv, treeVars
<1>1. /\ fresh.pc = "look" /\ UNCHANGED <<treeVars, meta, graph, cut>>
      /\ fresh'.revision = Revision
      /\ fresh'.pc \in {"raised", "returned", "build"}
      /\ fresh'.pc = "returned" => found /\ fresh'.graph = graph
      /\ fresh'.pc = "build" => ~ cached \/ graph = Absent
      /\ fresh'.graph \in Graph
  BY NotBuilding DEF LookUp, CodeTypeOK, Fresh
<1>2. Revision \in Nat \cup {Nothing} /\ (Revision # Nothing => Revision = head /\ head \in 1..Len(commits))
  BY DEF Revision, CodeTypeOK
<1>3. CodeTypeOK'
  <2>1. fresh' \in Fresh
    BY <1>1, <1>2 DEF LookUp, CodeTypeOK, Fresh
  <2> QED
    BY <1>1, <2>1 DEF CodeTypeOK
<1>4. MetaNames' /\ HeadIsLast'
  BY <1>1, <1>2 DEF MetaNames, HeadIsLast
<1>5. IndexesLater'
  <2> SUFFICES ASSUME ~ back, fresh'.pc = "build", meta \in Nat PROVE meta < head
    BY <1>1 DEF IndexesLater
  <2>1. meta \in 1..Len(commits) /\ graph # Absent /\ head = Len(commits) /\ Len(commits) \in Nat
    BY DEF MetaNames, HeadIsLast, CodeTypeOK
  <2>2. Revision = head /\ meta # head
    BY <1>1, <2>1 DEF Revision
  <2> QED
    BY <2>1, <2>2
<1>6. BuiltFits' /\ StoredFits'
  BY <1>1 DEF BuiltFits, StoredFits, Built
<1>7. IndexFits'
  <2> SUFFICES ASSUME fresh'.pc = "returned", Revision # Nothing, graph.fits, ~ (cut /\ back)
               PROVE  graph.content = commits[Revision]
    BY <1>1 DEF IndexFits
  <2>1. found /\ meta \in Nat /\ meta = head
    BY <1>1, <1>2
  <2>2. graph.content = commits[meta]
    BY <1>1, <2>1 DEF StoredFits, CodeTypeOK
  <2> QED
    BY <2>1, <2>2
<1> QED
  BY <1>3, <1>4, <1>5, <1>6, <1>7

\* A build reads the tree as it is then.
LEMMA BuildKeeps ==
  ASSUME CodeInv, Build \/ BuildFails
  PROVE  CodeInv'
<1> USE DEF CodeInv, treeVars
<1> DEFINE fits == Revision = fresh.revision /\ Clean
<1>6. fits \in BOOLEAN /\ work \in Nat
  BY DEF CodeTypeOK
<1>7. fits => fresh.revision = head /\ fresh.revision # Nothing /\ work = commits[head]
  BY DEF Revision, Clean, CodeTypeOK
<1> HIDE DEF fits
<1>1. /\ fresh.pc = "build" /\ UNCHANGED <<treeVars, meta, graph, cut>>
      /\ fresh'.revision = fresh.revision
      /\ \/ fresh'.pc = "raised"
         \/ /\ fresh'.pc = "graph"
            /\ fresh'.graph = [content |-> work, fits |-> fits]
      /\ fresh' \in Fresh
  <2>1. CASE Build
    <3> DEFINE g == [content |-> work, fits |-> fits]
    <3>1. g \in Graph
      BY <1>6 DEF Graph
    <3>2. fresh' = [fresh EXCEPT !.pc = "graph", !.graph = g]
      BY <2>1, Saves DEF Build, fits
    <3> HIDE DEF g
    <3>3. /\ fresh'.pc = "graph" /\ fresh'.graph = g /\ fresh'.revision = fresh.revision
          /\ fresh' \in Fresh
      BY <3>1, <3>2 DEF CodeTypeOK, Fresh, Saving
    <3> QED
      BY <2>1, <3>3 DEF Build, g
  <2>2. CASE BuildFails
    BY <2>2 DEF BuildFails, CodeTypeOK, Fresh
  <2> QED
    BY <2>1, <2>2
<1>2. CodeTypeOK'
  BY <1>1 DEF CodeTypeOK
<1>3. MetaNames' /\ HeadIsLast' /\ IndexesLater'
  BY <1>1 DEF MetaNames, HeadIsLast, IndexesLater
<1>4. StoredFits' /\ IndexFits'
  BY <1>1 DEF StoredFits, IndexFits
<1>5. BuiltFits'
  <2>1. fresh'.pc = "graph" /\ fresh'.graph.fits
        => fresh.revision = head /\ fresh.revision # Nothing /\ fresh'.graph.content = commits[head]
    BY <1>1, <1>7
  <2> QED
    BY <1>1, <2>1 DEF BuiltFits, Built
<1> QED
  BY <1>2, <1>3, <1>4, <1>5

\* The graph is written first: until it is complete the metadata is the old one.
LEMMA SaveGraphKeeps ==
  ASSUME CodeInv, SaveGraph
  PROVE  CodeInv'
<1> USE DEF CodeInv, treeVars
<1>1. /\ UNCHANGED <<treeVars, meta, cut>>
      /\ fresh'.revision = fresh.revision /\ fresh'.graph = fresh.graph
      /\ \/ fresh.pc = "graph" /\ fresh'.pc = "graph_open" /\ graph' = Torn
         \/ fresh.pc = "graph_open" /\ fresh'.pc = "meta" /\ graph' = fresh.graph
      /\ fresh' \in Fresh
  BY Saves DEF SaveGraph, CodeTypeOK, Fresh, Saving
<1>2. fresh.graph \in Graph /\ fresh.graph # Absent
  <2>1. fresh.graph \in Graph
    BY DEF CodeTypeOK, Fresh
  <2> QED
    BY <2>1
<1>3. CodeTypeOK'
  BY <1>1, <1>2 DEF CodeTypeOK
<1>4. MetaNames' /\ HeadIsLast' /\ IndexesLater'
  BY <1>1, <1>2 DEF MetaNames, HeadIsLast, IndexesLater
<1>5. BuiltFits' /\ StoredFits' /\ IndexFits'
  BY <1>1 DEF BuiltFits, StoredFits, IndexFits, Built
<1> QED
  BY <1>3, <1>4, <1>5

\* The metadata names the revision of the graph written before it.
LEMMA SaveMetadataKeeps ==
  ASSUME CodeInv, SaveMetadata
  PROVE  CodeInv'
<1> USE DEF CodeInv, treeVars
<1>1. /\ UNCHANGED <<treeVars, graph, cut>>
      /\ fresh'.revision = fresh.revision /\ fresh'.graph = fresh.graph
      /\ \/ fresh.pc = "meta" /\ fresh'.pc = "meta_open" /\ meta' = Torn
         \/ fresh.pc = "meta_open" /\ fresh'.pc = "returned" /\ meta' = fresh.revision
      /\ fresh' \in Fresh
  BY Saves DEF SaveMetadata, CodeTypeOK, Fresh, Saving
<1>2. fresh.revision \in Nat \cup {Nothing} /\ Torn \notin Nat /\ Nothing \notin Nat
  BY DEF CodeTypeOK, Fresh
<1>3. CodeTypeOK'
  BY <1>1, <1>2 DEF CodeTypeOK
<1>4. MetaNames' /\ HeadIsLast' /\ IndexesLater'
  BY <1>1, <1>2 DEF MetaNames, HeadIsLast, IndexesLater
<1>5. BuiltFits' /\ StoredFits' /\ IndexFits'
  BY <1>1, <1>2 DEF BuiltFits, StoredFits, IndexFits, Built
<1> QED
  BY <1>3, <1>4, <1>5

\* Commits are only ever added, so what fits one of them goes on fitting it.
LEMMA TreeKeeps ==
  ASSUME CodeInv, UNCHANGED indexVars,
         EditTree \/ CommitTree \/ \E r \in 1..Len(commits) : Checkout(r)
  PROVE  CodeInv'
<1> USE DEF CodeInv, indexVars
<1>1. /\ commits \in Seq(Nat) /\ Len(commits) \in Nat /\ head \in 0..Len(commits)
      /\ work \in Nat /\ stamps \in Nat /\ back \in BOOLEAN
  BY DEF CodeTypeOK
<1>2. /\ commits' \in Seq(Nat) /\ Len(commits') \in Nat
      /\ Len(commits') >= Len(commits)
      /\ \A r \in 1..Len(commits) : commits'[r] = commits[r]
  <2>1. CASE commits' = commits
    BY <1>1, <2>1
  <2>2. CASE commits' = Append(commits, work)
    BY <1>1, <2>2
  <2> QED
    BY <2>1, <2>2 DEF EditTree, CommitTree, Checkout
<1>3. /\ head' \in 0..Len(commits') /\ back' \in BOOLEAN /\ (back => back')
      /\ (~ back' => head' = Len(commits') /\ head' >= head)
      /\ work' \in Nat /\ stamps' \in Nat
  <2>1. CASE EditTree
    BY <1>1, <2>1 DEF EditTree, HeadIsLast
  <2>2. CASE CommitTree
    BY <1>1, <2>2 DEF CommitTree
  <2>3. ASSUME NEW r \in 1..Len(commits), Checkout(r)
        PROVE  /\ head' \in 0..Len(commits') /\ back' \in BOOLEAN /\ (back => back')
               /\ (~ back' => head' = Len(commits') /\ head' >= head)
               /\ work' \in Nat /\ stamps' \in Nat
    <3>1. back' = (back \/ r < head) /\ head' = r /\ work' = commits[r] /\ UNCHANGED <<stamps, commits>>
      BY <2>3 DEF Checkout
    <3>2. back' \in BOOLEAN /\ (back => back') /\ (r < head => back')
      BY <3>1, Zenon
    <3> QED
      BY <1>1, <3>1, <3>2 DEF HeadIsLast
  <2> QED
    BY <2>1, <2>2, <2>3
<1>4. CodeTypeOK'
  BY <1>2, <1>3 DEF CodeTypeOK
<1>5. MetaNames' /\ HeadIsLast'
  <2>1. \A r \in 1..Len(commits) : r \in 1..Len(commits')
    BY <1>1, <1>2
  <2>2. meta' = meta /\ fresh' = fresh /\ graph' = graph
    OBVIOUS
  <2>3. MetaNames'
    BY <2>1, <2>2 DEF MetaNames
  <2> QED
    BY <1>3, <2>3 DEF HeadIsLast
<1>6. IndexesLater'
  BY <1>1, <1>3 DEF IndexesLater
<1>7. BuiltFits' /\ IndexFits'
  BY <1>1, <1>2, <1>3 DEF BuiltFits, IndexFits, MetaNames, CodeTypeOK, Fresh
<1>8. StoredFits'
  BY <1>1, <1>2, <1>3 DEF StoredFits, MetaNames
<1> QED
  BY <1>4, <1>5, <1>6, <1>7, <1>8

\* Every step of ensure_fresh and of the tree it indexes keeps the invariant of
\* CodeIndexService, of which IndexFits is a part.
THEOREM CodeStepKeeps == CodeInv /\ CodeStep => CodeInv'
<1> SUFFICES ASSUME CodeInv, CodeStep PROVE CodeInv'
  OBVIOUS
<1>1. CASE UNCHANGED codeVars
  BY <1>1 DEF codeVars, treeVars, indexVars, CodeInv, CodeTypeOK, MetaNames, HeadIsLast,
              IndexesLater, BuiltFits, StoredFits, IndexFits
<1> QED
  BY <1>1, FreshBoundsKeep, LookUpKeeps, BuildKeeps, SaveGraphKeeps, SaveMetadataKeeps,
     FreshKilledKeeps, TreeKeeps DEF CodeStep, FreshStep
=============================================================================
