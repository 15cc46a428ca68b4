----------------------------- MODULE CodeIndex ------------------------------
(***************************************************************************)
(* The codebase index: ensure_fresh (adapters/indexing/freshness.py) and   *)
(* its two files, indexes/metadata.json and indexes/graph.json, beside a   *)
(* source tree that people and agents edit, commit and check out while it  *)
(* runs.  The files are written in place: opening one empties it, and a    *)
(* process killed before the text is out leaves it torn.                   *)
(*                                                                         *)
(* A content of the tree is the number of the edit that made it.  A commit *)
(* is its place in commits.  A graph remembers which content it was made   *)
(* from, and whether that was then what the revision it is saved with      *)
(* stands for.                                                             *)
(***************************************************************************)
EXTENDS Naturals, Sequences

CONSTANTS
  Nothing,   \* None
  Absent,    \* a file that is not there
  Torn,      \* a file cut short
  MaxStamps  \* bound: edits of the source tree

Graph == [content : Nat, fits : BOOLEAN]

ASSUME IndexAssumption ==
  /\ {Nothing, Absent, Torn} \cap (Nat \cup Graph) = {}
  /\ Nothing # Absent /\ Nothing # Torn /\ Absent # Torn
  /\ MaxStamps \in Nat

VARIABLES
  work,     \* the content of the working tree
  stamps,   \* edits so far
  commits,  \* the content of each commit
  head,     \* the commit checked out, 0 when there is none
  meta,     \* metadata.json: the source_revision in it
  graph,    \* graph.json
  fresh,    \* the running ensure_fresh
  back,     \* history: an older commit was checked out
  cut       \* history: an ensure_fresh was killed while it saved

treeVars  == <<work, stamps, commits, head, back>>
indexVars == <<meta, graph, fresh, cut>>
codeVars  == <<treeVars, indexVars>>

NoGraph == [content |-> 0, fits |-> FALSE]

FreshOff == [pc |-> "off", revision |-> Nothing, graph |-> NoGraph]

\* A tree with one commit and an index of it, or one that is not under git
\* (yet) and has no index.
CodeInit ==
  /\ work = 0
  /\ stamps = 0
  /\ \/ /\ commits = <<0>> /\ head = 1
        /\ meta = 1 /\ graph = [content |-> 0, fits |-> TRUE]
     \/ /\ commits = <<>> /\ head = 0
        /\ meta = Absent /\ graph = Absent
  /\ fresh = FreshOff
  /\ back = FALSE
  /\ cut = FALSE

-----------------------------------------------------------------------------
(* The source tree *)

\* current_git_revision
Revision == IF head = 0 THEN Nothing ELSE head

Clean == head \in DOMAIN commits /\ commits[head] = work

EditTree ==
  /\ stamps < MaxStamps
  /\ stamps' = stamps + 1
  /\ work' = stamps + 1
  /\ UNCHANGED <<commits, head, back>>

\* git add -A and git commit, by a person or by commit_all.
CommitTree ==
  /\ ~ Clean
  /\ commits' = Append(commits, work)
  /\ head' = Len(commits) + 1
  /\ UNCHANGED <<work, stamps, back>>

\* git checkout: another commit, or this one without the edits.
Checkout(r) ==
  /\ ~ (r = head /\ Clean)
  /\ head' = r
  /\ work' = commits[r]
  /\ back' = (back \/ r < head)
  /\ UNCHANGED <<stamps, commits>>

SomebodyChangesTree ==
  /\ EditTree \/ CommitTree \/ \E r \in 1..Len(commits) : Checkout(r)
  /\ UNCHANGED indexVars

-----------------------------------------------------------------------------
(* ensure_fresh *)

BeginFresh == [FreshOff EXCEPT !.pc = "look"]

\* BROKEN: the metadata is saved before the graph it vouches for.
AfterSaveSwapped == [build |-> "meta", meta |-> "graph", graph |-> "returned"]

\* save_graph, then save_metadata.
AfterSave == [build |-> "graph", graph |-> "meta", meta |-> "returned"]

\* The revision now, and what the metadata says.  Metadata that does not
\* parse raises; a graph that does not parse raises too, but is only read
\* when the revision is the one it was saved with.
LookUp ==
  LET cached == Revision # Nothing /\ meta = Revision
  IN  /\ fresh.pc = "look"
      /\ fresh' = [fresh EXCEPT !.revision = Revision,
           !.graph = IF meta # Torn /\ cached /\ graph \notin {Absent, Torn}
                     THEN graph ELSE NoGraph,
           !.pc = IF meta = Torn \/ (cached /\ graph = Torn) THEN "raised"
                  ELSE IF cached /\ graph # Absent THEN "returned"
                  ELSE "build"]
      /\ UNCHANGED <<treeVars, meta, graph, cut>>

\* The indexer reads the working tree, some time after the revision was read.
Build ==
  /\ fresh.pc = "build"
  /\ fresh' = [fresh EXCEPT !.pc = AfterSave["build"],
       !.graph = [content |-> work,
                  fits    |-> Revision = fresh.revision /\ Clean]]
  /\ UNCHANGED <<treeVars, meta, graph, cut>>

\* No Dart SDK, a timeout, an unreachable runtime server.
BuildFails ==
  /\ fresh.pc = "build"
  /\ fresh' = [fresh EXCEPT !.pc = "raised"]
  /\ UNCHANGED <<treeVars, meta, graph, cut>>

SaveGraph ==
  \/ /\ fresh.pc = "graph"
     /\ graph' = Torn
     /\ fresh' = [fresh EXCEPT !.pc = "graph_open"]
     /\ UNCHANGED <<treeVars, meta, cut>>
  \/ /\ fresh.pc = "graph_open"
     /\ graph' = fresh.graph
     /\ fresh' = [fresh EXCEPT !.pc = AfterSave["graph"]]
     /\ UNCHANGED <<treeVars, meta, cut>>

SaveMetadata ==
  \/ /\ fresh.pc = "meta"
     /\ meta' = Torn
     /\ fresh' = [fresh EXCEPT !.pc = "meta_open"]
     /\ UNCHANGED <<treeVars, graph, cut>>
  \/ /\ fresh.pc = "meta_open"
     /\ meta' = fresh.revision
     /\ fresh' = [fresh EXCEPT !.pc = AfterSave["meta"]]
     /\ UNCHANGED <<treeVars, graph, cut>>

FreshStep == LookUp \/ Build \/ BuildFails \/ SaveGraph \/ SaveMetadata

Saving == {"graph", "graph_open", "meta", "meta_open"}

\* The process that runs ensure_fresh is killed.
FreshKilled ==
  /\ fresh' = FreshOff
  /\ cut' = (cut \/ fresh.pc \in Saving)
  /\ UNCHANGED <<meta, graph>>

-----------------------------------------------------------------------------

Fresh ==
  [pc : Saving \cup {"off", "look", "build", "returned", "raised"},
   revision : Nat \cup {Nothing}, graph : Graph]

CodeTypeOK ==
  /\ work \in Nat /\ stamps \in Nat
  /\ commits \in Seq(Nat)
  /\ head \in 0..Len(commits)
  /\ meta \in Nat \cup {Nothing, Absent, Torn}
  /\ graph \in Graph \cup {Absent, Torn}
  /\ fresh \in Fresh
  /\ back \in BOOLEAN /\ cut \in BOOLEAN

\* What a turn is told is the index of a revision is what that revision
\* holds, however the tree moved in between, provided that it was built from
\* a clean tree.  A kill between the two saves leaves the new graph with the
\* old metadata, which is harmless until the old commit is checked out again.
IndexFits ==
  /\ fresh.pc = "returned" /\ fresh.revision # Nothing
  /\ fresh.graph.fits
  /\ ~ (cut /\ back)
  => fresh.graph.content = commits[fresh.revision]
=============================================================================
