------------------------------- MODULE Loader -------------------------------
(***************************************************************************)
(* The import loader (src/src/loader.rs): the entry file and everything it *)
(* transitively imports, merged depth-first into one list of items.        *)
(*                                                                         *)
(* load_into recurses: a file's own items are merged first, then each of   *)
(* its imports is loaded.  The recursion is the stack todo of <<importing  *)
(* file, path>> pairs still to be loaded.  Canonicalisation is resolve:    *)
(* two spellings of a path may be one file, and a path may be no file.  An *)
(* item of the merged source is a reference <<file, position>>.            *)
(***************************************************************************)
EXTENDS Sequences, Naturals

CONSTANTS
  File,     (* canonical paths                                              *)
  Cwd,      (* where the command line's own path is resolved                *)
  NoFile,   (* what a path that does not exist resolves to                  *)
  NoName,   (* what an item that declares no name declares                  *)
  Projects  (* what may be on disk, by number: [entry, resolve, status,     *)
            (* items, imports]                                              *)

(* declared_name: use and extend introduce no name. *)
DeclaredName(item) == IF item.k \in {"use", "extend"} THEN NoName ELSE item.name

Imported(p, f, i) == <<f, p.imports[f][i]>>
ASSUME LoaderAssumption ==
  /\ NoFile \notin File
  /\ \A n \in DOMAIN Projects : LET p == Projects[n] IN
       /\ p.resolve[<<Cwd, p.entry>>] \in File \cup {NoFile}
       /\ \A f \in File :
            /\ Len(p.items[f]) \in Nat /\ DOMAIN p.items[f] = 1 .. Len(p.items[f])
            /\ Len(p.imports[f]) \in Nat /\ DOMAIN p.imports[f] = 1 .. Len(p.imports[f])
            /\ \A i \in DOMAIN p.imports[f] :
                 p.resolve[Imported(p, f, i)] \in File \cup {NoFile}

VARIABLES
  project,  (* what is on disk: one of Projects                             *)
  todo,     (* imports still to be resolved, next first                     *)
  visited,  (* canonical files already loaded or being loaded               *)
  names,    (* the top-level names declared so far                          *)
  merged,   (* the merged source file                                       *)
  loading   (* "loading", "loaded" or the error: "io", "parse", "duplicate" *)

loader == <<project, todo, visited, names, merged, loading>>

Items(f)   == project.items[f]
Imports(f) == [i \in DOMAIN project.imports[f] |-> Imported(project, f, i)]
OwnItems(f) == [i \in 1 .. Len(Items(f)) |-> <<f, i>>]
NameOf(ref) == DeclaredName(Items(ref[1])[ref[2]])
NamesIn(f) == {DeclaredName(Items(f)[i]) : i \in DOMAIN Items(f)} \ {NoName}

-----------------------------------------------------------------------------

NextFile == project.resolve[Head(todo)]
Loads == loading = "loading" /\ todo # <<>>

Fails(why) == loading' = why /\ UNCHANGED <<project, todo, visited, names, merged>>

NotFound == Loads /\ NextFile = NoFile /\ Fails("io")

(* A file already visited, an ancestor of a cycle included, adds nothing.  *)
AlreadyVisited == /\ Loads
                  /\ NextFile \in visited
                  /\ todo' = Tail(todo)
                  /\ UNCHANGED <<project, visited, names, merged, loading>>

Reads == Loads /\ NextFile # NoFile /\ NextFile \notin visited
Unreadable == Reads /\ project.status[NextFile] = "unreadable" /\ Fails("io")
Garbled    == Reads /\ project.status[NextFile] = "garbled" /\ Fails("parse")

ClashesAcrossFiles(f) == names \cap NamesIn(f) # {}                \* mutant
Clashes(f) ==
  \/ names \cap NamesIn(f) # {}
  \/ \E i, j \in DOMAIN Items(f) : /\ i # j
                                   /\ DeclaredName(Items(f)[i]) = DeclaredName(Items(f)[j])
                                   /\ DeclaredName(Items(f)[i]) # NoName

Duplicate == /\ Reads
             /\ project.status[NextFile] = "ok"
             /\ Clashes(NextFile)
             /\ Fails("duplicate")

(* The file's imports go before what is left of its importer's.            *)
Abandoned(f) == Imports(f)                                         \* mutant
Queued(f)    == Imports(f) \o Tail(todo)
Merge == /\ Reads
         /\ project.status[NextFile] = "ok"
         /\ ~Clashes(NextFile)
         /\ visited' = visited \cup {NextFile}
         /\ names' = names \cup NamesIn(NextFile)
         /\ merged' = merged \o OwnItems(NextFile)
         /\ todo' = Queued(NextFile)
         /\ UNCHANGED <<project, loading>>

Finish == /\ loading = "loading" /\ todo = <<>>
          /\ loading' = "loaded"
          /\ UNCHANGED <<project, todo, visited, names, merged>>

-----------------------------------------------------------------------------

LoaderInit == /\ \E n \in DOMAIN Projects : project = Projects[n]
              /\ todo = <<<<Cwd, project.entry>>>>
              /\ visited = {} /\ names = {} /\ merged = <<>>
              /\ loading = "loading"

LoaderNext == NotFound \/ AlreadyVisited \/ Unreadable \/ Garbled \/ Duplicate
                \/ Merge \/ Finish

LoaderSpec == LoaderInit /\ [][LoaderNext]_loader

-----------------------------------------------------------------------------

(* What an import chain from the entry reaches: the least set of files     *)
(* that holds the entry and, with a file, every file it imports.           *)
Closed(S) ==
  /\ project.resolve[<<Cwd, project.entry>>] \in S \cup {NoFile}
  /\ \A f \in S : \A i \in DOMAIN Imports(f) :
       project.resolve[Imports(f)[i]] \in S \cup {NoFile}
Reachable == {f \in File : \A S \in SUBSET File : Closed(S) => f \in S}

(* A loaded source is exactly the files the entry reaches, whatever cycles *)
(* and spellings lead to them, each file's items once and no name twice.   *)
NoNameTwice ==
  \A i, j \in DOMAIN merged :
    NameOf(merged[i]) = NameOf(merged[j]) /\ NameOf(merged[i]) # NoName => i = j
NoFileTwice == \A i, j \in DOMAIN merged : merged[i] = merged[j] => i = j
LoadedIsReachable == loading = "loaded" => visited = Reachable
MergedOnce == NoNameTwice /\ NoFileTwice

=============================================================================
