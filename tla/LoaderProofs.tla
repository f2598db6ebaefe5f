---------------------------- MODULE LoaderProofs ----------------------------
(***************************************************************************)
(* Proofs about Loader, for every set of files and every layout of their   *)
(* imports: a loaded source is what the entry reaches, each file once and  *)
(* no name twice.                                                          *)
(*                                                                         *)
(* The recursion of load_into is the list todo, so what it establishes is  *)
(* an invariant of visited and todo together: nothing is in either that a  *)
(* set closed under imports lacks, and every import of a visited file is   *)
(* visited or still in todo.  When todo is empty the two meet.             *)
(***************************************************************************)
EXTENDS Loader, SequenceTheorems, TLAPS

Paths == {<<Cwd, project.entry>>}
           \cup UNION {{Imported(project, f, i) : i \in DOMAIN project.imports[f]} : f \in File}

ProjectOK == \E n \in DOMAIN Projects : project = Projects[n]
StateOK ==
  /\ ProjectOK
  /\ todo \in Seq(Paths)
  /\ visited \subseteq File
  /\ merged \in Seq(File \X Nat)

(* Where an item of the merged source comes from, and what names knows.    *)
MergedOK ==
  \A i \in DOMAIN merged :
    /\ merged[i][1] \in visited
    /\ merged[i][2] \in DOMAIN Items(merged[i][1])
    /\ NameOf(merged[i]) # NoName => NameOf(merged[i]) \in names

(* Nothing is visited, or waits in todo, that a closed set lacks.          *)
OnlyReached ==
  \A S \in SUBSET File : Closed(S) =>
    /\ visited \subseteq S
    /\ \A i \in DOMAIN todo : project.resolve[todo[i]] \in S \cup {NoFile}

(* Every path asked for so far is visited or waits.                        *)
Settled(path) == \/ project.resolve[path] \in visited
                 \/ \E i \in DOMAIN todo : todo[i] = path
NothingLost ==
  /\ Settled(<<Cwd, project.entry>>)
  /\ \A f \in visited : \A i \in DOMAIN project.imports[f] :
       Settled(Imported(project, f, i))

LoaderInv == /\ StateOK /\ MergedOK /\ MergedOnce
             /\ OnlyReached /\ NothingLost
             /\ (loading = "loaded" => todo = <<>>)

-----------------------------------------------------------------------------
(* Facts about the files.                                                  *)

(* What LoaderAssumption says of the project at hand.                      *)
LEMMA ProjectFacts ==
  ASSUME ProjectOK
  PROVE  /\ NoFile \notin File
         /\ \A p \in Paths : project.resolve[p] \in File \cup {NoFile}
         /\ \A f \in File :
              /\ Len(Items(f)) \in Nat /\ DOMAIN Items(f) = 1 .. Len(Items(f))
              /\ Len(project.imports[f]) \in Nat
              /\ DOMAIN project.imports[f] = 1 .. Len(project.imports[f])
<1>1. PICK n \in DOMAIN Projects : project = Projects[n] BY DEF ProjectOK
<1>2. /\ NoFile \notin File
      /\ project.resolve[<<Cwd, project.entry>>] \in File \cup {NoFile}
      /\ \A f \in File :
           /\ Len(project.items[f]) \in Nat /\ DOMAIN project.items[f] = 1 .. Len(project.items[f])
           /\ Len(project.imports[f]) \in Nat
           /\ DOMAIN project.imports[f] = 1 .. Len(project.imports[f])
           /\ \A i \in DOMAIN project.imports[f] :
                project.resolve[Imported(project, f, i)] \in File \cup {NoFile}
  BY <1>1, LoaderAssumption
<1>3. \A p \in Paths : project.resolve[p] \in File \cup {NoFile}
  <2>1. TAKE p \in Paths
  <2>2. CASE p = <<Cwd, project.entry>> BY <1>2, <2>2
  <2>3. CASE p # <<Cwd, project.entry>>
    <3>1. PICK f \in File : p \in {Imported(project, f, i) : i \in DOMAIN project.imports[f]}
      BY <2>3 DEF Paths
    <3>2. PICK i \in DOMAIN project.imports[f] : p = Imported(project, f, i) BY <3>1
    <3> QED BY <1>2, <3>2
  <2> QED BY <2>2, <2>3
<1> QED BY <1>2, <1>3 DEF Items

(* A file's imports are a list of paths, and its items a list of           *)
(* references to it.                                                       *)
LEMMA ImportsArePaths ==
  ASSUME ProjectOK, NEW f \in File
  PROVE  /\ Imports(f) \in Seq(Paths)
         /\ DOMAIN Imports(f) = DOMAIN project.imports[f]
         /\ \A i \in DOMAIN Imports(f) : Imports(f)[i] = Imported(project, f, i)
<1>1. /\ Len(project.imports[f]) \in Nat
      /\ DOMAIN project.imports[f] = 1 .. Len(project.imports[f])
  BY ProjectFacts
<1>2. \A i \in DOMAIN project.imports[f] : Imported(project, f, i) \in Paths
  BY DEF Paths
<1>3. Imports(f) \in [1 .. Len(project.imports[f]) -> Paths] BY <1>1, <1>2 DEF Imports
<1>4. Imports(f) \in Seq(Paths) BY <1>1, <1>3, SeqDef
<1> QED BY <1>4 DEF Imports

LEMMA OwnItemsAreRefs ==
  ASSUME ProjectOK, NEW f \in File
  PROVE  /\ OwnItems(f) \in Seq(File \X Nat)
         /\ DOMAIN OwnItems(f) = DOMAIN Items(f)
         /\ Len(OwnItems(f)) = Len(Items(f))
         /\ \A i \in DOMAIN OwnItems(f) : OwnItems(f)[i] = <<f, i>>
<1>1. Len(Items(f)) \in Nat /\ DOMAIN Items(f) = 1 .. Len(Items(f)) BY ProjectFacts
<1>2. OwnItems(f) \in [1 .. Len(Items(f)) -> File \X Nat] BY <1>1 DEF OwnItems
<1>3. OwnItems(f) \in Seq(File \X Nat) BY <1>1, <1>2, SeqDef
<1>4. Len(OwnItems(f)) = Len(Items(f)) BY <1>1, <1>2, <1>3, LenProperties
<1> QED BY <1>1, <1>3, <1>4 DEF OwnItems

-----------------------------------------------------------------------------
(* The initial state.                                                      *)

LEMMA LoaderInvInit == LoaderInit => LoaderInv
<1> SUFFICES ASSUME LoaderInit PROVE LoaderInv
  OBVIOUS
<1> USE DEF LoaderInit
<1>1. StateOK
  <2>1. <<Cwd, project.entry>> \in Paths BY DEF Paths
  <2>2. todo \in Seq(Paths) BY <2>1
  <2> QED BY <2>2 DEF StateOK, ProjectOK
<1>2. MergedOK BY DEF MergedOK
<1>3. MergedOnce BY DEF MergedOnce, NoNameTwice, NoFileTwice
<1>4. OnlyReached
  <2>1. DOMAIN todo = {1} /\ todo[1] = <<Cwd, project.entry>> OBVIOUS
  <2> QED BY <2>1 DEF OnlyReached, Closed
<1>5. NothingLost
  <2>1. 1 \in DOMAIN todo /\ todo[1] = <<Cwd, project.entry>> OBVIOUS
  <2> QED BY <2>1 DEF NothingLost, Settled
<1> QED BY <1>1, <1>2, <1>3, <1>4, <1>5 DEF LoaderInv

-----------------------------------------------------------------------------
(* The steps that change nothing but the outcome.                          *)

LEMMA InvFails ==
  ASSUME LoaderInv, NEW why, why # "loaded", Fails(why)
  PROVE  LoaderInv'
<1>1. UNCHANGED <<project, todo, visited, names, merged>> BY DEF Fails
<1>2. StateOK' /\ MergedOK' BY <1>1 DEF LoaderInv, StateOK, ProjectOK, Paths, MergedOK, NameOf, Items
<1>3. MergedOnce'
  BY <1>1 DEF LoaderInv, MergedOnce, NoNameTwice, NoFileTwice, NameOf, Items
<1>4. OnlyReached' BY <1>1 DEF LoaderInv, OnlyReached, Closed, Imports
<1>5. NothingLost' BY <1>1 DEF LoaderInv, NothingLost, Settled
<1>6. loading' # "loaded" BY DEF Fails
<1> QED BY <1>2, <1>3, <1>4, <1>5, <1>6 DEF LoaderInv

LEMMA InvFinish == ASSUME LoaderInv, Finish PROVE LoaderInv'
<1>1. UNCHANGED <<project, todo, visited, names, merged>> /\ todo = <<>> BY DEF Finish
<1>2. StateOK' /\ MergedOK' BY <1>1 DEF LoaderInv, StateOK, ProjectOK, Paths, MergedOK, NameOf, Items
<1>3. MergedOnce'
  BY <1>1 DEF LoaderInv, MergedOnce, NoNameTwice, NoFileTwice, NameOf, Items
<1>4. OnlyReached' BY <1>1 DEF LoaderInv, OnlyReached, Closed, Imports
<1>5. NothingLost' BY <1>1 DEF LoaderInv, NothingLost, Settled
<1> QED BY <1>1, <1>2, <1>3, <1>4, <1>5 DEF LoaderInv

LEMMA InvStays == ASSUME LoaderInv, UNCHANGED loader PROVE LoaderInv'
<1>1. UNCHANGED <<project, todo, visited, names, merged>> /\ loading' = loading BY DEF loader
<1>2. StateOK' /\ MergedOK' BY <1>1 DEF LoaderInv, StateOK, ProjectOK, Paths, MergedOK, NameOf, Items
<1>3. MergedOnce'
  BY <1>1 DEF LoaderInv, MergedOnce, NoNameTwice, NoFileTwice, NameOf, Items
<1>4. OnlyReached' BY <1>1 DEF LoaderInv, OnlyReached, Closed, Imports
<1>5. NothingLost' BY <1>1 DEF LoaderInv, NothingLost, Settled
<1> QED BY <1>1, <1>2, <1>3, <1>4, <1>5 DEF LoaderInv

-----------------------------------------------------------------------------
(* The steps that take a path off todo.                                    *)

(* What is left of todo: every path but the first keeps its place.         *)
LEMMA TodoTail ==
  ASSUME todo \in Seq(Paths), todo # <<>>
  PROVE  /\ Head(todo) = todo[1] /\ 1 \in DOMAIN todo /\ Head(todo) \in Paths
         /\ Tail(todo) \in Seq(Paths)
         /\ \A i \in DOMAIN Tail(todo) : i + 1 \in DOMAIN todo /\ Tail(todo)[i] = todo[i + 1]
         /\ \A i \in DOMAIN todo : \/ i = 1
                                   \/ i - 1 \in DOMAIN Tail(todo) /\ Tail(todo)[i - 1] = todo[i]
<1>1. /\ Len(todo) \in Nat /\ DOMAIN todo = 1 .. Len(todo) /\ Len(todo) # 0
      /\ \A i \in 1 .. Len(todo) : todo[i] \in Paths
  OBVIOUS
<1>2. /\ Tail(todo) \in Seq(Paths) /\ Len(Tail(todo)) = Len(todo) - 1
      /\ DOMAIN Tail(todo) = 1 .. Len(todo) - 1
      /\ \A i \in 1 .. Len(todo) - 1 : Tail(todo)[i] = todo[i + 1]
  BY HeadTailProperties
<1> QED BY <1>1, <1>2

LEMMA InvAlreadyVisited == ASSUME LoaderInv, AlreadyVisited PROVE LoaderInv'
<1>1. /\ todo \in Seq(Paths) /\ todo # <<>> /\ todo' = Tail(todo)
      /\ UNCHANGED <<project, visited, names, merged, loading>>
      /\ loading = "loading" /\ project.resolve[Head(todo)] \in visited
  BY DEF LoaderInv, StateOK, AlreadyVisited, Loads, NextFile
<1>2. StateOK' /\ MergedOK'
  <2>1. Tail(todo) \in Seq(Paths) BY <1>1, TodoTail
  <2>2. Paths' = Paths BY <1>1 DEF Paths
  <2> QED BY <1>1, <2>1, <2>2 DEF LoaderInv, StateOK, ProjectOK, MergedOK, NameOf, Items
<1>3. MergedOnce'
  BY <1>1 DEF LoaderInv, MergedOnce, NoNameTwice, NoFileTwice, NameOf, Items
<1>4. OnlyReached'
  <2>1. \A S \in SUBSET File : Closed(S)' => Closed(S) BY <1>1 DEF Closed, Imports
  <2>2. \A i \in DOMAIN Tail(todo) : i + 1 \in DOMAIN todo /\ Tail(todo)[i] = todo[i + 1]
    BY <1>1, TodoTail
  <2> QED BY <1>1, <2>1, <2>2 DEF LoaderInv, OnlyReached
<1>5. NothingLost'
  <2>1. ASSUME NEW path, Settled(path) PROVE Settled(path)'
    <3>1. CASE project.resolve[path] \in visited BY <1>1, <3>1 DEF Settled
    <3>2. CASE project.resolve[path] \notin visited
      <4>1. PICK i \in DOMAIN todo : todo[i] = path BY <2>1, <3>2 DEF Settled
      <4>2. i # 1 BY <1>1, <3>2, <4>1, TodoTail
      <4>3. i - 1 \in DOMAIN Tail(todo) /\ Tail(todo)[i - 1] = path
        BY <1>1, <4>1, <4>2, TodoTail
      <4> QED BY <1>1, <4>3 DEF Settled
    <3> QED BY <3>1, <3>2
  <2> QED BY <1>1, <2>1 DEF LoaderInv, NothingLost, Imported
<1> QED BY <1>1, <1>2, <1>3, <1>4, <1>5 DEF LoaderInv

(* A sequence continued: each element keeps its place or moves by the      *)
(* length of what is in front of it.                                       *)
LEMMA Continued ==
  ASSUME NEW S, NEW s \in Seq(S), NEW t \in Seq(S)
  PROVE  /\ s \o t \in Seq(S)
         /\ \A i \in DOMAIN s : i \in DOMAIN (s \o t) /\ (s \o t)[i] = s[i]
         /\ \A i \in DOMAIN t : Len(s) + i \in DOMAIN (s \o t) /\ (s \o t)[Len(s) + i] = t[i]
         /\ \A i \in DOMAIN (s \o t) :
              \/ i \in DOMAIN s /\ (s \o t)[i] = s[i]
              \/ i - Len(s) \in DOMAIN t /\ (s \o t)[i] = t[i - Len(s)]
<1>1. /\ Len(s) \in Nat /\ DOMAIN s = 1 .. Len(s)
      /\ Len(t) \in Nat /\ DOMAIN t = 1 .. Len(t)
  OBVIOUS
<1>2. /\ s \o t \in Seq(S) /\ Len(s \o t) = Len(s) + Len(t)
      /\ \A i \in 1 .. Len(s) + Len(t) :
           (s \o t)[i] = IF i <= Len(s) THEN s[i] ELSE t[i - Len(s)]
  BY ConcatProperties
<1>3. DOMAIN (s \o t) = 1 .. Len(s) + Len(t) BY <1>2
<1> QED BY <1>1, <1>2, <1>3

(* The file Merge takes in, and what the step does with it.                *)
LEMMA MergeFacts ==
  ASSUME LoaderInv, Merge
  PROVE  /\ ProjectOK /\ todo \in Seq(Paths) /\ todo # <<>>
         /\ project.resolve[Head(todo)] = NextFile
         /\ NextFile \in File /\ NextFile \notin visited /\ NextFile # NoFile
         /\ ~Clashes(NextFile)
         /\ visited' = visited \cup {NextFile}
         /\ names' = names \cup NamesIn(NextFile)
         /\ merged' = merged \o OwnItems(NextFile)
         /\ todo' = Imports(NextFile) \o Tail(todo)
         /\ project' = project /\ loading' = "loading" /\ loading = "loading"
<1>1. ProjectOK /\ todo \in Seq(Paths) /\ todo # <<>>
  BY DEF LoaderInv, StateOK, Merge, Reads, Loads
<1>2. Head(todo) \in Paths BY <1>1, TodoTail
<1>3. project.resolve[Head(todo)] \in File \cup {NoFile} BY <1>1, <1>2, ProjectFacts
<1> QED BY <1>1, <1>3 DEF Merge, Reads, Loads, NextFile, Queued

LEMMA MergeKeepsState == ASSUME LoaderInv, Merge PROVE StateOK'
<1> DEFINE f == NextFile
<1>1. f \in File /\ ProjectOK BY MergeFacts
<1> HIDE DEF f
<1>2. Imports(f) \o Tail(todo) \in Seq(Paths)
  <2>1. Imports(f) \in Seq(Paths) BY <1>1, ImportsArePaths
  <2>2. Tail(todo) \in Seq(Paths) BY MergeFacts, TodoTail
  <2> QED BY <2>1, <2>2, Continued
<1>3. merged \o OwnItems(f) \in Seq(File \X Nat)
  <2>1. OwnItems(f) \in Seq(File \X Nat) BY <1>1, OwnItemsAreRefs
  <2>2. merged \in Seq(File \X Nat) BY DEF LoaderInv, StateOK
  <2> QED BY <2>1, <2>2, Continued
<1>4. Paths' = Paths /\ ProjectOK' BY MergeFacts DEF Paths, ProjectOK
<1>5. visited' \subseteq File BY MergeFacts DEF LoaderInv, StateOK
<1> QED BY <1>2, <1>3, <1>4, <1>5, MergeFacts DEF StateOK, f

(* The merged source after the step: what was there, then f's own items.   *)
LEMMA MergedParts ==
  ASSUME LoaderInv, Merge, NEW i \in DOMAIN merged'
  PROVE  \/ i \in DOMAIN merged /\ merged'[i] = merged[i]
         \/ /\ i - Len(merged) \in DOMAIN Items(NextFile)
            /\ merged'[i] = <<NextFile, i - Len(merged)>>
<1> DEFINE f == NextFile
<1>1. f \in File /\ ProjectOK /\ merged' = merged \o OwnItems(f) BY MergeFacts
<1> HIDE DEF f
<1>2. /\ OwnItems(f) \in Seq(File \X Nat) /\ DOMAIN OwnItems(f) = DOMAIN Items(f)
      /\ \A k \in DOMAIN OwnItems(f) : OwnItems(f)[k] = <<f, k>>
  BY <1>1, OwnItemsAreRefs
<1>3. merged \in Seq(File \X Nat) BY DEF LoaderInv, StateOK
<1>4. \/ i \in DOMAIN merged /\ (merged \o OwnItems(f))[i] = merged[i]
      \/ /\ i - Len(merged) \in DOMAIN OwnItems(f)
         /\ (merged \o OwnItems(f))[i] = OwnItems(f)[i - Len(merged)]
  BY <1>1, <1>2, <1>3, Continued
<1> QED BY <1>1, <1>2, <1>4 DEF f

LEMMA MergeKeepsMerged == ASSUME LoaderInv, Merge PROVE MergedOK' /\ MergedOnce'
<1> DEFINE f == NextFile
<1>0. /\ f \notin visited /\ ~Clashes(f) /\ project' = project
      /\ visited' = visited \cup {f} /\ names' = names \cup NamesIn(f)
  BY MergeFacts
<1>1. \A i \in DOMAIN merged' :
        \/ i \in DOMAIN merged /\ merged'[i] = merged[i]
        \/ i - Len(merged) \in DOMAIN Items(f) /\ merged'[i] = <<f, i - Len(merged)>>
  BY MergedParts
<1>2. DOMAIN merged' \subseteq Int /\ Len(merged) \in Nat
  <2>1. merged' \in Seq(File \X Nat) BY MergeKeepsState DEF StateOK
  <2>2. merged \in Seq(File \X Nat) BY DEF LoaderInv, StateOK
  <2> QED BY <2>1, <2>2
<1> HIDE DEF f
<1>3. ASSUME NEW k \in DOMAIN Items(f), NameOf(<<f, k>>) # NoName
      PROVE  NameOf(<<f, k>>) \in NamesIn(f) /\ NameOf(<<f, k>>) \notin names
  BY <1>0, <1>3 DEF NamesIn, NameOf, Clashes
<1>4. MergedOK'
  <2> SUFFICES ASSUME NEW i \in DOMAIN merged'
               PROVE  /\ merged'[i][1] \in visited'
                      /\ merged'[i][2] \in DOMAIN Items(merged'[i][1])
                      /\ NameOf(merged'[i]) # NoName => NameOf(merged'[i]) \in names'
    BY <1>0 DEF MergedOK, Items, NameOf
  <2>1. CASE i \in DOMAIN merged /\ merged'[i] = merged[i]
    BY <1>0, <2>1 DEF LoaderInv, MergedOK
  <2>2. CASE i - Len(merged) \in DOMAIN Items(f) /\ merged'[i] = <<f, i - Len(merged)>>
    BY <1>0, <1>3, <2>2
  <2> QED BY <1>1, <2>1, <2>2
<1>5. \A k, l \in DOMAIN Items(f) :
        NameOf(<<f, k>>) = NameOf(<<f, l>>) /\ NameOf(<<f, k>>) # NoName => k = l
  BY <1>0 DEF Clashes, NameOf
<1>6. NoNameTwice'
  <2> SUFFICES ASSUME NEW i \in DOMAIN merged', NEW j \in DOMAIN merged',
                      NameOf(merged'[i]) = NameOf(merged'[j]), NameOf(merged'[i]) # NoName
               PROVE  i = j
    BY <1>0 DEF NoNameTwice, NameOf, Items
  <2>1. CASE i \in DOMAIN merged /\ merged'[i] = merged[i]
    <3>1. NameOf(merged'[i]) \in names BY <2>1 DEF LoaderInv, MergedOK
    <3>2. j \in DOMAIN merged /\ merged'[j] = merged[j] BY <1>1, <1>3, <3>1
    <3> QED BY <2>1, <3>2 DEF LoaderInv, MergedOnce, NoNameTwice
  <2>2. CASE i - Len(merged) \in DOMAIN Items(f) /\ merged'[i] = <<f, i - Len(merged)>>
    <3>1. NameOf(merged'[i]) \notin names BY <1>3, <2>2
    <3>2. ~(j \in DOMAIN merged /\ merged'[j] = merged[j])
      BY <3>1 DEF LoaderInv, MergedOK
    <3>3. \/ j \in DOMAIN merged /\ merged'[j] = merged[j]
          \/ j - Len(merged) \in DOMAIN Items(f) /\ merged'[j] = <<f, j - Len(merged)>>
      BY <1>1
    <3>4. j - Len(merged) \in DOMAIN Items(f) /\ merged'[j] = <<f, j - Len(merged)>>
      BY <3>2, <3>3
    <3>5. NameOf(<<f, i - Len(merged)>>) = NameOf(<<f, j - Len(merged)>>)
          /\ NameOf(<<f, i - Len(merged)>>) # NoName
      BY <2>2, <3>4
    <3>6. i - Len(merged) = j - Len(merged) BY <1>5, <2>2, <3>4, <3>5
    <3> QED BY <1>2, <3>6
  <2> QED BY <1>1, <2>1, <2>2
<1>7. NoFileTwice'
  <2> SUFFICES ASSUME NEW i \in DOMAIN merged', NEW j \in DOMAIN merged',
                      merged'[i] = merged'[j]
               PROVE  i = j
    BY DEF NoFileTwice
  <2>1. CASE i \in DOMAIN merged /\ merged'[i] = merged[i]
    <3>1. merged'[i][1] \in visited BY <2>1 DEF LoaderInv, MergedOK
    <3>2. j \in DOMAIN merged /\ merged'[j] = merged[j] BY <1>0, <1>1, <3>1
    <3> QED BY <2>1, <3>2 DEF LoaderInv, MergedOnce, NoFileTwice
  <2>2. CASE i - Len(merged) \in DOMAIN Items(f) /\ merged'[i] = <<f, i - Len(merged)>>
    <3>1. merged'[i][1] = f BY <2>2
    <3>2. ~(j \in DOMAIN merged /\ merged'[j] = merged[j])
      BY <1>0, <3>1 DEF LoaderInv, MergedOK
    <3>3. \/ j \in DOMAIN merged /\ merged'[j] = merged[j]
          \/ j - Len(merged) \in DOMAIN Items(f) /\ merged'[j] = <<f, j - Len(merged)>>
      BY <1>1
    <3>4. <<f, i - Len(merged)>> = <<f, j - Len(merged)>> BY <2>2, <3>2, <3>3
    <3>5. i - Len(merged) = j - Len(merged) BY <3>4
    <3> QED BY <1>2, <3>5
  <2> QED BY <1>1, <2>1, <2>2
<1> QED BY <1>4, <1>6, <1>7 DEF MergedOnce

LEMMA MergeKeepsReached == ASSUME LoaderInv, Merge PROVE OnlyReached'
<1> DEFINE f == NextFile
<1>1. /\ f \in File /\ f # NoFile /\ ProjectOK /\ project' = project
      /\ todo \in Seq(Paths) /\ todo # <<>> /\ project.resolve[Head(todo)] = f
      /\ todo' = Imports(f) \o Tail(todo) /\ visited' = visited \cup {f}
  BY MergeFacts
<1> HIDE DEF f
<1> SUFFICES ASSUME NEW S \in SUBSET File, Closed(S)
             PROVE  /\ visited' \subseteq S
                    /\ \A i \in DOMAIN todo' : project.resolve[todo'[i]] \in S \cup {NoFile}
  BY <1>1 DEF OnlyReached, Closed, Imports
<1>2. /\ visited \subseteq S
      /\ \A i \in DOMAIN todo : project.resolve[todo[i]] \in S \cup {NoFile}
  BY DEF LoaderInv, OnlyReached
<1>3. f \in S BY <1>1, <1>2, TodoTail
<1>4. \A i \in DOMAIN Imports(f) : project.resolve[Imports(f)[i]] \in S \cup {NoFile}
  BY <1>3 DEF Closed
<1>5. \A i \in DOMAIN Tail(todo) : project.resolve[Tail(todo)[i]] \in S \cup {NoFile}
  BY <1>1, <1>2, TodoTail
<1>6. Imports(f) \in Seq(Paths) /\ Tail(todo) \in Seq(Paths)
  BY <1>1, ImportsArePaths, TodoTail
<1>7. \A i \in DOMAIN (Imports(f) \o Tail(todo)) :
        \/ /\ i \in DOMAIN Imports(f)
           /\ (Imports(f) \o Tail(todo))[i] = Imports(f)[i]
        \/ /\ i - Len(Imports(f)) \in DOMAIN Tail(todo)
           /\ (Imports(f) \o Tail(todo))[i] = Tail(todo)[i - Len(Imports(f))]
  BY <1>6, Continued
<1>8. \A i \in DOMAIN todo' : project.resolve[todo'[i]] \in S \cup {NoFile}
  BY <1>1, <1>4, <1>5, <1>7
<1> QED BY <1>1, <1>2, <1>3, <1>8

LEMMA MergeLosesNothing == ASSUME LoaderInv, Merge PROVE NothingLost'
<1> DEFINE f == NextFile
<1>1. /\ f \in File /\ ProjectOK /\ project' = project
      /\ todo \in Seq(Paths) /\ todo # <<>> /\ project.resolve[Head(todo)] = f
      /\ todo' = Imports(f) \o Tail(todo) /\ visited' = visited \cup {f}
  BY MergeFacts
<1> HIDE DEF f
<1>2. /\ Imports(f) \in Seq(Paths) /\ Tail(todo) \in Seq(Paths)
      /\ DOMAIN Imports(f) = DOMAIN project.imports[f]
      /\ \A i \in DOMAIN Imports(f) : Imports(f)[i] = Imported(project, f, i)
  BY <1>1, ImportsArePaths, TodoTail
<1>3. /\ \A i \in DOMAIN Imports(f) : i \in DOMAIN todo' /\ todo'[i] = Imports(f)[i]
      /\ \A i \in DOMAIN Tail(todo) : /\ Len(Imports(f)) + i \in DOMAIN todo'
                                      /\ todo'[Len(Imports(f)) + i] = Tail(todo)[i]
  BY <1>1, <1>2, Continued
<1>4. ASSUME NEW path, Settled(path) PROVE Settled(path)'
  <2>1. CASE project.resolve[path] \in visited BY <1>1, <2>1 DEF Settled
  <2>2. CASE project.resolve[path] \notin visited
    <3>1. PICK i \in DOMAIN todo : todo[i] = path BY <1>4, <2>2 DEF Settled
    <3>2. CASE i = 1
      <4>1. Head(todo) = path BY <1>1, <3>1, <3>2, TodoTail
      <4> QED BY <1>1, <4>1 DEF Settled
    <3>3. CASE i # 1
      <4>1. i - 1 \in DOMAIN Tail(todo) /\ Tail(todo)[i - 1] = path
        BY <1>1, <3>1, <3>3, TodoTail
      <4>2. \E k \in DOMAIN todo' : todo'[k] = path BY <1>3, <4>1
      <4> QED BY <4>2 DEF Settled
    <3> QED BY <3>2, <3>3
  <2> QED BY <2>1, <2>2
<1>5. Settled(<<Cwd, project.entry>>)' BY <1>1, <1>4 DEF LoaderInv, NothingLost
<1>6. ASSUME NEW g \in visited', NEW i \in DOMAIN project'.imports[g]
      PROVE  Settled(Imported(project, g, i))'
  <2>1. CASE g \in visited BY <1>1, <1>4, <1>6, <2>1 DEF LoaderInv, NothingLost, Imported
  <2>2. CASE g = f
    <3>1. i \in DOMAIN Imports(f) BY <1>1, <1>2, <1>6, <2>2
    <3>2. i \in DOMAIN todo' /\ todo'[i] = Imported(project, f, i) BY <1>2, <1>3, <3>1
    <3> QED BY <1>1, <2>2, <3>2 DEF Settled, Imported
  <2> QED BY <1>1, <2>1, <2>2
<1> QED BY <1>1, <1>5, <1>6 DEF NothingLost

LEMMA InvMerge == ASSUME LoaderInv, Merge PROVE LoaderInv'
<1>1. loading' # "loaded" BY MergeFacts
<1> QED BY <1>1, MergeKeepsState, MergeKeepsMerged, MergeKeepsReached, MergeLosesNothing
        DEF LoaderInv

-----------------------------------------------------------------------------

LEMMA LoaderInvNext == LoaderInv /\ [LoaderNext]_loader => LoaderInv'
<1> SUFFICES ASSUME LoaderInv, [LoaderNext]_loader PROVE LoaderInv'
  OBVIOUS
<1>1. CASE NotFound BY <1>1, InvFails DEF NotFound
<1>2. CASE AlreadyVisited BY <1>2, InvAlreadyVisited
<1>3. CASE Unreadable BY <1>3, InvFails DEF Unreadable
<1>4. CASE Garbled BY <1>4, InvFails DEF Garbled
<1>5. CASE Duplicate BY <1>5, InvFails DEF Duplicate
<1>6. CASE Merge BY <1>6, InvMerge
<1>7. CASE Finish BY <1>7, InvFinish
<1>8. CASE UNCHANGED loader BY <1>8, InvStays
<1> QED BY <1>1, <1>2, <1>3, <1>4, <1>5, <1>6, <1>7, <1>8 DEF LoaderNext

(* The import loader keeps its invariant whatever files import each other. *)
THEOREM LoaderInvariant == LoaderSpec => []LoaderInv
BY LoaderInvInit, LoaderInvNext, PTL DEF LoaderSpec

(* No top-level name and no file's items occur twice in a merged source,   *)
(* for all files, imports, cycles and spellings of paths.                  *)
THEOREM MergedSourceIsASet == LoaderSpec => []MergedOnce
<1>1. LoaderInv => MergedOnce BY DEF LoaderInv
<1> QED BY <1>1, LoaderInvariant, PTL

(* A loader that ends without an error has visited exactly the files the   *)
(* entry reaches.                                                          *)
THEOREM LoadedIsClosure == LoaderSpec => []LoadedIsReachable
<1>1. LoaderInv => LoadedIsReachable
  <2> SUFFICES ASSUME LoaderInv, loading = "loaded" PROVE visited = Reachable
    BY DEF LoadedIsReachable
  <2>1. visited \subseteq File /\ ProjectOK BY DEF LoaderInv, StateOK
  <2>2. \A path : Settled(path) => project.resolve[path] \in visited
    <3>1. todo = <<>> BY DEF LoaderInv
    <3> QED BY <3>1 DEF Settled
  <2>3. Closed(visited)
    BY <2>1, <2>2, ImportsArePaths DEF LoaderInv, NothingLost, Closed
  <2>4. Reachable \subseteq visited BY <2>1, <2>3 DEF Reachable
  <2>5. visited \subseteq Reachable BY <2>1 DEF Reachable, LoaderInv, OnlyReached
  <2> QED BY <2>4, <2>5
<1> QED BY <1>1, LoaderInvariant, PTL

=============================================================================
