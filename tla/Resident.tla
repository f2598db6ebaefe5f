------------------------------ MODULE Resident ------------------------------
(***************************************************************************)
(* The resident run-proto process (src/src/main.rs, cmd_run_proto): the    *)
(* loop that reads length-prefixed requests from a pipe until it closes,   *)
(* the cache of parsed knowledge files, and the branch a request applies   *)
(* to its clone of a store.  What the program then does on the VM is       *)
(* RunRequest; here it is the store the VM is given.                       *)
(*                                                                         *)
(* Beside the server run the client, which may die in the middle of a      *)
(* frame, and whoever edits or deletes the knowledge file, between the     *)
(* server's look at its modification time and its reading of it too.       *)
(***************************************************************************)
EXTENDS KnowledgeStore

CONSTANTS
  Path,        (* knowledge files a request may name                        *)
  NoPath,      (* a request without one                                     *)
  Doc,         (* the contents a file may have: sequences of Line           *)
  Requests,    (* requests the client may send                              *)
  Undecodable, (* a frame whose body is no request                          *)
  MaxFrames,   (* bound: frames the client sends                            *)
  MaxEdits,    (* bound: changes to files                                   *)
  MaxTicks     (* bound: ticks of the file system's clock                   *)

ASSUME RequestsAssumption ==
  /\ NoPath \notin Path /\ Undecodable \notin Requests
  /\ Requests \subseteq [compiles : BOOLEAN, path : Path \cup {NoPath},
                         exclude : Seq(Surface), assume : Seq(Line)]

ASSUME ResidentAssumption ==
  /\ Doc \subseteq Seq(Line)
  /\ MaxFrames \in Nat /\ MaxEdits \in Nat /\ MaxTicks \in Nat \ {0}

(* A modification time; NoTime stands for a file that cannot be examined.  *)
NoTime  == 0
Missing == [doc |-> <<>>, mtime |-> NoTime]

VARIABLES
  disk,      (* path -> contents and modification time                      *)
  clock,     (* the file system's clock, in its own ticks                   *)
  edits,
  sent,      (* complete frames in the pipe, read ones included             *)
  writing,   (* how much of the next frame is in the pipe: "nothing", a     *)
             (* part of its "length", or all of it and part of its "body"  *)
  closed,    (* the client's end of the pipe is gone                        *)
  phase,     (* where the server is                                         *)
  taken,     (* frames the server has read                                  *)
  stamp,     (* the modification time load_knowledge_cached looked up       *)
  loaded,    (* the store handed to the request's VM                        *)
  cache,     (* KNOWLEDGE_CACHE: path -> time and parsed store              *)
  replies,
  exit,      (* the process's exit code, Running before it ends             *)
  versions   (* history: what each file ever held, and when                 *)

fileVars   == <<disk, clock, edits, versions>>
pipeVars   == <<sent, writing, closed>>
serverVars == <<phase, taken, stamp, loaded, cache, replies, exit>>
vars == <<fileVars, pipeVars, serverVars>>

Running  == 2
NotCached == [time |-> NoTime, store |-> EmptyStore, held |-> FALSE]
Cached(m, st) == [time |-> m, store |-> st, held |-> TRUE]

Request == sent[taken]

-----------------------------------------------------------------------------
(* The file system.                                                        *)

Edit(p, d) == /\ edits < MaxEdits
              /\ edits' = edits + 1
              /\ disk' = [disk EXCEPT ![p] = [doc |-> d, mtime |-> clock]]
              /\ versions' = versions \cup {<<p, d, clock>>}
              /\ UNCHANGED clock

Delete(p) == /\ edits < MaxEdits /\ disk[p] # Missing
             /\ edits' = edits + 1
             /\ disk' = [disk EXCEPT ![p] = Missing]
             /\ UNCHANGED <<clock, versions>>

Tick == /\ clock < MaxTicks
        /\ clock' = clock + 1
        /\ UNCHANGED <<disk, edits, versions>>

FilesChange == /\ \/ \E p \in Path : Delete(p) \/ \E d \in Doc : Edit(p, d)
                  \/ Tick
               /\ UNCHANGED <<pipeVars, serverVars>>

-----------------------------------------------------------------------------
(* The client.  A frame goes out as the four bytes of its length and then  *)
(* its body, and the client may stop anywhere.                             *)

Open == ~closed /\ Len(sent) < MaxFrames

WriteSome == /\ Open
             /\ \/ writing = "nothing" /\ writing' = "length"
                \/ writing = "length" /\ writing' = "body"
             /\ UNCHANGED <<sent, closed>>

WriteRest == /\ Open /\ writing = "body"
             /\ \E r \in Requests \cup {Undecodable} : sent' = Append(sent, r)
             /\ writing' = "nothing"
             /\ UNCHANGED closed

Close == ~closed /\ closed' = TRUE /\ UNCHANGED <<sent, writing>>

ClientActs == (WriteSome \/ WriteRest \/ Close) /\ UNCHANGED <<fileVars, serverVars>>

-----------------------------------------------------------------------------
(* The server's loop.                                                      *)

Unread == taken < Len(sent)

ReadLength == /\ phase = "length"
              /\ Unread \/ writing = "body"
              /\ phase' = "body"
              /\ stamp' = NoTime /\ loaded' = EmptyStore
              /\ UNCHANGED <<taken, cache, replies, exit>>

EndOfInputRetried == /\ phase = "length"                        \* mutant
                     /\ closed /\ ~Unread /\ writing # "body"
                     /\ UNCHANGED serverVars

(* read_exact reports an end of input after no byte and after three alike. *)
EndOfInput == /\ phase = "length"
              /\ closed /\ ~Unread /\ writing # "body"
              /\ phase' = "exited" /\ exit' = 0
              /\ UNCHANGED <<taken, stamp, loaded, cache, replies>>

ReadBody == /\ phase = "body" /\ Unread
            /\ taken' = taken + 1
            /\ IF sent[taken + 1] = Undecodable
               THEN phase' = "exited" /\ exit' = 1
               ELSE phase' = "compile" /\ UNCHANGED exit
            /\ UNCHANGED <<stamp, loaded, cache, replies>>

CutBodyIgnored == phase' = "exited" /\ exit' = 0                 \* mutant
CutBodyFatal   == phase' = "exited" /\ exit' = 1
CutBody == /\ phase = "body" /\ closed /\ ~Unread
           /\ CutBodyFatal
           /\ UNCHANGED <<taken, stamp, loaded, cache, replies>>

-----------------------------------------------------------------------------
(* run_request_result up to the program's first step.                      *)

Says(kind, excluded, assumed) ==
  replies' = Append(replies, [kind |-> kind, excluded |-> excluded,
                              assumed |-> assumed])
FailsSilently(kind) == /\ phase' = "length"                      \* mutant
                       /\ loaded' = EmptyStore
                       /\ UNCHANGED <<stamp, cache, replies>>
Fails(kind) == /\ phase' = "length"
               /\ loaded' = EmptyStore
               /\ Says(kind, <<>>, 0)
               /\ UNCHANGED <<stamp, cache>>

Compile ==
  /\ phase = "compile"
  /\ \/ ~Request.compiles /\ Fails("compile")
     \/ Request.compiles /\ Request.path = NoPath /\ phase' = "branch"
          /\ loaded' = EmptyStore /\ UNCHANGED <<stamp, cache, replies>>
     \/ Request.compiles /\ Request.path # NoPath /\ phase' = "stat"
          /\ UNCHANGED <<stamp, loaded, cache, replies>>
  /\ UNCHANGED <<taken, exit>>

(* load_knowledge_cached: the time is looked up, a cached store of that    *)
(* time is cloned, and otherwise the file is read, later.                  *)
AlwaysFresh(entry, m) == entry.held                              \* mutant
Fresh(entry, m) == entry.held /\ entry.time = m

Stat == LET p == Request.path
            m == disk[p].mtime
        IN /\ phase = "stat"
           /\ stamp' = m
           /\ \/ Fresh(cache[p], m) /\ loaded' = cache[p].store /\ phase' = "branch"
              \/ ~Fresh(cache[p], m) /\ phase' = "read" /\ UNCHANGED loaded
           /\ UNCHANGED <<taken, cache, replies, exit>>

Parsed == [d \in Doc \cup {<<>>} |-> LoadJsonl(EmptyStore, d)]

(* Through error paths the VM keeps the empty store it was made with.      *)
ReadFile ==
  LET p == Request.path
      r == Parsed[disk[p].doc]
  IN /\ phase = "read"
     /\ IF disk[p] = Missing \/ r.bad THEN Fails("knowledge")
        ELSE /\ cache' = [cache EXCEPT ![p] = Cached(stamp, r.store)]
             /\ loaded' = r.store
             /\ phase' = "branch"
             /\ UNCHANGED <<stamp, replies>>
     /\ UNCHANGED <<taken, exit>>

(* apply_branch: each excluded name is echoed once per key it removed, and *)
(* assumptions come after exclusions.                                      *)
Exclude(b, s) ==
  [store |-> Without(b.store, s),
   echo  |-> b.echo \o [i \in 1 .. Cardinality(Removed(b.store, s)) |-> Normalize[s]]]
AfterNames(st, names) ==
  LET after[i \in 0 .. Len(names)] ==
        IF i = 0 THEN [store |-> st, echo |-> <<>>]
        ELSE Exclude(after[i - 1], names[i])
  IN after
Excluding(st, names) == AfterNames(st, names)[Len(names)]

BranchOnCache(st) ==                                             \* mutant
  IF Request.path \in Path /\ cache[Request.path].held
  THEN cache' = [cache EXCEPT ![Request.path].store = st]
  ELSE UNCHANGED cache
BranchOnClone(st) == UNCHANGED cache

Branch ==
  LET e == Excluding(loaded, Request.exclude)
      a == LoadJsonl(e.store, Request.assume)
  IN /\ phase = "branch"
     /\ loaded' = a.store
     /\ IF a.bad THEN Says("assume", <<>>, 0) ELSE Says("served", e.echo, a.count)
     /\ phase' = "length"
     /\ BranchOnClone(a.store)
     /\ UNCHANGED <<taken, stamp, exit>>

Serve == \/ ReadLength \/ EndOfInput \/ ReadBody \/ CutBody
         \/ Compile \/ Stat \/ ReadFile \/ Branch
ServerActs == Serve /\ UNCHANGED <<fileVars, pipeVars>>

Gone == phase = "exited" /\ UNCHANGED vars

-----------------------------------------------------------------------------

Init ==
  /\ disk = [p \in Path |-> Missing] /\ clock = 1 /\ edits = 0
  /\ versions = {}
  /\ sent = <<>> /\ writing = "nothing" /\ closed = FALSE
  /\ phase = "length" /\ taken = 0 /\ stamp = NoTime /\ loaded = EmptyStore
  /\ cache = [p \in Path |-> NotCached] /\ replies = <<>> /\ exit = Running

Next == FilesChange \/ ClientActs \/ ServerActs \/ Gone

(* The server runs whenever it is not blocked in a read; nothing is asked  *)
(* of the client or of the file system.                                    *)
Spec == Init /\ [][Next]_vars /\ WF_vars(ServerActs)

-----------------------------------------------------------------------------

ResidentTypeOK ==
  /\ disk \in [Path -> [doc : Doc \cup {<<>>}, mtime : 0 .. MaxTicks]]
  /\ clock \in 1 .. MaxTicks /\ edits \in 0 .. MaxEdits
  /\ \A v \in versions : v[1] \in Path /\ v[2] \in Doc /\ v[3] \in 1 .. clock
  /\ Len(sent) <= MaxFrames /\ taken \in 0 .. Len(sent)
  /\ writing \in {"nothing", "length", "body"} /\ closed \in BOOLEAN
  /\ phase \in {"length", "body", "compile", "stat", "read", "branch", "exited"}
  /\ stamp \in 0 .. MaxTicks
  /\ loaded \in Store
  /\ \A p \in Path : cache[p].time \in 0 .. MaxTicks /\ cache[p].store \in Store
  /\ exit \in {0, 1, Running} /\ (exit # Running <=> phase = "exited")

(* No branch ever reaches the original: a cached store is what some        *)
(* version of its file says, with nothing excluded and nothing assumed.    *)
States(d, st) == ~Parsed[d].bad /\ Parsed[d].store = st
CacheIsPristine ==
  \A p \in Path : cache[p].held =>
    \E v \in versions : v[1] = p /\ States(v[2], cache[p].store)

(* The cache compares times, not contents, so an edit within one tick of   *)
(* the parse is missed; nothing older than that is ever served.  (The      *)
(* modification time is looked up before the file is read: the other order *)
(* would serve a stale store for ever.)                                    *)
StaleOnlyWithinTick ==
  [][phase = "stat" /\ phase' = "branch" /\ disk[Request.path] # Missing
       => \E v \in versions : /\ v[1] = Request.path
                              /\ v[3] = disk[Request.path].mtime
                              /\ States(v[2], loaded')]_vars

(* An excluded name abstains, and with it every name tied to it by an     *)
(* alias in force: what was said not to have happened is nowhere left,     *)
(* whichever of its names it was excluded by and whatever was excluded     *)
(* before it.  An alias is in force when it was taken and no later line    *)
(* writes either of its keys; later words of the branch itself are not     *)
(* excluded by it, so the branch assumes nothing here.                     *)
Writes(l) == IF l.kind \in {"fact", "alias"} THEN {Normalize[l.name]} ELSE {}
Ties(l)   == {Normalize[l.name], Normalize[l.of]}
InForce(d, i) ==
  /\ d[i].kind = "alias"
  /\ CanAlias(AfterLines(EmptyStore, d)[i - 1].store, d[i].name, d[i].of)
  /\ \A j \in i + 1 .. Len(d) : Writes(d[j]) \cap Ties(d[i]) = {}
KinIn(d, s) ==
  {Normalize[s]} \cup UNION {Ties(d[i]) : i \in {j \in DOMAIN d :
                              InForce(d, j) /\ Normalize[s] \in Ties(d[j])}}
ReadFrom(p, st) == {v[2] : v \in {w \in versions : w[1] = p /\ States(w[2], st)}}
ExclusionReachesAliases ==
  [][phase = "branch" /\ phase' = "length" /\ Request.path # NoPath
       /\ Request.assume = <<>>
       => \A d \in ReadFrom(Request.path, loaded) :
            \A i \in DOMAIN Request.exclude :
              \A k \in KinIn(d, Request.exclude[i]) : ~Holds(loaded', k)]_vars

(* The process ends with 0 only if every frame it was sent was answered    *)
(* and the client did not die inside the body of another.                  *)
CleanExitMeansDone ==
  exit = 0 => Len(replies) = Len(sent) /\ writing # "body"

(* Liveness: the server always catches up with the requests sent whole,    *)
(* unless one of them cannot be decoded; and the process does not outlive  *)
(* its client.                                                             *)
Garbled == \E i \in DOMAIN sent : sent[i] = Undecodable
EveryFrameAnswered == []<>(Len(replies) = Len(sent) \/ Garbled)
ExitsWithClient == closed ~> phase = "exited"

=============================================================================
