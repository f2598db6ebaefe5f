--------------------------- MODULE ResidentProofs ---------------------------
(***************************************************************************)
(* Proofs about the resident process, for every set of files, documents    *)
(* and requests and every bound: the cached stores are what a version of   *)
(* their file says, a stale one is at most a clock tick old, and a clean   *)
(* exit leaves nothing unanswered.                                         *)
(***************************************************************************)
EXTENDS Resident, SharedLemmas, FiniteSetTheorems, TLAPS

Phases  == {"length", "body", "compile", "stat", "read", "branch", "exited"}
Serving == {"compile", "stat", "read", "branch"}

(* What the pipe and the loop know of each other.                          *)
PipeInv ==
  /\ sent \in Seq(Requests \cup {Undecodable})
  /\ taken \in 0 .. Len(sent)
  /\ phase \in Phases
  /\ phase \in Serving => taken > 0 /\ sent[taken] \in Requests
  /\ phase \in {"stat", "read"} => sent[taken].path \in Path

(* Replies keep pace with the frames read, and only an end of input at a   *)
(* frame boundary ends the process with 0.                                 *)
Recorded == \E S : replies \in Seq(S)
Answers  == Len(replies)

ReplyInv ==
  /\ Recorded
  /\ phase \in Serving => Answers = taken - 1
  /\ phase \in {"length", "body"} => Answers = taken
  /\ phase # "exited" => exit = Running
  /\ exit = 0 => /\ closed = TRUE /\ taken = Len(sent) /\ Answers = taken
                 /\ writing # "body"

(* A step that answers nothing.                                            *)
LEMMA Quiet ==
  ASSUME Recorded, UNCHANGED replies
  PROVE  Recorded' /\ Answers' = Answers
BY DEF Recorded, Answers

LEMMA Answered ==
  ASSUME Recorded, NEW a, replies' = Append(replies, a)
  PROVE  Recorded' /\ Answers' = Answers + 1
<1>1. PICK S : replies \in Seq(S)
  BY DEF Recorded
<1>2. replies \in Seq(S \cup {a})
  BY <1>1
<1> QED BY <1>2 DEF Recorded, Answers

LEMMA InitPipe == Init => PipeInv /\ ReplyInv
<1> SUFFICES ASSUME Init PROVE PipeInv /\ ReplyInv
  OBVIOUS
<1>1. PipeInv
  BY DEF Init, PipeInv, Phases, Serving
<1>2. replies \in Seq({}) /\ Len(replies) = 0
  BY DEF Init
<1>3. Recorded /\ Answers = 0
  BY <1>2 DEF Recorded, Answers
<1>4. ReplyInv
  BY <1>3 DEF Init, ReplyInv, Serving, Running
<1> QED BY <1>1, <1>4

LEMMA FilesKeepPipe ==
  ASSUME PipeInv, ReplyInv, FilesChange
  PROVE  PipeInv' /\ ReplyInv'
<1>1. UNCHANGED <<sent, writing, closed, phase, taken, replies, exit>>
  BY DEF FilesChange, pipeVars, serverVars
<1>2. Recorded' /\ Answers' = Answers
  BY <1>1, Quiet DEF ReplyInv
<1> QED BY <1>1, <1>2 DEF PipeInv, ReplyInv

(* The client only adds to the pipe, and not after it has closed it.       *)
LEMMA ClientKeepsPipe ==
  ASSUME PipeInv, ReplyInv, ClientActs
  PROVE  PipeInv' /\ ReplyInv'
<1>1. UNCHANGED <<phase, taken, replies, exit>>
  BY DEF ClientActs, serverVars
<1>2. Recorded' /\ Answers' = Answers
  BY <1>1, Quiet DEF ReplyInv
<1>3. CASE WriteSome \/ Close
  <2>1. UNCHANGED sent /\ (closed = TRUE => closed' = TRUE /\ UNCHANGED writing)
    BY <1>3 DEF WriteSome, Close, Open
  <2> QED BY <1>1, <1>2, <2>1 DEF PipeInv, ReplyInv
<1>4. CASE WriteRest
  <2>1. PICK r \in Requests \cup {Undecodable} : sent' = Append(sent, r)
    BY <1>4 DEF WriteRest
  <2>2. /\ sent' \in Seq(Requests \cup {Undecodable})
        /\ Len(sent') = Len(sent) + 1
        /\ \A i \in 1 .. Len(sent) : sent'[i] = sent[i]
    BY <2>1 DEF PipeInv
  <2>3. closed # TRUE
    BY <1>4 DEF WriteRest, Open
  <2>4. phase \in Serving => taken \in 1 .. Len(sent)
    BY DEF PipeInv
  <2>5. PipeInv'
    BY <1>1, <2>2, <2>4 DEF PipeInv, Serving
  <2>6. ReplyInv'
    BY <1>1, <1>2, <2>3 DEF ReplyInv
  <2> QED BY <2>5, <2>6
<1> QED BY <1>3, <1>4 DEF ClientActs

LEMMA FailsKeepsPipe ==
  ASSUME PipeInv, ReplyInv, phase \in Serving, NEW k, Fails(k),
         UNCHANGED <<taken, exit, sent, writing, closed>>
  PROVE  PipeInv' /\ ReplyInv'
<1>1. Recorded' /\ Answers' = Answers + 1
  BY Answered DEF Fails, Says, ReplyInv
<1>2. phase' = "length"
  BY DEF Fails
<1>3. PipeInv'
  BY <1>2 DEF PipeInv, Phases, Serving
<1>4. ReplyInv'
  BY <1>1, <1>2 DEF ReplyInv, PipeInv, Serving, Running
<1> QED BY <1>3, <1>4

(* A step of the loop that answers nothing and moves on from phase to      *)
(* phase'.                                                                 *)
LEMMA MovesOn ==
  ASSUME PipeInv, ReplyInv, UNCHANGED <<taken, replies, exit, sent, writing, closed>>,
         \/ phase = "length" /\ phase' = "body"
         \/ phase \in Serving /\ phase' \in Serving
         \/ phase = "exited" /\ phase' = "exited",
         phase' \in {"stat", "read"} => sent[taken].path \in Path
  PROVE  PipeInv' /\ ReplyInv'
<1>1. Recorded' /\ Answers' = Answers
  BY Quiet DEF ReplyInv
<1>2. PipeInv'
  BY DEF PipeInv, Phases, Serving
<1>3. Running # 0
  BY DEF Running
<1>4. ReplyInv'
  BY <1>1, <1>3 DEF ReplyInv, Serving
<1> QED BY <1>2, <1>4

LEMMA ServerKeepsPipe ==
  ASSUME PipeInv, ReplyInv, ServerActs
  PROVE  PipeInv' /\ ReplyInv'
<1>1. UNCHANGED <<sent, writing, closed>>
  BY DEF ServerActs, pipeVars
<1>2. CASE ReadLength
  BY <1>1, <1>2, MovesOn DEF ReadLength
<1>3. CASE EndOfInput \/ CutBody
  <2>1. Recorded' /\ Answers' = Answers
    BY <1>3, Quiet DEF EndOfInput, CutBody, ReplyInv
  <2>2. phase' = "exited" /\ UNCHANGED taken
    BY <1>3 DEF EndOfInput, CutBody, CutBodyFatal
  <2>3. PipeInv'
    BY <1>1, <2>2 DEF PipeInv, Phases, Serving
  <2>4. CASE EndOfInput
    <3>1. phase = "length" /\ closed = TRUE /\ ~Unread /\ writing # "body"
      BY <2>4 DEF EndOfInput
    <3>2. taken = Len(sent)
      BY <3>1 DEF Unread, PipeInv
    <3>3. ReplyInv'
      BY <1>1, <2>1, <2>2, <3>1, <3>2 DEF ReplyInv, Serving
    <3> QED BY <2>3, <3>3
  <2>5. CASE CutBody
    <3>1. exit' = 1
      BY <2>5 DEF CutBody, CutBodyFatal
    <3>2. ReplyInv'
      BY <2>1, <2>2, <3>1 DEF ReplyInv, Serving
    <3> QED BY <2>3, <3>2
  <2> QED BY <1>3, <2>4, <2>5
<1>4. CASE ReadBody
  <2>1. Recorded' /\ Answers' = Answers
    BY <1>4, Quiet DEF ReadBody, ReplyInv
  <2>2. taken + 1 \in 1 .. Len(sent) /\ taken' = taken + 1 /\ phase = "body"
    BY <1>4 DEF ReadBody, Unread, PipeInv
  <2>3. sent[taken + 1] \in Requests \cup {Undecodable}
    BY <2>2 DEF PipeInv
  <2>4. \/ phase' = "exited" /\ exit' = 1
        \/ phase' = "compile" /\ UNCHANGED exit /\ sent[taken + 1] # Undecodable
    BY <1>4 DEF ReadBody
  <2>5. PipeInv'
    BY <1>1, <2>2, <2>3, <2>4 DEF PipeInv, Phases, Serving
  <2>6. Answers' = taken' - 1
    BY <2>1, <2>2 DEF ReplyInv, PipeInv
  <2>7. exit' # 0 /\ (phase' # "exited" => exit' = Running)
    BY <2>2, <2>4 DEF ReplyInv, Running
  <2>8. ReplyInv'
    BY <2>1, <2>4, <2>6, <2>7 DEF ReplyInv, Serving
  <2> QED BY <2>5, <2>8
<1>5. CASE Compile
  <2>1. phase \in Serving /\ UNCHANGED <<taken, exit>>
    BY <1>5 DEF Compile, Serving
  <2>2. CASE Fails("compile")
    BY <1>1, <2>1, <2>2, FailsKeepsPipe
  <2>3. CASE ~Fails("compile")
    <3>1. Request.path \in Path \cup {NoPath}
      BY <2>1, RequestsAssumption DEF PipeInv, Request
    <3>2. /\ phase' \in {"branch", "stat"} /\ UNCHANGED replies
          /\ phase' = "stat" => Request.path # NoPath
      BY <1>5, <2>3 DEF Compile
    <3> QED BY <1>1, <2>1, <3>1, <3>2, MovesOn DEF Serving, Request
  <2> QED BY <2>2, <2>3
<1>6. CASE Stat
  <2>1. phase = "stat" /\ phase' \in {"branch", "read"} /\ UNCHANGED <<taken, replies, exit>>
    BY <1>6 DEF Stat
  <2> QED BY <1>1, <2>1, MovesOn DEF PipeInv, Serving
<1>7. CASE ReadFile
  <2>1. phase \in Serving /\ UNCHANGED <<taken, exit>>
    BY <1>7 DEF ReadFile, Serving
  <2>2. CASE Fails("knowledge")
    BY <1>1, <2>1, <2>2, FailsKeepsPipe
  <2>3. CASE ~Fails("knowledge")
    <3>1. phase' = "branch" /\ UNCHANGED replies
      BY <1>7, <2>3 DEF ReadFile
    <3> QED BY <1>1, <2>1, <3>1, MovesOn DEF Serving
  <2> QED BY <2>2, <2>3
<1>8. CASE Branch
  <2>1. Recorded' /\ Answers' = Answers + 1
    <3>1. \E a : replies' = Append(replies, a)
      BY <1>8 DEF Branch, Says
    <3> QED BY <3>1, Answered DEF ReplyInv
  <2>2. phase = "branch" /\ phase' = "length" /\ UNCHANGED <<taken, exit>>
    BY <1>8 DEF Branch
  <2>3. PipeInv'
    BY <1>1, <2>2 DEF PipeInv, Phases, Serving
  <2>4. ReplyInv'
    BY <1>1, <2>1, <2>2 DEF ReplyInv, PipeInv, Serving, Running
  <2> QED BY <2>3, <2>4
<1> QED BY <1>2, <1>3, <1>4, <1>5, <1>6, <1>7, <1>8 DEF ServerActs, Serve

LEMMA NextKeepsPipe == PipeInv /\ ReplyInv /\ [Next]_vars => PipeInv' /\ ReplyInv'
<1> SUFFICES ASSUME PipeInv, ReplyInv, [Next]_vars PROVE PipeInv' /\ ReplyInv'
  OBVIOUS
<1>1. CASE UNCHANGED vars
  <2>1. UNCHANGED <<sent, writing, closed, phase, taken, replies, exit>>
    BY <1>1 DEF vars, pipeVars, serverVars
  <2>2. Recorded' /\ Answers' = Answers
    BY <2>1, Quiet DEF ReplyInv
  <2> QED BY <2>1, <2>2 DEF PipeInv, ReplyInv
<1>2. CASE Next
  BY <1>1, <1>2, FilesKeepPipe, ClientKeepsPipe, ServerKeepsPipe DEF Next, Gone
<1> QED BY <1>1, <1>2

(* The exit code of the process means what the client takes it to mean.    *)
THEOREM CleanExitAlwaysDone == Spec => []CleanExitMeansDone
<1>1. PipeInv /\ ReplyInv => CleanExitMeansDone
  BY DEF PipeInv, ReplyInv, Answers, CleanExitMeansDone
<1> QED BY <1>1, InitPipe, NextKeepsPipe, PTL DEF Spec

-----------------------------------------------------------------------------
(* Files and what the cache holds of them.  A pending look-up and a cached *)
(* store are stamped no later than the contents they stand for; the        *)
(* contents a file has now are the latest it ever had.                     *)

FileInv ==
  /\ clock \in Nat /\ clock > 0
  /\ disk \in [Path -> [doc : Doc \cup {<<>>}, mtime : Nat]]
  /\ \A v \in versions : /\ v \in Path \X Doc \X Nat
                         /\ v[3] > 0 /\ v[3] <= clock
  /\ \A p \in Path : disk[p] # Missing =>
       /\ <<p, disk[p].doc, disk[p].mtime>> \in versions
       /\ \A v \in versions : v[1] = p => v[3] <= disk[p].mtime

StampInv ==
  /\ stamp \in Nat /\ stamp <= clock
  /\ (phase = "read" /\ disk[Request.path] # Missing)
       => stamp <= disk[Request.path].mtime

CacheInv ==
  /\ DOMAIN cache = Path
  /\ \A p \in Path : cache[p].held =>
       /\ cache[p].time \in Nat
       /\ \E v \in versions : /\ v[1] = p /\ v[3] >= cache[p].time
                              /\ States(v[2], cache[p].store)

KeptInv == FileInv /\ StampInv /\ CacheInv

LEMMA InitKept == Init => KeptInv
<1> SUFFICES ASSUME Init PROVE KeptInv
  OBVIOUS
<1>1. FileInv
  BY DEF Init, FileInv, Missing, NoTime
<1>2. StampInv
  BY DEF Init, StampInv, NoTime
<1>3. CacheInv
  BY DEF Init, CacheInv, NotCached
<1> QED BY <1>1, <1>2, <1>3 DEF KeptInv

(* Versions are never forgotten, so a cached store keeps its witness.      *)
LEMMA WitnessKept ==
  ASSUME CacheInv, UNCHANGED cache, versions \subseteq versions'
  PROVE  CacheInv'
BY DEF CacheInv, States

LEMMA EditKeeps ==
  ASSUME KeptInv, PipeInv, NEW p \in Path, NEW d \in Doc, Edit(p, d),
         UNCHANGED <<pipeVars, serverVars>>
  PROVE  KeptInv'
<1>1. /\ disk' = [disk EXCEPT ![p] = [doc |-> d, mtime |-> clock]]
      /\ versions' = versions \cup {<<p, d, clock>>}
      /\ clock' = clock /\ clock \in Nat /\ clock > 0
      /\ UNCHANGED <<sent, taken, phase, stamp, cache>>
  BY DEF Edit, KeptInv, FileInv, pipeVars, serverVars
<1>2. \A q \in Path : disk'[q] = IF q = p THEN [doc |-> d, mtime |-> clock] ELSE disk[q]
  BY <1>1 DEF KeptInv, FileInv
<1>3. FileInv'
  <2>1. disk' \in [Path -> [doc : Doc \cup {<<>>}, mtime : Nat]]
    BY <1>1 DEF KeptInv, FileInv
  <2>2. \A v \in versions' : v \in Path \X Doc \X Nat /\ v[3] > 0 /\ v[3] <= clock
    BY <1>1 DEF KeptInv, FileInv
  <2>3. \A q \in Path : disk'[q] # Missing =>
          /\ <<q, disk'[q].doc, disk'[q].mtime>> \in versions'
          /\ \A v \in versions' : v[1] = q => v[3] <= disk'[q].mtime
    <3> TAKE q \in Path
    <3>1. CASE q = p
      BY <1>1, <1>2, <2>2, <3>1
    <3>2. CASE q # p
      BY <1>1, <1>2, <3>2 DEF KeptInv, FileInv
    <3> QED BY <3>1, <3>2
  <2> QED BY <1>1, <2>1, <2>2, <2>3 DEF FileInv
<1>4. StampInv'
  <2>1. ASSUME phase = "read" PROVE Request' = Request /\ Request.path \in Path
    BY <1>1, <2>1 DEF Request, PipeInv
  <2> QED BY <1>1, <1>2, <2>1 DEF KeptInv, StampInv
<1>5. CacheInv'
  BY <1>1, WitnessKept DEF KeptInv
<1> QED BY <1>3, <1>4, <1>5 DEF KeptInv

LEMMA DeleteKeeps ==
  ASSUME KeptInv, PipeInv, NEW p \in Path, Delete(p), UNCHANGED <<pipeVars, serverVars>>
  PROVE  KeptInv'
<1>1. /\ disk' = [disk EXCEPT ![p] = Missing]
      /\ UNCHANGED <<clock, versions, sent, taken, phase, stamp, cache>>
  BY DEF Delete, pipeVars, serverVars
<1>2. \A q \in Path : disk'[q] = IF q = p THEN Missing ELSE disk[q]
  BY <1>1 DEF KeptInv, FileInv
<1>3. FileInv'
  <2>1. disk' \in [Path -> [doc : Doc \cup {<<>>}, mtime : Nat]]
    BY <1>1 DEF KeptInv, FileInv, Missing, NoTime
  <2> QED BY <1>1, <1>2, <2>1 DEF KeptInv, FileInv
<1>4. StampInv'
  <2>1. ASSUME phase = "read" PROVE Request' = Request /\ Request.path \in Path
    BY <1>1, <2>1 DEF Request, PipeInv
  <2> QED BY <1>1, <1>2, <2>1 DEF KeptInv, StampInv
<1>5. CacheInv'
  BY <1>1, WitnessKept DEF KeptInv
<1> QED BY <1>3, <1>4, <1>5 DEF KeptInv

LEMMA TickKeeps ==
  ASSUME KeptInv, Tick, UNCHANGED <<pipeVars, serverVars>>
  PROVE  KeptInv'
<1>1. /\ clock' = clock + 1
      /\ UNCHANGED <<disk, versions, sent, taken, phase, stamp, cache>>
  BY DEF Tick, pipeVars, serverVars
<1>2. FileInv'
  BY <1>1 DEF KeptInv, FileInv
<1>3. StampInv'
  BY <1>1 DEF KeptInv, FileInv, StampInv, Request
<1>4. CacheInv'
  BY <1>1, WitnessKept DEF KeptInv
<1> QED BY <1>2, <1>3, <1>4 DEF KeptInv

LEMMA ClientKeeps ==
  ASSUME KeptInv, PipeInv, ClientActs
  PROVE  KeptInv'
<1>1. UNCHANGED <<disk, clock, versions, taken, phase, stamp, cache>>
  BY DEF ClientActs, fileVars, serverVars
<1>2. ASSUME phase = "read" PROVE Request' = Request
  <2>1. taken \in 1 .. Len(sent) /\ sent \in Seq(Requests \cup {Undecodable})
    BY <1>2 DEF PipeInv, Serving
  <2>2. CASE WriteSome \/ Close
    BY <1>1, <2>2 DEF WriteSome, Close, Request
  <2>3. CASE WriteRest
    <3>1. PICK r \in Requests \cup {Undecodable} : sent' = Append(sent, r)
      BY <2>3 DEF WriteRest
    <3>2. sent'[taken] = sent[taken]
      BY <2>1, <3>1
    <3> QED BY <1>1, <3>2 DEF Request
  <2> QED BY <2>2, <2>3 DEF ClientActs
<1>3. FileInv'
  BY <1>1 DEF KeptInv, FileInv
<1>4. StampInv'
  BY <1>1, <1>2 DEF KeptInv, StampInv
<1>5. CacheInv'
  BY <1>1, WitnessKept DEF KeptInv
<1> QED BY <1>3, <1>4, <1>5 DEF KeptInv

(* What the read finds is stamped no later than it was written.            *)
LEMMA ReadKeepsCache ==
  ASSUME KeptInv, PipeInv, ReadFile, UNCHANGED fileVars
  PROVE  CacheInv'
<1>1. UNCHANGED versions /\ phase = "read" /\ Request.path \in Path
  BY DEF fileVars, ReadFile, PipeInv, Request
<1>2. CASE UNCHANGED cache
  BY <1>1, <1>2, WitnessKept DEF KeptInv
<1>3. CASE cache' # cache
  <2> DEFINE q == Request.path
             r == Parsed[disk[q].doc]
  <2>1. /\ disk[q] # Missing /\ ~r.bad
        /\ cache' = [cache EXCEPT ![q] = Cached(stamp, r.store)]
    BY <1>3 DEF ReadFile, Fails
  <2>2. /\ <<q, disk[q].doc, disk[q].mtime>> \in versions
        /\ stamp \in Nat /\ stamp <= disk[q].mtime /\ disk[q].mtime \in Nat
    BY <1>1, <2>1 DEF KeptInv, FileInv, StampInv
  <2>3. States(disk[q].doc, r.store)
    BY <2>1 DEF States
  <2>4. /\ DOMAIN cache' = Path
        /\ \A p \in Path : cache'[p] = IF p = q THEN Cached(stamp, r.store) ELSE cache[p]
    BY <1>1, <2>1 DEF KeptInv, CacheInv
  <2>5. ASSUME NEW p \in Path, cache'[p].held
        PROVE  /\ cache'[p].time \in Nat
               /\ \E v \in versions : /\ v[1] = p /\ v[3] >= cache'[p].time
                                      /\ States(v[2], cache'[p].store)
    <3>1. CASE p = q
      <4>1. /\ cache'[p].time = stamp /\ cache'[p].store = r.store
        BY <2>4, <3>1 DEF Cached
      <4> DEFINE w == <<q, disk[q].doc, disk[q].mtime>>
      <4>2. w \in versions /\ w[1] = p /\ w[2] = disk[q].doc /\ w[3] >= stamp
        BY <2>2, <3>1
      <4> QED BY <2>2, <2>3, <4>1, <4>2
    <3>2. CASE p # q
      BY <2>4, <2>5, <3>2 DEF KeptInv, CacheInv
    <3> QED BY <3>1, <3>2
  <2> QED BY <1>1, <2>4, <2>5 DEF CacheInv, States
<1> QED BY <1>2, <1>3

LEMMA ServerKeeps ==
  ASSUME KeptInv, PipeInv, ServerActs
  PROVE  KeptInv'
<1>1. UNCHANGED <<disk, clock, versions, sent>>
  BY DEF ServerActs, fileVars, pipeVars
<1>2. FileInv'
  BY <1>1 DEF KeptInv, FileInv
<1>3. StampInv'
  <2>1. CASE Stat
    <3>1. Request.path \in Path /\ stamp' = disk[Request.path].mtime /\ UNCHANGED taken
      BY <2>1 DEF Stat, PipeInv, Request
    <3>2. stamp' \in Nat /\ stamp' <= clock
      <4>1. CASE disk[Request.path] = Missing
        BY <3>1, <4>1 DEF KeptInv, FileInv, Missing, NoTime
      <4>2. CASE disk[Request.path] # Missing
        BY <3>1, <4>2 DEF KeptInv, FileInv
      <4> QED BY <4>1, <4>2
    <3> QED BY <1>1, <3>1, <3>2 DEF StampInv, Request
  <2>2. CASE ~Stat
    <3>1. phase' # "read" /\ stamp' \in {stamp, NoTime}
      BY <2>2 DEF ServerActs, Serve, ReadLength, EndOfInput, ReadBody, CutBody,
                  CutBodyFatal, Compile, Fails, ReadFile, Branch
    <3> QED BY <1>1, <3>1 DEF KeptInv, StampInv, FileInv, NoTime
  <2> QED BY <2>1, <2>2
<1>4. CacheInv'
  <2>1. CASE ReadFile
    BY <2>1, ReadKeepsCache DEF ServerActs
  <2>2. CASE ~ReadFile
    <3>1. UNCHANGED cache
      BY <2>2 DEF ServerActs, Serve, ReadLength, EndOfInput, ReadBody, CutBody,
                  Compile, Fails, Stat, Branch, BranchOnClone
    <3> QED BY <1>1, <3>1, WitnessKept DEF KeptInv
  <2> QED BY <2>1, <2>2
<1> QED BY <1>2, <1>3, <1>4 DEF KeptInv

LEMMA StutterKeeps ==
  ASSUME KeptInv, UNCHANGED vars
  PROVE  KeptInv'
<1>1. UNCHANGED <<disk, clock, versions, sent, taken, phase, stamp, cache>>
  BY DEF vars, fileVars, pipeVars, serverVars
<1>2. CacheInv'
  BY <1>1, WitnessKept DEF KeptInv
<1> QED BY <1>1, <1>2 DEF KeptInv, FileInv, StampInv, Request

LEMMA NextKeeps == KeptInv /\ PipeInv /\ [Next]_vars => KeptInv'
<1> SUFFICES ASSUME KeptInv, PipeInv, [Next]_vars PROVE KeptInv'
  OBVIOUS
<1>1. CASE FilesChange
  BY <1>1, EditKeeps, DeleteKeeps, TickKeeps DEF FilesChange
<1> QED BY <1>1, ClientKeeps, ServerKeeps, StutterKeeps DEF Next, Gone

LEMMA ServiceInvariant == Spec => [](PipeInv /\ ReplyInv /\ KeptInv)
<1> QED BY InitPipe, InitKept, NextKeepsPipe, NextKeeps, PTL DEF Spec

(* No branch ever reaches the store it was cloned from.                    *)
THEOREM CacheAlwaysPristine == Spec => []CacheIsPristine
<1>1. KeptInv => CacheIsPristine
  BY DEF KeptInv, CacheInv, CacheIsPristine
<1> QED BY <1>1, ServiceInvariant, PTL

(* A cache hit is as old as one tick of the file system's clock: the time  *)
(* looked up is that of the contents now on disk, and no version of the    *)
(* file is later, so the version the cached store was read from is one of  *)
(* that very tick.                                                         *)
THEOREM NeverStalePastATick == Spec => StaleOnlyWithinTick
<1> DEFINE A == phase = "stat" /\ phase' = "branch" /\ disk[Request.path] # Missing
                  => \E v \in versions : /\ v[1] = Request.path
                                         /\ v[3] = disk[Request.path].mtime
                                         /\ States(v[2], loaded')
<1>1. PipeInv /\ KeptInv /\ [Next]_vars => [A]_vars
  <2> SUFFICES ASSUME PipeInv, KeptInv, Next, phase = "stat", phase' = "branch",
                      disk[Request.path] # Missing
               PROVE  \E v \in versions : /\ v[1] = Request.path
                                          /\ v[3] = disk[Request.path].mtime
                                          /\ States(v[2], loaded')
    OBVIOUS
  <2> DEFINE p == Request.path
  <2>1. Stat
    BY DEF Next, FilesChange, ClientActs, serverVars, ServerActs, Serve, Gone, vars,
           ReadLength, EndOfInput, ReadBody, CutBody, Compile, ReadFile, Branch
  <2>2. p \in Path
    BY DEF PipeInv, Request
  <2>3. cache[p].held /\ cache[p].time = disk[p].mtime /\ loaded' = cache[p].store
    BY <2>1 DEF Stat, Fresh
  <2>4. PICK v \in versions : v[1] = p /\ v[3] >= cache[p].time
                                /\ States(v[2], cache[p].store)
    BY <2>2, <2>3 DEF KeptInv, CacheInv
  <2>5. v[3] <= disk[p].mtime /\ v[3] \in Nat /\ disk[p].mtime \in Nat
    BY <2>2, <2>4 DEF KeptInv, FileInv
  <2>6. v[3] = disk[p].mtime
    BY <2>3, <2>4, <2>5
  <2> QED BY <2>3, <2>4, <2>6
<1> HIDE DEF A
<1>2. Spec => [][A]_vars
  BY <1>1, ServiceInvariant, PTL DEF Spec
<1> QED BY <1>2, PTL DEF StaleOnlyWithinTick, A

-----------------------------------------------------------------------------
(* What reading a file, and excluding names, makes of a store.             *)

Reads    == [store : Store, count : Nat, bad : BOOLEAN]
Branches == [store : Store, echo : Seq(FactKey \cup {Blank})]

LEMMA ReadLineTyped ==
  ASSUME NEW r \in Reads, NEW l \in Line PROVE ReadLine(r, l) \in Reads
<1>1. r.store \in Store /\ r.count \in Nat /\ r.bad \in BOOLEAN BY DEF Reads
<1>2. CASE r.bad \/ l.kind = "none" BY <1>1, <1>2 DEF ReadLine
<1>3. CASE ~r.bad /\ l.kind = "bad" BY <1>1, <1>3 DEF ReadLine, Reads
<1>4. CASE ~r.bad /\ l.kind = "alias"
  <2>1. l.name \in Surface /\ l.of \in Surface BY <1>4 DEF Line
  <2> DEFINE st == Alias(r.store, l.name, l.of)
             n  == IF CanAlias(r.store, l.name, l.of) THEN r.count + 1 ELSE r.count
  <2>2. st \in Store
    <3>1. CanAlias(r.store, l.name, l.of) =>
            Normalize[l.name] \in FactKey /\ Normalize[l.of] \in FactKey
      BY <2>1, NormalizeAssumption DEF CanAlias, Holds
    <3> QED BY <1>1, <3>1 DEF Alias, Store
  <2>3. n \in Nat BY <1>1
  <2>4. ReadLine(r, l) = [r EXCEPT !.store = st, !.count = n]
    BY <1>4 DEF ReadLine, Reads
  <2> HIDE DEF st, n
  <2> QED BY <1>1, <2>2, <2>3, <2>4 DEF Reads
<1>5. CASE ~r.bad /\ l.kind = "fact"
  <2>1. l.name \in Surface /\ l.fact \in Fact BY <1>5 DEF Line
  <2> DEFINE st == Insert(r.store, l.name, l.fact)
             n  == r.count + 1
  <2>2. st \in Store BY <1>1, <2>1 DEF Insert, Store
  <2>3. n \in Nat BY <1>1
  <2>4. ReadLine(r, l) = [r EXCEPT !.store = st, !.count = n]
    BY <1>5 DEF ReadLine, Reads
  <2> HIDE DEF st, n
  <2> QED BY <1>1, <2>2, <2>3, <2>4 DEF Reads
<1>6. l.kind \in {"fact", "alias", "bad", "none"} BY DEF Line
<1> QED BY <1>1, <1>2, <1>3, <1>4, <1>5, <1>6

(* The lines are read one after the other, each from where the last left.  *)
LEMMA AfterLinesRecursion ==
  ASSUME NEW st \in Store, NEW lines \in Seq(Line)
  PROVE  AfterLines(st, lines) =
           [i \in 0 .. Len(lines) |->
              IF i = 0 THEN Reading(st)
              ELSE ReadLine(AfterLines(st, lines)[i - 1], lines[i])]
<1> DEFINE n == Len(lines)
           base == Reading(st)
           step == [x \in Reads \X (1 .. n) |-> ReadLine(x[1], lines[x[2]])]
<1>1. n \in Nat /\ base \in Reads BY DEF Reading, Reads
<1>2. step \in Steps(Reads, n)
  <2>1. ASSUME NEW x \in Reads \X (1 .. n) PROVE ReadLine(x[1], lines[x[2]]) \in Reads
    <3>1. x[1] \in Reads /\ lines[x[2]] \in Line OBVIOUS
    <3> QED BY <3>1, ReadLineTyped
  <2> QED BY <2>1 DEF Steps
<1> HIDE DEF n, base, step
<1>3. PICK r : Solution(r, Reads, n, base, step) BY <1>1, <1>2, RecursionSolved
<1>4. \A i \in 0 .. n : i # 0 => step[<<r[i - 1], i>>] = ReadLine(r[i - 1], lines[i])
  <2> TAKE i \in 0 .. n
  <2> HAVE i # 0
  <2>1. i - 1 \in 0 .. n /\ i \in 1 .. n BY <1>1
  <2>2. <<r[i - 1], i>> \in Reads \X (1 .. n) BY <1>3, <2>1 DEF Solution
  <2> QED BY <2>2 DEF step
<1>5. r = [i \in 0 .. n |-> IF i = 0 THEN base
                            ELSE ReadLine(r[i - 1], lines[i])]
  BY <1>3, <1>4 DEF Solution
<1> QED BY <1>5 DEF AfterLines, n, base

LEMMA AfterLinesTyped ==
  ASSUME NEW st \in Store, NEW lines \in Seq(Line)
  PROVE  /\ AfterLines(st, lines)[0] = Reading(st)
         /\ \A i \in 1 .. Len(lines) :
              AfterLines(st, lines)[i] = ReadLine(AfterLines(st, lines)[i - 1], lines[i])
         /\ \A i \in 0 .. Len(lines) : AfterLines(st, lines)[i] \in Reads
         /\ LoadJsonl(st, lines) \in Reads
<1> DEFINE n == Len(lines)
           r == AfterLines(st, lines)
           S == {i \in 0 .. n : r[i] \in Reads}
<1>1. n \in Nat /\ Reading(st) \in Reads BY DEF Reading, Reads
<1>2. r = [i \in 0 .. n |-> IF i = 0 THEN Reading(st)
                            ELSE ReadLine(r[i - 1], lines[i])]
  BY AfterLinesRecursion
<1>3. \A i \in 1 .. n : lines[i] \in Line OBVIOUS
<1> HIDE DEF n, r
<1>4. r[0] = Reading(st) BY <1>1, <1>2
<1>5. \A i \in 1 .. n : r[i] = ReadLine(r[i - 1], lines[i]) BY <1>1, <1>2
<1>6. \A i \in 0 .. n : i \in S
  <2>1. 0 \in S BY <1>1, <1>4
  <2>2. ASSUME NEW i \in 0 .. n - 1, i \in S PROVE i + 1 \in S
    <3>1. i + 1 \in 1 .. n /\ (i + 1) - 1 = i BY <1>1
    <3>2. r[i + 1] \in Reads BY <1>3, <1>5, <2>2, <3>1, ReadLineTyped
    <3> QED BY <3>1, <3>2
  <2> HIDE DEF S
  <2> QED BY <1>1, <2>1, <2>2, UpTo
<1>7. r[n] \in Reads BY <1>1, <1>6
<1> QED BY <1>4, <1>5, <1>6, <1>7 DEF n, r, LoadJsonl

(* A bad line is the last one that counts.                                 *)
LEMMA NoneBadBefore ==
  ASSUME NEW st \in Store, NEW lines \in Seq(Line), ~LoadJsonl(st, lines).bad,
         NEW m \in 0 .. Len(lines)
  PROVE  ~AfterLines(st, lines)[m].bad
<1> DEFINE n == Len(lines)
           r == AfterLines(st, lines)
           S == {i \in m .. n : r[i].bad}
<1> SUFFICES ASSUME r[m].bad PROVE FALSE OBVIOUS
<1>1. n \in Nat /\ m \in Nat /\ m <= n /\ ~r[n].bad BY DEF LoadJsonl
<1>2. \A i \in 1 .. n : r[i] = ReadLine(r[i - 1], lines[i]) BY AfterLinesTyped
<1> HIDE DEF n, r
<1>3. m \in S BY <1>1
<1>4. ASSUME NEW i \in m .. n - 1, i \in S PROVE i + 1 \in S
  <2>1. i + 1 \in 1 .. n /\ i + 1 \in m .. n /\ (i + 1) - 1 = i BY <1>1
  <2>2. r[i + 1] = ReadLine(r[i], lines[i + 1]) BY <1>2, <2>1
  <2>3. r[i + 1] = r[i] BY <1>4, <2>2 DEF ReadLine
  <2> QED BY <1>4, <2>1, <2>3
<1> HIDE DEF S
<1>5. n \in S
  <2>1. \A j \in m .. n : j \in S BY <1>1, <1>3, <1>4, UpTo
  <2> QED BY <1>1, <2>1
<1> QED BY <1>1, <1>5 DEF S

(* A line that writes neither of two keys leaves what they hold alone.     *)
LEMMA LineLeavesAlone ==
  ASSUME NEW r \in Reads, NEW l \in Line, NEW k \in FactKey \ Writes(l)
  PROVE  ReadLine(r, l).store[k] = r.store[k]
<1>1. r.store \in Store BY DEF Reads
<1>2. CASE r.bad \/ l.kind = "none" BY <1>2 DEF ReadLine
<1>3. CASE ~r.bad /\ l.kind = "bad" BY <1>3 DEF ReadLine, Reads
<1>4. CASE ~r.bad /\ l.kind = "alias"
  <2>1. k # Normalize[l.name] BY <1>4 DEF Writes
  <2>2. ReadLine(r, l).store = Alias(r.store, l.name, l.of)
    BY <1>4 DEF ReadLine, Reads
  <2> QED BY <1>1, <2>1, <2>2 DEF Alias, Store
<1>5. CASE ~r.bad /\ l.kind = "fact"
  <2>1. k # Normalize[l.name] BY <1>5 DEF Writes
  <2>2. ReadLine(r, l).store = Insert(r.store, l.name, l.fact)
    BY <1>5 DEF ReadLine, Reads
  <2> QED BY <2>1, <2>2 DEF Insert
<1>6. l.kind \in {"fact", "alias", "bad", "none"} BY DEF Line
<1> QED BY <1>2, <1>3, <1>4, <1>5, <1>6

LEMMA EmptyIsStore == EmptyStore \in Store
BY DEF EmptyStore, Store

(* The two keys an alias in force ties hold the same facts in the end.     *)
LEMMA TiedKeysAgree ==
  ASSUME NEW d \in Seq(Line), ~LoadJsonl(EmptyStore, d).bad,
         NEW i \in DOMAIN d, InForce(d, i),
         NEW a \in Ties(d[i]), NEW c \in Ties(d[i])
  PROVE  /\ a \in FactKey /\ c \in FactKey
         /\ LoadJsonl(EmptyStore, d).store[a] = LoadJsonl(EmptyStore, d).store[c]
<1> DEFINE n == Len(d)
           r == AfterLines(EmptyStore, d)
           alias == Normalize[d[i].name]
           name  == Normalize[d[i].of]
           S == {j \in i .. n : r[j].store[alias] = r[j].store[name]}
<1>1. /\ n \in Nat /\ i \in 1 .. n /\ i - 1 \in 0 .. n
      /\ d[i] \in Line /\ d[i].kind = "alias"
  BY DEF InForce
<1>2. d[i].name \in Surface /\ d[i].of \in Surface BY <1>1 DEF Line
<1>3. /\ \A j \in 1 .. n : r[j] = ReadLine(r[j - 1], d[j])
      /\ \A j \in 0 .. n : r[j] \in Reads
  BY AfterLinesTyped, EmptyIsStore
<1>4. CanAlias(r[i - 1].store, d[i].name, d[i].of) BY DEF InForce
<1>5. alias \in FactKey /\ name \in FactKey
  BY <1>2, <1>4, NormalizeAssumption DEF CanAlias, Holds
<1>6. \A j \in i + 1 .. n : alias \notin Writes(d[j]) /\ name \notin Writes(d[j])
  BY DEF InForce, Ties
<1>7. ~r[i - 1].bad BY <1>1, NoneBadBefore, EmptyIsStore
<1>8. Ties(d[i]) = {alias, name} BY DEF Ties
<1>9. \A j \in 1 .. n : d[j] \in Line OBVIOUS
<1> HIDE DEF n, r
<1>10. i \in S
  <2>1. r[i - 1] \in Reads /\ r[i] = ReadLine(r[i - 1], d[i]) BY <1>1, <1>3
  <2>2. r[i].store = Alias(r[i - 1].store, d[i].name, d[i].of)
    BY <1>1, <1>7, <2>1 DEF ReadLine, Reads
  <2>3. r[i].store = [r[i - 1].store EXCEPT ![alias] = r[i - 1].store[name]]
    BY <1>4, <2>2 DEF Alias
  <2>4. r[i - 1].store \in Store BY <2>1 DEF Reads
  <2> HIDE DEF alias, name
  <2>5. r[i].store[alias] = r[i].store[name] BY <1>5, <2>3, <2>4 DEF Store
  <2> QED BY <1>1, <2>5
<1> HIDE DEF alias, name
<1>11. ASSUME NEW j \in i .. n - 1, j \in S PROVE j + 1 \in S
  <2>1. /\ j + 1 \in i + 1 .. n /\ j + 1 \in i .. n /\ j + 1 \in 1 .. n
        /\ (j + 1) - 1 = j /\ j \in 0 .. n
    BY <1>1
  <2>2. r[j] \in Reads /\ r[j + 1] = ReadLine(r[j], d[j + 1]) BY <1>3, <2>1
  <2>3. /\ r[j + 1].store[alias] = r[j].store[alias]
        /\ r[j + 1].store[name] = r[j].store[name]
    BY <1>5, <1>6, <1>9, <2>1, <2>2, LineLeavesAlone
  <2> QED BY <1>11, <2>1, <2>3
<1> HIDE DEF S
<1>12. n \in S
  <2>1. i \in Nat /\ n \in i .. n BY <1>1
  <2>2. \A j \in i .. n : j \in S BY <1>1, <1>10, <1>11, <2>1, UpTo
  <2> QED BY <2>1, <2>2
<1>13. r[n].store[alias] = r[n].store[name] BY <1>12 DEF S
<1> QED BY <1>5, <1>8, <1>13 DEF LoadJsonl, n, r

-----------------------------------------------------------------------------
(* What excluding a list of names makes of a store.                        *)

LEMMA ExcludeTyped ==
  ASSUME NEW b \in Branches, NEW s \in Surface PROVE Exclude(b, s) \in Branches
<1>1. b.store \in Store /\ b.echo \in Seq(FactKey \cup {Blank}) BY DEF Branches
<1>2. Without(b.store, s) \in Store BY <1>1 DEF Without, Store
<1> DEFINE gone == Removed(b.store, s)
           more == [i \in 1 .. Cardinality(gone) |-> Normalize[s]]
<1>3. Cardinality(gone) \in Nat
  <2>1. gone \subseteq FactKey BY DEF Removed
  <2> HIDE DEF gone
  <2> QED BY <2>1, NormalizeAssumption, FS_Subset, FS_CardinalityType
<1> HIDE DEF gone
<1>4. more \in Seq(FactKey \cup {Blank}) BY <1>3, NormalizeAssumption
<1> HIDE DEF more
<1>5. b.echo \o more \in Seq(FactKey \cup {Blank}) BY <1>1, <1>4
<1>6. Exclude(b, s) = [store |-> Without(b.store, s), echo |-> b.echo \o more]
  BY DEF Exclude, more, gone
<1> QED BY <1>2, <1>5, <1>6 DEF Branches

LEMMA AfterNamesRecursion ==
  ASSUME NEW st \in Store, NEW names \in Seq(Surface)
  PROVE  AfterNames(st, names) =
           [i \in 0 .. Len(names) |->
              IF i = 0 THEN [store |-> st, echo |-> <<>>]
              ELSE Exclude(AfterNames(st, names)[i - 1], names[i])]
<1> DEFINE n == Len(names)
           base == [store |-> st, echo |-> <<>>]
           step == [x \in Branches \X (1 .. n) |-> Exclude(x[1], names[x[2]])]
<1>1. n \in Nat /\ base \in Branches BY DEF Branches
<1>2. step \in Steps(Branches, n)
  <2>1. ASSUME NEW x \in Branches \X (1 .. n)
        PROVE  Exclude(x[1], names[x[2]]) \in Branches
    <3>1. x[1] \in Branches /\ names[x[2]] \in Surface OBVIOUS
    <3> QED BY <3>1, ExcludeTyped
  <2> QED BY <2>1 DEF Steps
<1> HIDE DEF n, base, step
<1>3. PICK r : Solution(r, Branches, n, base, step) BY <1>1, <1>2, RecursionSolved
<1>4. \A i \in 0 .. n : i # 0 => step[<<r[i - 1], i>>] = Exclude(r[i - 1], names[i])
  <2> TAKE i \in 0 .. n
  <2> HAVE i # 0
  <2>1. i - 1 \in 0 .. n /\ i \in 1 .. n BY <1>1
  <2>2. <<r[i - 1], i>> \in Branches \X (1 .. n) BY <1>3, <2>1 DEF Solution
  <2> QED BY <2>2 DEF step
<1>5. r = [i \in 0 .. n |-> IF i = 0 THEN base ELSE Exclude(r[i - 1], names[i])]
  BY <1>3, <1>4 DEF Solution
<1> QED BY <1>5 DEF AfterNames, n, base

LEMMA AfterNamesTyped ==
  ASSUME NEW st \in Store, NEW names \in Seq(Surface)
  PROVE  /\ AfterNames(st, names)[0].store = st
         /\ \A i \in 1 .. Len(names) :
              AfterNames(st, names)[i] = Exclude(AfterNames(st, names)[i - 1], names[i])
         /\ \A i \in 0 .. Len(names) : AfterNames(st, names)[i] \in Branches
<1> DEFINE n == Len(names)
           base == [store |-> st, echo |-> <<>>]
           r == AfterNames(st, names)
           S == {i \in 0 .. n : r[i] \in Branches}
<1>1. n \in Nat /\ base \in Branches /\ base.store = st BY DEF Branches
<1>2. r = [i \in 0 .. n |-> IF i = 0 THEN base ELSE Exclude(r[i - 1], names[i])]
  BY AfterNamesRecursion
<1>3. \A i \in 1 .. n : names[i] \in Surface OBVIOUS
<1> HIDE DEF n, r, base
<1>4. r[0] = base BY <1>1, <1>2
<1>5. \A i \in 1 .. n : r[i] = Exclude(r[i - 1], names[i]) BY <1>1, <1>2
<1>6. \A i \in 0 .. n : i \in S
  <2>1. 0 \in S BY <1>1, <1>4
  <2>2. ASSUME NEW i \in 0 .. n - 1, i \in S PROVE i + 1 \in S
    <3>1. i + 1 \in 1 .. n /\ (i + 1) - 1 = i BY <1>1
    <3>2. r[i + 1] \in Branches BY <1>3, <1>5, <2>2, <3>1, ExcludeTyped
    <3> QED BY <3>1, <3>2
  <2> HIDE DEF S
  <2> QED BY <1>1, <2>1, <2>2, UpTo
<1> QED BY <1>1, <1>4, <1>5, <1>6 DEF n, r

(* Removal goes by the facts, so two keys with the same facts go together; *)
(* and what is gone stays gone.                                            *)
LEMMA WithoutByFacts ==
  ASSUME NEW st \in Store, NEW s, NEW a \in FactKey, NEW c \in FactKey
  PROVE  /\ st[a] = st[c] => Without(st, s)[a] = Without(st, s)[c]
         /\ st[a] = <<>> => Without(st, s)[a] = <<>>
         /\ Normalize[s] = a => Without(st, s)[a] = <<>>
BY DEF Without, Removed, Holds

(* Whatever else is excluded, two keys that hold the same facts keep doing *)
(* so.                                                                     *)
LEMMA ExclusionsKeepTies ==
  ASSUME NEW st \in Store, NEW names \in Seq(Surface),
         NEW a \in FactKey, NEW c \in FactKey, st[a] = st[c]
  PROVE  Excluding(st, names).store[a] = Excluding(st, names).store[c]
<1> DEFINE n == Len(names)
           r == AfterNames(st, names)
           S == {i \in 0 .. n : r[i].store[a] = r[i].store[c]}
<1>1. n \in Nat OBVIOUS
<1>2. /\ r[0].store = st /\ \A i \in 0 .. n : r[i] \in Branches
      /\ \A i \in 1 .. n : r[i] = Exclude(r[i - 1], names[i])
  BY AfterNamesTyped
<1> HIDE DEF n, r
<1>3. 0 \in S BY <1>1, <1>2
<1>4. ASSUME NEW i \in 0 .. n - 1, i \in S PROVE i + 1 \in S
  <2>1. i + 1 \in 1 .. n /\ (i + 1) - 1 = i /\ i \in 0 .. n BY <1>1
  <2>2. r[i].store \in Store /\ r[i + 1] = Exclude(r[i], names[i + 1])
    BY <1>2, <2>1 DEF Branches
  <2>3. r[i + 1].store = Without(r[i].store, names[i + 1]) BY <2>2 DEF Exclude
  <2>4. r[i + 1].store[a] = r[i + 1].store[c]
    BY <1>4, <2>2, <2>3, WithoutByFacts
  <2> QED BY <2>1, <2>4
<1> HIDE DEF S
<1>5. n \in S
  <2>1. \A i \in 0 .. n : i \in S BY <1>1, <1>3, <1>4, UpTo
  <2> QED BY <1>1, <2>1
<1> QED BY <1>5 DEF S, Excluding, n, r

LEMMA ExcludedIsGone ==
  ASSUME NEW st \in Store, NEW names \in Seq(Surface), NEW x \in DOMAIN names,
         Normalize[names[x]] \in FactKey
  PROVE  Excluding(st, names).store[Normalize[names[x]]] = <<>>
<1> DEFINE n == Len(names)
           r == AfterNames(st, names)
           k == Normalize[names[x]]
           S == {i \in x .. n : r[i].store[k] = <<>>}
<1>1. n \in Nat /\ x \in 1 .. n OBVIOUS
<1>2. /\ \A i \in 0 .. n : r[i] \in Branches
      /\ \A i \in 1 .. n : r[i] = Exclude(r[i - 1], names[i])
  BY AfterNamesTyped
<1> HIDE DEF n, r, k
<1>3. \A i \in 0 .. n : r[i].store \in Store BY <1>2 DEF Branches
<1>4. \A i \in 1 .. n : r[i].store = Without(r[i - 1].store, names[i])
  <2> TAKE i \in 1 .. n
  <2>1. r[i] = Exclude(r[i - 1], names[i]) BY <1>2
  <2> QED BY <2>1 DEF Exclude
<1>5. k \in FactKey BY DEF k
<1>6. x \in S
  <2>1. x - 1 \in 0 .. n /\ x \in x .. n BY <1>1
  <2>2. r[x].store[k] = <<>>
    BY <1>1, <1>3, <1>4, <1>5, <2>1, WithoutByFacts DEF k
  <2> QED BY <2>1, <2>2
<1>7. ASSUME NEW i \in x .. n - 1, i \in S PROVE i + 1 \in S
  <2>1. i + 1 \in x .. n /\ i + 1 \in 1 .. n /\ (i + 1) - 1 = i /\ i \in 0 .. n
    BY <1>1
  <2>2. r[i + 1].store[k] = <<>>
    BY <1>3, <1>4, <1>5, <1>7, <2>1, WithoutByFacts
  <2> QED BY <2>1, <2>2
<1> HIDE DEF S
<1>8. n \in S
  <2>1. x \in Nat /\ n \in x .. n BY <1>1
  <2>2. \A i \in x .. n : i \in S BY <1>1, <1>6, <1>7, <2>1, UpTo
  <2> QED BY <2>1, <2>2
<1> QED BY <1>8 DEF S, Excluding, n, r, k

(* With nothing assumed, what is left after the exclusions is what the     *)
(* program gets.                                                           *)
LEMMA NothingAssumed ==
  ASSUME NEW st \in Store PROVE LoadJsonl(st, <<>>).store = st
<1>1. <<>> \in Seq(Line) /\ Len(<<>>) = 0 OBVIOUS
<1>2. AfterLines(st, <<>>)[0] = Reading(st) BY <1>1, AfterLinesTyped
<1> QED BY <1>1, <1>2 DEF LoadJsonl, Reading

(* No name tied to an excluded one answers a QUERY, in whatever order the  *)
(* branch excluded its names.                                              *)
LEMMA KinExcluded ==
  ASSUME NEW d \in Seq(Line), ~LoadJsonl(EmptyStore, d).bad,
         NEW names \in Seq(Surface), NEW x \in DOMAIN names,
         NEW k \in KinIn(d, names[x])
  PROVE  ~Holds(Excluding(LoadJsonl(EmptyStore, d).store, names).store, k)
<1> DEFINE st == LoadJsonl(EmptyStore, d).store
           s  == Normalize[names[x]]
<1>1. st \in Store BY AfterLinesTyped, EmptyIsStore DEF Reads
<1>2. names[x] \in Surface OBVIOUS
<1>3. ASSUME s \in FactKey PROVE Excluding(st, names).store[s] = <<>>
  BY <1>1, <1>3, ExcludedIsGone
<1>4. CASE k = s BY <1>3, <1>4 DEF Holds
<1>5. CASE k # s
  <2>1. PICK i \in DOMAIN d : InForce(d, i) /\ s \in Ties(d[i]) /\ k \in Ties(d[i])
    BY <1>5 DEF KinIn
  <2>2. s \in FactKey /\ k \in FactKey /\ st[s] = st[k] BY <2>1, TiedKeysAgree
  <2>3. Excluding(st, names).store[s] = Excluding(st, names).store[k]
    BY <1>1, <2>2, ExclusionsKeepTies
  <2> QED BY <1>3, <2>2, <2>3 DEF Holds
<1> QED BY <1>4, <1>5

(* A branch that excludes a name reaches it under every alias in force,    *)
(* for every knowledge file, list of exclusions and interleaving with the  *)
(* edits of the file (knowledge.rs, alias, remove; apply_branch).          *)
THEOREM ExclusionsAlwaysReachAliases == Spec => ExclusionReachesAliases
<1> DEFINE A == phase = "branch" /\ phase' = "length" /\ Request.path # NoPath
                  /\ Request.assume = <<>>
                  => \A d \in ReadFrom(Request.path, loaded) :
                       \A i \in DOMAIN Request.exclude :
                         \A k \in KinIn(d, Request.exclude[i]) : ~Holds(loaded', k)
<1>1. PipeInv /\ KeptInv /\ [Next]_vars => [A]_vars
  <2> SUFFICES ASSUME PipeInv, KeptInv, Next, phase = "branch", phase' = "length",
                      Request.assume = <<>>,
                      NEW d \in ReadFrom(Request.path, loaded),
                      NEW i \in DOMAIN Request.exclude,
                      NEW k \in KinIn(d, Request.exclude[i])
               PROVE  ~Holds(loaded', k)
    OBVIOUS
  <2>1. Branch
    BY DEF Next, FilesChange, ClientActs, serverVars, ServerActs, Serve, Gone, vars,
           ReadLength, EndOfInput, ReadBody, CutBody, Compile, Stat, ReadFile
  <2> DEFINE names == Request.exclude
             e == Excluding(loaded, names)
  <2>2. names \in Seq(Surface)
    BY RequestsAssumption DEF PipeInv, Serving, Request
  <2>3. d \in Doc /\ d \in Seq(Line)
        /\ ~LoadJsonl(EmptyStore, d).bad /\ LoadJsonl(EmptyStore, d).store = loaded
    <3>1. PICK v \in versions : d = v[2] /\ States(d, loaded) BY DEF ReadFrom
    <3>2. d \in Doc BY <3>1 DEF KeptInv, FileInv
    <3> QED BY <3>1, <3>2, ResidentAssumption DEF States, Parsed
  <2>4. loaded' = LoadJsonl(e.store, <<>>).store BY <2>1 DEF Branch
  <2>5. loaded \in Store BY <2>3, AfterLinesTyped, EmptyIsStore DEF Reads
  <2>6. ~Holds(e.store, k) BY <2>2, <2>3, KinExcluded
  <2>7. e.store \in Store
    <3>1. Len(names) \in 0 .. Len(names) BY <2>2
    <3>2. AfterNames(loaded, names)[Len(names)] \in Branches
      BY <2>2, <2>5, <3>1, AfterNamesTyped
    <3> QED BY <3>2 DEF Excluding, Branches
  <2>8. loaded' = e.store
    <3> HIDE DEF e
    <3> QED BY <2>4, <2>7, NothingAssumed
  <2> QED BY <2>6, <2>8
<1> HIDE DEF A
<1>2. Spec => [][A]_vars
  BY <1>1, ServiceInvariant, PTL DEF Spec
<1> QED BY <1>2, PTL DEF ExclusionReachesAliases, A

-----------------------------------------------------------------------------
(* Types.                                                                  *)

FilesOK ==
  /\ disk \in [Path -> [doc : Doc \cup {<<>>}, mtime : 0 .. MaxTicks]]
  /\ clock \in 1 .. MaxTicks /\ edits \in 0 .. MaxEdits
  /\ \A v \in versions : v[1] \in Path /\ v[2] \in Doc /\ v[3] \in 1 .. clock
ClientOK ==
  /\ Len(sent) <= MaxFrames /\ taken \in 0 .. Len(sent)
  /\ writing \in {"nothing", "length", "body"} /\ closed \in BOOLEAN
StoresOK ==
  /\ stamp \in 0 .. MaxTicks /\ loaded \in Store
  /\ \A p \in Path : cache[p].time \in 0 .. MaxTicks /\ cache[p].store \in Store
ExitOK == exit \in {0, 1, Running} /\ (exit # Running <=> phase = "exited")

LEMMA ResidentTypeParts ==
  PipeInv => (ResidentTypeOK <=> FilesOK /\ ClientOK /\ StoresOK /\ ExitOK)
BY DEF ResidentTypeOK, FilesOK, ClientOK, StoresOK, ExitOK, PipeInv, Phases

LEMMA InitResidentTyped == Init => FilesOK /\ ClientOK /\ StoresOK /\ ExitOK
<1> SUFFICES ASSUME Init PROVE FilesOK /\ ClientOK /\ StoresOK /\ ExitOK OBVIOUS
<1>1. FilesOK BY ResidentAssumption DEF Init, FilesOK, Missing, NoTime
<1>2. ClientOK
  <2>1. Len(sent) = 0 /\ taken = 0 BY DEF Init
  <2>2. Len(sent) <= MaxFrames /\ taken \in 0 .. Len(sent)
    BY <2>1, ResidentAssumption
  <2>3. writing = "nothing" /\ closed \in BOOLEAN BY DEF Init
  <2> QED BY <2>2, <2>3 DEF ClientOK
<1>3. StoresOK
  BY ResidentAssumption, EmptyIsStore DEF Init, StoresOK, NotCached, NoTime
<1>4. ExitOK BY DEF Init, ExitOK
<1> QED BY <1>1, <1>2, <1>3, <1>4

LEMMA FilesTyped ==
  ASSUME PipeInv, KeptInv, FilesOK, [Next]_vars PROVE FilesOK'
<1>1. CASE \E p \in Path, d \in Doc : Edit(p, d)
  <2>1. PICK p \in Path, d \in Doc : Edit(p, d) BY <1>1
  <2>2. [doc |-> d, mtime |-> clock] \in [doc : Doc \cup {<<>>}, mtime : 0 .. MaxTicks]
    BY ResidentAssumption DEF FilesOK
  <2>3. disk' \in [Path -> [doc : Doc \cup {<<>>}, mtime : 0 .. MaxTicks]]
    BY <2>1, <2>2 DEF Edit, FilesOK
  <2>4. clock' \in 1 .. MaxTicks /\ edits' \in 0 .. MaxEdits
    BY <2>1, ResidentAssumption DEF Edit, FilesOK
  <2>5. \A v \in versions' : v[1] \in Path /\ v[2] \in Doc /\ v[3] \in 1 .. clock'
    BY <2>1, ResidentAssumption DEF Edit, FilesOK
  <2> QED BY <2>3, <2>4, <2>5 DEF FilesOK
<1>2. CASE \E p \in Path : Delete(p)
  <2>1. PICK p \in Path : Delete(p) BY <1>2
  <2>2. Missing \in [doc : Doc \cup {<<>>}, mtime : 0 .. MaxTicks]
    BY ResidentAssumption DEF Missing, NoTime
  <2>3. disk' \in [Path -> [doc : Doc \cup {<<>>}, mtime : 0 .. MaxTicks]]
    BY <2>1, <2>2 DEF Delete, FilesOK
  <2> QED BY <2>1, <2>3, ResidentAssumption DEF Delete, FilesOK
<1>3. CASE Tick
  BY <1>3, ResidentAssumption DEF Tick, FilesOK
<1>4. CASE UNCHANGED fileVars
  BY <1>4 DEF fileVars, FilesOK
<1> QED
  BY <1>1, <1>2, <1>3, <1>4 DEF Next, FilesChange, ClientActs, ServerActs, Gone, vars

LEMMA ClientTyped ==
  ASSUME PipeInv, KeptInv, ClientOK, [Next]_vars PROVE ClientOK'
<1>1. CASE UNCHANGED pipeVars /\ UNCHANGED taken
  BY <1>1 DEF pipeVars, ClientOK
<1>2. CASE WriteSome \/ Close
  <2>1. UNCHANGED taken
    BY <1>2 DEF Next, FilesChange, ClientActs, ServerActs, serverVars, Gone, vars,
                WriteSome, Close, Open, pipeVars
  <2> QED BY <1>2, <2>1 DEF WriteSome, Close, Open, ClientOK
<1>3. CASE WriteRest /\ UNCHANGED taken
  <2>1. PICK r \in Requests \cup {Undecodable} : sent' = Append(sent, r)
    BY <1>3 DEF WriteRest
  <2>2. Len(sent') = Len(sent) + 1 /\ Len(sent) \in Nat BY <2>1 DEF PipeInv
  <2> QED BY <1>3, <2>2, ResidentAssumption DEF WriteRest, Open, ClientOK
<1>4. CASE ReadBody /\ UNCHANGED pipeVars
  <2>1. Len(sent) \in Nat BY DEF PipeInv
  <2> QED BY <1>4, <2>1 DEF ReadBody, Unread, pipeVars, ClientOK
<1> QED
  BY <1>1, <1>2, <1>3, <1>4 DEF Next, FilesChange, ClientActs, ServerActs, Serve,
     serverVars, Gone, vars, ReadLength, EndOfInput, CutBody, Compile, Stat, ReadFile,
     Branch

LEMMA StoresTyped ==
  ASSUME PipeInv, KeptInv, FilesOK, StoresOK, [Next]_vars PROVE StoresOK'
<1>1. CASE UNCHANGED <<stamp, loaded, cache>> BY <1>1 DEF StoresOK
<1>2. CASE ReadLength
  BY <1>2, ResidentAssumption, EmptyIsStore DEF ReadLength, StoresOK, NoTime
<1>3. CASE Compile
  BY <1>3, EmptyIsStore DEF Compile, Fails, StoresOK
<1>4. CASE Stat
  <2>1. Request.path \in Path BY <1>4 DEF Stat, PipeInv, Request
  <2>2. stamp' \in 0 .. MaxTicks BY <1>4, <2>1 DEF Stat, FilesOK
  <2>3. loaded' \in Store BY <1>4, <2>1 DEF Stat, StoresOK
  <2> QED BY <1>4, <2>2, <2>3 DEF Stat, StoresOK
<1>5. CASE ReadFile
  <2> DEFINE q == Request.path
             r == Parsed[disk[q].doc]
  <2>1. q \in Path BY <1>5 DEF ReadFile, PipeInv, Request
  <2>2. r.store \in Store
    <3>1. disk[q].doc \in Doc \cup {<<>>} BY <2>1 DEF FilesOK
    <3>2. disk[q].doc \in Seq(Line)
      <4>1. CASE disk[q].doc \in Doc BY <4>1, ResidentAssumption
      <4>2. CASE disk[q].doc = <<>>
        <5>1. <<>> \in Seq(Line) OBVIOUS
        <5> QED BY <4>2, <5>1
      <4> QED BY <3>1, <4>1, <4>2
    <3>3. r = LoadJsonl(EmptyStore, disk[q].doc) BY <3>1 DEF Parsed
    <3> QED BY <3>2, <3>3, AfterLinesTyped, EmptyIsStore DEF Reads
  <2>3. CASE Fails("knowledge")
    BY <2>3, EmptyIsStore DEF Fails, StoresOK
  <2>4. CASE ~Fails("knowledge")
    <3>1. /\ cache' = [cache EXCEPT ![q] = Cached(stamp, r.store)]
          /\ loaded' = r.store /\ UNCHANGED stamp
      BY <1>5, <2>4 DEF ReadFile
    <3>2. \A p \in Path : cache'[p] = IF p = q THEN Cached(stamp, r.store) ELSE cache[p]
      BY <2>1, <3>1 DEF KeptInv, CacheInv
    <3> HIDE DEF r
    <3>3. ASSUME NEW p \in Path
          PROVE  cache'[p].time \in 0 .. MaxTicks /\ cache'[p].store \in Store
      BY <2>2, <3>2 DEF Cached, StoresOK
    <3> QED BY <2>2, <3>1, <3>3 DEF StoresOK
  <2> QED BY <2>3, <2>4
<1>6. CASE Branch
  <2> DEFINE e == Excluding(loaded, Request.exclude)
  <2>1. Request.exclude \in Seq(Surface) /\ Request.assume \in Seq(Line)
    BY <1>6, RequestsAssumption DEF Branch, PipeInv, Serving, Request
  <2>2. e.store \in Store
    <3>1. Len(Request.exclude) \in 0 .. Len(Request.exclude) BY <2>1
    <3>2. AfterNames(loaded, Request.exclude)[Len(Request.exclude)] \in Branches
      BY <2>1, <3>1, AfterNamesTyped DEF StoresOK
    <3> QED BY <3>2 DEF Excluding, Branches
  <2>3. LoadJsonl(e.store, Request.assume).store \in Store
    <3> HIDE DEF e
    <3> QED BY <2>1, <2>2, AfterLinesTyped DEF Reads
  <2>4. loaded' \in Store BY <1>6, <2>3 DEF Branch
  <2>5. UNCHANGED <<stamp, cache>> BY <1>6 DEF Branch, BranchOnClone
  <2> QED BY <2>4, <2>5 DEF StoresOK
<1>7. CASE ~(ReadLength \/ Compile \/ Stat \/ ReadFile \/ Branch)
  <2>1. UNCHANGED <<stamp, loaded, cache>>
    BY <1>7 DEF Next, FilesChange, ClientActs, ServerActs, Serve, serverVars, Gone,
       vars, EndOfInput, ReadBody, CutBody, CutBodyFatal
  <2> QED BY <1>1, <2>1
<1> QED BY <1>2, <1>3, <1>4, <1>5, <1>6, <1>7

LEMMA ExitTyped ==
  ASSUME PipeInv, ExitOK, [Next]_vars PROVE ExitOK'
<1>1. CASE UNCHANGED <<exit, phase>> BY <1>1 DEF ExitOK
<1>2. CASE EndOfInput \/ CutBody
  BY <1>2 DEF EndOfInput, CutBody, CutBodyFatal, ExitOK, Running
<1>3. CASE ReadBody
  BY <1>3 DEF ReadBody, ExitOK, Running
<1>4. CASE ReadLength \/ Compile \/ Stat \/ ReadFile \/ Branch
  <2>1. phase # "exited" /\ phase' # "exited" /\ UNCHANGED exit
    BY <1>4 DEF ReadLength, Compile, Fails, Stat, ReadFile, Branch
  <2> QED BY <2>1 DEF ExitOK
<1> QED
  BY <1>1, <1>2, <1>3, <1>4 DEF Next, FilesChange, ClientActs, ServerActs, Serve,
     serverVars, Gone, vars

(* The loop keeps its state well formed whatever the client sends and      *)
(* whoever edits the files: in particular every store it holds, caches or  *)
(* hands to a program has its facts under normalized keys only.            *)
THEOREM ResidentTypeCorrect == Spec => []ResidentTypeOK
<1>1. PipeInv /\ KeptInv /\ FilesOK /\ ClientOK /\ StoresOK /\ ExitOK /\ [Next]_vars
        => FilesOK' /\ ClientOK' /\ StoresOK' /\ ExitOK'
  BY FilesTyped, ClientTyped, StoresTyped, ExitTyped
<1>2. Spec => [](FilesOK /\ ClientOK /\ StoresOK /\ ExitOK)
  BY <1>1, InitResidentTyped, ServiceInvariant, PTL DEF Spec
<1> QED BY <1>2, ResidentTypeParts, ServiceInvariant, PTL

=============================================================================
