------------------------------- MODULE Memory -------------------------------
(***************************************************************************)
(* Hippocampal memory (src/src/vm/memory.rs) with the index and codebook   *)
(* it is built on (index.rs, codebook.rs), and the copies of it the host   *)
(* holds in snapshots (VM::snapshot, VM::restore).                         *)
(*                                                                         *)
(* A trace's id is its position, a forgotten trace leaves its slot behind, *)
(* and by_key, the slots and the index are three structures the operations *)
(* keep in step by separate statements.                                    *)
(***************************************************************************)
EXTENDS Hypervectors

CONSTANTS
  Name,        (* the keys a program can mention                            *)
  Payload,     (* the values it can store                                   *)
  Absent,
  Books,       (* the codebooks a seed may generate                         *)
  TopK,        (* hits a recall looks at                                    *)
  MaxTraces,   (* bound: slots ever allocated in one memory                 *)
  MaxSaved     (* bound: snapshots held                                     *)

(* SmallRng over an FNV hash of the key: two keys with one vector would    *)
(* take a collision of the 64-bit seed.                                    *)
ASSUME BooksAssumption ==
  /\ Books \subseteq [Name -> Hypervec]
  /\ \A b \in Books : \A j, k \in Name : b[j] = b[k] => j = k

ASSUME MemoryAssumption ==
  /\ Absent \notin Payload /\ Absent \notin Nat
  /\ Absent \notin [key : Name, value : Payload]
  /\ TopK \in Nat \ {0} /\ MaxTraces \in Nat /\ MaxSaved \in Nat

VARIABLES
  book,     (* the vector the generator draws for each key; never changes   *)
  cache,    (* codebook cache                                               *)
  traces,   (* slots: a trace, or Absent once forgotten                     *)
  byKey,    (* exact key -> id, Absent where there is none                  *)
  index,    (* entries <<id, packed key vector>>                            *)
  answer,   (* the key the last call recalled and the payload it found      *)
  nearest,  (* the key that payload was stored under                        *)
  saved     (* clones the host holds                                        *)

state == <<cache, traces, byKey, index>>
vars  == <<book, cache, traces, byKey, index, answer, nearest, saved>>

Trace == [key : Name, value : Payload]
Ids   == DOMAIN traces

(* Codebook::get: the cached vector, or a fresh draw that is then cached.  *)
KeyVec(k) == IF cache[k] # Absent THEN cache[k] ELSE book[k]
Fetched(k) == cache' = [cache EXCEPT ![k] = KeyVec(k)]

NextId    == Len(traces) + 1

Allocate(k, v) ==
  /\ byKey[k] = Absent
  /\ Len(traces) < MaxTraces
  /\ index' = index \cup {<<NextId, Pack(KeyVec(k))>>}
  /\ traces' = Append(traces, [key |-> k, value |-> v])
  /\ byKey' = [byKey EXCEPT ![k] = NextId]
  /\ Fetched(k)

Overwrite(k, v) ==
  /\ byKey[k] # Absent
  /\ traces' = [i \in Ids |-> IF i = byKey[k] THEN [key |-> k, value |-> v]
                              ELSE traces[i]]
  /\ UNCHANGED <<byKey, index, cache>>

Silent == answer' = Absent /\ nearest' = Absent

Store(k, v) == /\ Allocate(k, v) \/ Overwrite(k, v)
               /\ Silent
               /\ UNCHANGED <<book, saved>>

KeepIndexed(id) == index' = index                                \* mutant
Unindex(id)     == index' = {e \in index : e[1] # id}

Forget(k) ==
  /\ IF byKey[k] = Absent THEN UNCHANGED <<traces, byKey, index>>
     ELSE /\ traces' = [i \in Ids |-> IF i = byKey[k] THEN Absent ELSE traces[i]]
          /\ byKey' = [byKey EXCEPT ![k] = Absent]
          /\ Unindex(byKey[k])
  /\ Silent
  /\ UNCHANGED <<book, cache, saved>>

(* HammingIndex::query: the TopK entries of least distance, ties in any    *)
(* order (the sort is unstable).  A recall takes the first that is live.   *)
Distance(e, k) == HammingDist(e[2], Pack(KeyVec(k)))
Farther(e, k)  == {f \in index : Distance(f, k) > Distance(e, k)} \* mutant
Closer(e, k)   == {f \in index : Distance(f, k) < Distance(e, k)}
IsLive(e)      == e[1] \in Ids /\ traces[e[1]] # Absent
Hits(k) == {e \in index : /\ IsLive(e)
                          /\ Cardinality(Closer(e, k)) < TopK
                          /\ \A f \in Closer(e, k) : ~IsLive(f)}

Found(k) == \E e \in Hits(k) : /\ answer'  = <<k, traces[e[1]].value>>
                               /\ nearest' = traces[e[1]].key

Recall(k) ==
  /\ IF index = {} THEN UNCHANGED cache ELSE Fetched(k)
  /\ \/ Found(k)
     \/ Hits(k) = {} /\ answer' = <<k, Absent>> /\ nearest' = Absent
  /\ UNCHANGED <<book, traces, byKey, index, saved>>

Clone == [cache |-> cache, traces |-> traces, byKey |-> byKey, index |-> index]

Snapshot == /\ Cardinality(saved \cup {Clone}) <= MaxSaved
            /\ saved' = saved \cup {Clone}
            /\ Silent
            /\ UNCHANGED <<book, state>>

RestoredButIndex(s) ==                                           \* mutant
  /\ cache' = s.cache /\ traces' = s.traces /\ byKey' = s.byKey
  /\ index' = index
Restored(s) == /\ cache' = s.cache /\ traces' = s.traces
               /\ byKey' = s.byKey /\ index' = s.index

Restore == /\ \E s \in saved : Restored(s)
           /\ Silent
           /\ UNCHANGED <<book, saved>>

-----------------------------------------------------------------------------

Init == /\ book \in Books
        /\ cache = [k \in Name |-> Absent] /\ byKey = [k \in Name |-> Absent]
        /\ traces = <<>> /\ index = {}
        /\ answer = Absent /\ nearest = Absent /\ saved = {}

Next == \/ \E k \in Name, v \in Payload : Store(k, v)
        \/ \E k \in Name : Forget(k) \/ Recall(k)
        \/ Snapshot \/ Restore

Spec == Init /\ [][Next]_vars

-----------------------------------------------------------------------------
(* The memory and every clone of it agree with themselves.                 *)

(* by_key, the slots and the index name the same live traces under the     *)
(* same ids, and each is indexed under its own key's vector: the three     *)
(* structures never drift apart, in the VM or in a snapshot of it.         *)
Agrees(m) ==
  /\ \A k \in Name : m.byKey[k] # Absent =>
       /\ m.byKey[k] \in DOMAIN m.traces
       /\ m.traces[m.byKey[k]] # Absent /\ m.traces[m.byKey[k]].key = k
  /\ \A i \in DOMAIN m.traces : m.traces[i] # Absent =>
       /\ m.byKey[m.traces[i].key] = i
       /\ <<i, Pack(book[m.traces[i].key])>> \in m.index
  /\ \A e \in m.index : /\ e[1] \in DOMAIN m.traces /\ m.traces[e[1]] # Absent
                        /\ e[2] = Pack(book[m.traces[e[1]].key])

StructuresAgree == \A m \in saved \cup {Clone} : Agrees(m)

(* The cleanup is genuine: what a recall matched is a stored key whose     *)
(* vector has the largest dot product with the query's, although the index *)
(* compares packed words (index.rs: exact, no false negatives).            *)
RecallIsNearest ==
  [][nearest' # Absent
       => \A j \in Name : byKey[j] # Absent =>
            Dot(book[answer'[1]], book[j])
              <= Dot(book[answer'[1]], book[nearest'])]_vars

(* The algebra under the addresses: binding undoes itself, a permutation   *)
(* is inverted for every shift (hypervec.rs: rho^k is invertible), and a   *)
(* bundle is the majority vote however the sum is chunked.  The book never *)
(* changes, so it is enough to ask this of a fresh memory.                 *)
Drawn == {book[k] : k \in Name}
AlgebraHolds == traces = <<>> /\ saved = {} =>
  \A v, w \in Drawn :
    /\ Unbind(Bind(v, w), w) = v
    /\ \A k \in 0 .. 2 * Dim : Unpermute(Permute(v, k), k) = v
    /\ CosineSim(v, w) = Dot(v, w)
    /\ \A u \in Drawn : \A i \in Component :
         Bundle(<<u, v, w>>)[i] = 1 <=> Majority(<<u, v, w>>, i)

-----------------------------------------------------------------------------
(* The abstract map this memory implements.                                *)

ContentOf(m) == [k \in Name |-> IF m.byKey[k] = Absent THEN Absent
                                ELSE m.traces[m.byKey[k]].value]

Abstract == INSTANCE TraceMap WITH
  content <- ContentOf(Clone), saved <- {ContentOf(m) : m \in saved}

(* Storing, overwriting, forgetting and recalling through ids, tombstones  *)
(* and an approximate index is indistinguishable from the exact map the    *)
(* interpreter model uses: no stale payload, no resurrected key.           *)
ImplementsTraceMap == Abstract!Spec

=============================================================================
