------------------------------ MODULE TraceMap ------------------------------
(***************************************************************************)
(* What hippocampal memory promises the interpreter, and the form in which *)
(* CubeVM uses it: a map from keys to payloads.  A recall of a stored key  *)
(* gives that key's payload, a recall of any other key some live payload,  *)
(* and nothing is found only when nothing is stored.                       *)
(***************************************************************************)
CONSTANTS Name, Payload, Absent

VARIABLES
  content,   (* [Name -> Payload \cup {Absent}]                             *)
  answer,    (* the key the last call recalled and what it found, or Absent *)
  saved      (* contents the host holds snapshots of                        *)

vars == <<content, answer, saved>>

Stored == {k \in Name : content[k] # Absent}

Init == /\ content = [k \in Name |-> Absent]
        /\ answer = Absent
        /\ saved = {}

Store(k, v) == /\ content' = [content EXCEPT ![k] = v]
               /\ answer' = Absent
               /\ UNCHANGED saved

Forget(k) == /\ content' = [content EXCEPT ![k] = Absent]
             /\ answer' = Absent
             /\ UNCHANGED saved

Recall(k) == /\ \/ k \in Stored /\ answer' = <<k, content[k]>>
                \/ k \notin Stored /\ \E j \in Stored : answer' = <<k, content[j]>>
                \/ Stored = {} /\ answer' = <<k, Absent>>
             /\ UNCHANGED <<content, saved>>

Snapshot == /\ saved' = saved \cup {content}
            /\ answer' = Absent
            /\ UNCHANGED content

Restore == /\ content' \in saved
           /\ answer' = Absent
           /\ UNCHANGED saved

Next == \/ \E k \in Name, v \in Payload : Store(k, v)
        \/ \E k \in Name : Forget(k) \/ Recall(k)
        \/ Snapshot \/ Restore

Spec == Init /\ [][Next]_vars

=============================================================================
