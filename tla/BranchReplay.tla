---------------------------- MODULE BranchReplay ----------------------------
(***************************************************************************)
(* A host that explores branches of one VM (docs/BRANCH.md): it snapshots  *)
(* the machine at a suspension, resumes with one candidate, restores, and  *)
(* resumes again.  The history variables note what a resumed run started   *)
(* from and how it ended, to state what VM::snapshot promises: a restored  *)
(* branch starts from everything its run depends on.                       *)
(***************************************************************************)
EXTENDS CubeVM

VARIABLES
  at,        (* the snapshot the host last took or restored, none once it   *)
             (* has touched the machine in another way                      *)
  trial,     (* what the current resumed run started from                   *)
  outcomes   (* (start, end) of every finished run                          *)

branchVars == <<at, trial, outcomes>>

NoTrial == [from |-> {}, spelled |-> {}, susp |-> {}, answer |-> Null]
View == [registers |-> registers, stack |-> stack, storage |-> storage,
         memory |-> memory, accumulator |-> accumulator, knowledge |-> knowledge]

BranchInit == Init /\ at = {} /\ trial = NoTrial /\ outcomes = {}

Enter(f, args) == Call(f, args) /\ at' = {} /\ UNCHANGED <<trial, outcomes>>

(* A resume on a machine just snapshotted or restored is a trial.          *)
Continue(s, answer) ==
  /\ Resume(s, answer)
  /\ trial' = [from |-> at, spelled |-> spelled, susp |-> {s}, answer |-> answer]
  /\ at' = {}
  /\ UNCHANGED outcomes

Run == /\ Execute
       /\ outcomes' = IF frames' = <<>> /\ trial.from # {}
                      THEN outcomes \cup {[start |-> trial, end |-> <<result', View'>>]}
                      ELSE outcomes
       /\ trial' = IF frames' = <<>> THEN NoTrial ELSE trial
       /\ UNCHANGED at

Hold == Snapshot /\ at' = {View} /\ UNCHANGED <<trial, outcomes>>
GoBack(s) == Restore(s) /\ at' = {s} /\ UNCHANGED <<trial, outcomes>>
Without(m) == Exclude(m) /\ at' = {} /\ UNCHANGED <<trial, outcomes>>

BranchNext ==
  \/ \E f \in FnName, args \in HostArgs : IsOwn(f) /\ Enter(f, args)
  \/ \E i \in DOMAIN susps, answer \in Answers : Continue(susps[i], answer)
  \/ Run
  \/ Hold
  \/ \E s \in snaps : GoBack(s)
  \/ \E m \in Sym : Without(m)
  \/ HostDone /\ UNCHANGED branchVars

BranchSpec == BranchInit /\ [][BranchNext]_<<vars, branchVars>>

(* Two runs resumed from the same snapshot of the same suspension with the *)
(* same answer and the same name table end in the same result and the same *)
(* machine, whatever ran in between.  The name table is in no snapshot:    *)
(* what runs in between may add to it.  What VM::restore keeps by design   *)
(* is the exception: @once may refuse a replay of what the first run did,  *)
(* and so may a budget of the whole VM or the clock.                       *)
NotRestored == {"once", "op budget", "query budget", "wall budget"}
Refused(o) == o.end[1].why \in NotRestored
SameBranchSameEnd ==
  \A a, b \in outcomes :
    a.start = b.start => a.end = b.end \/ Refused(a) \/ Refused(b)

(* "Everything VM::snapshot captures and VM::restore puts back: the        *)
(* program-visible state": the snapshot, the suspension and the answer     *)
(* alone decide how a branch ends.  Not so, and in no run: README,         *)
(* section 5.                                                              *)
SnapshotDecidesEnd ==
  \A a, b \in outcomes :
    [a.start EXCEPT !.spelled = {}] = [b.start EXCEPT !.spelled = {}]
      => a.end = b.end \/ Refused(a) \/ Refused(b)

=============================================================================
