--------------------------- MODULE VsaFramesProofs ---------------------------
(***************************************************************************)
(* For any registers, roles, fillers and bounds: the frame map keeps its   *)
(* type, a cleanup pool holds the running activation's own fillers only,   *)
(* and a frame built in place answers exactly.                             *)
(*                                                                         *)
(* The inductive invariant says the same of every pair of maps the machine *)
(* keeps: the current one, each suspended caller's, and the snapshot's.    *)
(***************************************************************************)
EXTENDS VsaFrames, SequenceTheorems, TLAPS

RolesOf(v)   == {p[1] : p \in v.pairs}
FillersOf(v) == {p[2] : p \in v.pairs}

\* A vector built in place has exactly the roles and fillers of its note.
NotesMatch(regs, frames) ==
  \A r \in Reg : regs[r].inPlace =>
    /\ regs[r].kind = "hvec" /\ regs[r].pairs # {}
    /\ frames[r] = [roles |-> RolesOf(regs[r]), fillers |-> FillersOf(regs[r])]

Sound(regs, frames, who) == NotesMatch(regs, frames) /\ OwnFillers(frames, who)

\* Nothing on a stack counts as built in place.
Loose(values) == \A i \in 1..Len(values) : ~values[i].inPlace

HostIsOutermost ==
  IF callers = <<>> THEN me = 0 ELSE callers[1].me = 0

IInv == /\ FramesTypeOK
        /\ Sound(registers, vsaFrames, me)
        /\ \A i \in 1..Len(callers) :
             Sound(callers[i].registers, callers[i].vsaFrames, callers[i].me)
        /\ Sound(held.registers, held.vsaFrames, 0)
        /\ Loose(stack) /\ Loose(held.stack)
        /\ HostIsOutermost

-----------------------------------------------------------------------------
(* Values, and files of registers and notes.                               *)

LEMMA ValueFacts ==
  /\ Scalar \in Value /\ ~Scalar.inPlace
  /\ \A v \in Value : Moved(v) \in Value /\ ~Moved(v).inPlace
  /\ \A v \in Value : v.inPlace \in BOOLEAN /\ v.pairs \subseteq Pair
<1>1. Scalar \in Value /\ ~Scalar.inPlace BY DEF Value, Scalar
<1>2. ASSUME NEW v \in Value
      PROVE  /\ Moved(v) \in Value /\ ~Moved(v).inPlace
             /\ v.inPlace \in BOOLEAN /\ v.pairs \subseteq Pair
  <2>1. CASE v = Scalar BY <2>1 DEF Scalar, Value, Moved
  <2>2. CASE v \in [kind: {"hvec"}, pairs: SUBSET Pair, inPlace: BOOLEAN]
    BY <2>2 DEF Value, Moved, Hvec, Scalar
  <2> QED BY <2>1, <2>2 DEF Value
<1> QED BY <1>1, <1>2

LEMMA CleanStart ==
  /\ Empty \in [Reg -> Value] /\ Unnoted \in [Reg -> Frame]
  /\ \A frames : NotesMatch(Empty, frames)
  /\ \A who : OwnFillers(Unnoted, who)
BY ValueFacts DEF Empty, Unnoted, Frame, NoFrame, NotesMatch, OwnFillers

\* A value that is not built in place may be written anywhere.
LEMMA WriteLoose ==
  ASSUME NEW regs \in [Reg -> Value], NEW frames, NEW r \in Reg, NEW v \in Value,
         ~v.inPlace, NotesMatch(regs, frames)
  PROVE  /\ [regs EXCEPT ![r] = v] \in [Reg -> Value]
         /\ NotesMatch([regs EXCEPT ![r] = v], frames)
BY DEF NotesMatch

LEMMA Pushed ==
  ASSUME NEW s \in Seq(Value), Loose(s), NEW v \in Value, ~v.inPlace,
         Len(s) < MaxStack
  PROVE  /\ Append(s, v) \in Seq(Value) /\ Loose(Append(s, v))
         /\ Len(Append(s, v)) <= MaxStack
BY BoundsAssumption DEF Loose

LEMMA Popped ==
  ASSUME NEW s \in Seq(Value), Loose(s), s # <<>>, Len(s) <= MaxStack
  PROVE  /\ s[Len(s)] \in Value /\ ~s[Len(s)].inPlace
         /\ SubSeq(s, 1, Len(s) - 1) \in Seq(Value)
         /\ Loose(SubSeq(s, 1, Len(s) - 1))
         /\ Len(SubSeq(s, 1, Len(s) - 1)) <= MaxStack
<1>1. Len(s) \in Nat \ {0} BY EmptySeq
<1>2. Len(SubSeq(s, 1, Len(s) - 1)) = Len(s) - 1 BY <1>1
<1> QED BY <1>1, <1>2, BoundsAssumption DEF Loose

-----------------------------------------------------------------------------
(* The inductive invariant.                                                *)

\* What the snapshot and the suspended callers promise.
KeptSound == /\ \A i \in 1..Len(callers) :
                  Sound(callers[i].registers, callers[i].vsaFrames, callers[i].me)
             /\ Sound(held.registers, held.vsaFrames, 0)

LEMMA Initially == ASSUME Init PROVE IInv
<1>1. FramesTypeOK BY BoundsAssumption, CleanStart DEF Init, FramesTypeOK
<1>2. Sound(Empty, Unnoted, 0) BY CleanStart DEF Sound
<1> QED BY <1>1, <1>2 DEF Init, IInv, Loose, HostIsOutermost

\* A step that binds nothing keeps what an activation may have noted.
LEMMA SameBindings ==
  ASSUME bindings' = bindings
  PROVE  \A regs, frames, who : Sound(regs, frames, who)' <=> Sound(regs, frames, who)
BY DEF Sound, NotesMatch, OwnFillers, BoundHere

\* What every step must show of the maps it leaves behind.
LEMMA Reinstated ==
  ASSUME FramesTypeOK', Sound(registers, vsaFrames, me)', KeptSound',
         Loose(stack'), Loose(held'.stack), HostIsOutermost'
  PROVE  IInv'
BY DEF IInv, KeptSound, Loose

LEMMA Unpacked ==
  ASSUME IInv
  PROVE  /\ FramesTypeOK /\ Sound(registers, vsaFrames, me) /\ KeptSound
         /\ Loose(stack) /\ Loose(held.stack) /\ HostIsOutermost
BY DEF IInv, KeptSound

\* The snapshot and the callers stay as sound as they were when neither
\* they nor the bindings change.
LEMMA KeptAlike ==
  ASSUME KeptSound, UNCHANGED <<callers, held, bindings>>
  PROVE  KeptSound'
BY SameBindings DEF KeptSound

\* A running activation that writes registers with values not built in
\* place, and no note, keeps the invariant.
LEMMA WritesRegisters ==
  ASSUME IInv, NEW r \in Reg, NEW v \in Value, ~v.inPlace,
         registers' = [registers EXCEPT ![r] = v],
         stack' \in Seq(Value), Len(stack') <= MaxStack, Loose(stack'),
         UNCHANGED <<vsaFrames, named, callers, me, calls, held, binds, bindings>>
  PROVE  IInv'
<1> USE Unpacked
<1>1. FramesTypeOK' BY WriteLoose DEF FramesTypeOK, Sound
<1>2. Sound(registers, vsaFrames, me)'
  <2>1. NotesMatch(registers, vsaFrames) /\ OwnFillers(vsaFrames, me)
    BY DEF Sound
  <2>2. NotesMatch(registers', vsaFrames) BY <2>1, WriteLoose DEF FramesTypeOK
  <2>3. NotesMatch(registers, vsaFrames)' BY <2>2 DEF NotesMatch
  <2>4. OwnFillers(vsaFrames, me)' BY <2>1 DEF OwnFillers, BoundHere
  <2> QED BY <2>3, <2>4 DEF Sound
<1>3. KeptSound' BY KeptAlike
<1> QED BY <1>1, <1>2, <1>3, Reinstated DEF HostIsOutermost

\* So does one that only touches the stack.
LEMMA TouchesStack ==
  ASSUME IInv, stack' \in Seq(Value), Len(stack') <= MaxStack, Loose(stack'),
         UNCHANGED <<registers, vsaFrames, named, callers, me, calls, held,
                     binds, bindings>>
  PROVE  IInv'
<1> USE Unpacked
<1>1. FramesTypeOK' BY DEF FramesTypeOK
<1>2. Sound(registers, vsaFrames, me)'
  BY DEF Sound, NotesMatch, OwnFillers, BoundHere
<1>3. KeptSound' BY KeptAlike
<1> QED BY <1>1, <1>2, <1>3, Reinstated DEF HostIsOutermost

-----------------------------------------------------------------------------
(* One lemma per action that does more than that.                          *)

LEMMA PairParts ==
  ASSUME NEW P \in SUBSET Pair, NEW role \in Role, NEW filler \in Filler
  PROVE  /\ {p[1] : p \in P \cup {<<role, filler>>}} = {p[1] : p \in P} \cup {role}
         /\ {p[2] : p \in P \cup {<<role, filler>>}} = {p[2] : p \in P} \cup {filler}
<1> DEFINE pair == <<role, filler>>
           Q    == P \cup {pair}
<1>1. pair \in Q /\ pair[1] = role /\ pair[2] = filler OBVIOUS
<1>2. \A p \in Q : p \in P \/ p = pair OBVIOUS
<1>3. P \subseteq Q OBVIOUS
<1> HIDE DEF pair, Q
<1>4. {p[1] : p \in Q} = {p[1] : p \in P} \cup {role} BY <1>1, <1>2, <1>3
<1>5. {p[2] : p \in Q} = {p[2] : p \in P} \cup {filler} BY <1>1, <1>2, <1>3
<1> QED BY <1>4, <1>5 DEF Q, pair

LEMMA BindRoleStep ==
  ASSUME IInv, NEW r \in Reg, NEW role \in Role, NEW filler \in Filler,
         BindRole(r, role, filler)
  PROVE  IInv'
<1> USE Unpacked DEF BindRole, machine
<1> DEFINE pair == <<role, filler>>
           b == [by |-> me, reg |-> r, role |-> role, filler |-> filler]
<1>1. Combined(r, pair) \in Value
  <2>1. registers[r] \in Value /\ pair \in Pair BY DEF FramesTypeOK, Pair
  <2>2. registers[r].pairs \in SUBSET Pair /\ registers[r].inPlace \in BOOLEAN
    BY <2>1, ValueFacts
  <2> QED BY <2>1, <2>2 DEF Combined, Hvec, Value
<1>2. Noted(vsaFrames[r], role, filler) \in Frame
  <2>1. vsaFrames[r] \in Frame BY DEF FramesTypeOK
  <2> DEFINE rs == vsaFrames[r].roles \cup {role}
             fs == vsaFrames[r].fillers \cup {filler}
  <2>2. rs \in (SUBSET Role) \ {{}} /\ fs \in (SUBSET Filler) \ {{}}
    BY <2>1 DEF Frame, NoFrame
  <2> HIDE DEF rs, fs
  <2>3. [roles |-> rs, fillers |-> fs] \in Frame BY <2>2 DEF Frame
  <2> QED BY <2>3 DEF Noted, rs, fs
<1>3. FramesTypeOK'
  <2>1. registers' \in [Reg -> Value] BY <1>1 DEF FramesTypeOK
  <2>2. vsaFrames' \in [Reg -> Frame] BY <1>2 DEF FramesTypeOK
  <2>3. binds' \in Nat /\ binds' <= MaxBinds BY BoundsAssumption DEF FramesTypeOK
  <2>4. bindings' \subseteq [by: Nat, reg: Reg, role: Role, filler: Filler]
    BY DEF FramesTypeOK
  <2> QED BY <2>1, <2>2, <2>3, <2>4 DEF FramesTypeOK
<1>4. ASSUME NEW frames, NEW who, OwnFillers(frames, who)
      PROVE  OwnFillers(frames, who)'
  BY <1>4 DEF OwnFillers, BoundHere
<1>5. NotesMatch(registers, vsaFrames)'
  <2> SUFFICES ASSUME NEW q \in Reg, registers'[q].inPlace
               PROVE  /\ registers'[q].kind = "hvec" /\ registers'[q].pairs # {}
                      /\ vsaFrames'[q] = [roles   |-> RolesOf(registers'[q]),
                                          fillers |-> FillersOf(registers'[q])]
    BY DEF NotesMatch
  <2>1. CASE q # r
    BY <2>1 DEF Sound, NotesMatch, FramesTypeOK
  <2>2. CASE q = r /\ registers[r].kind = "hvec"
    <3>1. registers'[r] = Hvec(registers[r].pairs \cup {pair}, registers[r].inPlace)
      BY <2>2 DEF Combined, FramesTypeOK
    <3>2. /\ registers[r].inPlace
          /\ vsaFrames[r] = [roles |-> RolesOf(registers[r]),
                             fillers |-> FillersOf(registers[r])]
      BY <2>2, <3>1 DEF Hvec, Sound, NotesMatch
    <3>3. vsaFrames'[r] = Noted(vsaFrames[r], role, filler) BY DEF FramesTypeOK
    <3>4. registers[r].pairs \in SUBSET Pair BY ValueFacts DEF FramesTypeOK
    <3>5. /\ RolesOf(registers'[r]) = RolesOf(registers[r]) \cup {role}
          /\ FillersOf(registers'[r]) = FillersOf(registers[r]) \cup {filler}
      <4> DEFINE P == registers[r].pairs
      <4>1. registers'[r].pairs = P \cup {<<role, filler>>} BY <3>1 DEF Hvec
      <4> HIDE DEF P
      <4>2. P \in SUBSET Pair BY <3>4 DEF P
      <4> QED BY <4>1, <4>2, PairParts DEF RolesOf, FillersOf, P
    <3>6. registers'[r].kind = "hvec" /\ registers'[r].pairs # {} BY <3>1 DEF Hvec
    <3>7. vsaFrames'[r] = [roles   |-> RolesOf(registers'[r]),
                           fillers |-> FillersOf(registers'[r])]
      <4>1. /\ vsaFrames[r].roles = RolesOf(registers[r])
            /\ vsaFrames[r].fillers = FillersOf(registers[r])
        BY <3>2
      <4> QED BY <4>1, <3>3, <3>5 DEF Noted
    <3> QED BY <2>2, <3>6, <3>7
  <2>3. CASE q = r /\ registers[r].kind # "hvec"
    <3>1. registers'[r] = Hvec({pair}, vsaFrames[r] = NoFrame)
      BY <2>3 DEF Combined, FramesTypeOK
    <3>2. vsaFrames[r] = NoFrame
      <4> SUFFICES ASSUME vsaFrames[r] # NoFrame PROVE FALSE OBVIOUS
      <4>1. (vsaFrames[r] = NoFrame) = FALSE OBVIOUS
      <4>2. registers'[r] = Hvec({pair}, FALSE) BY <3>1, <4>1, Zenon
      <4> QED BY <4>2, <2>3 DEF Hvec
    <3>3. vsaFrames'[r] = Noted(NoFrame, role, filler) BY <3>2 DEF FramesTypeOK
    <3>4. RolesOf(registers'[r]) = {role} /\ FillersOf(registers'[r]) = {filler}
      BY <3>1 DEF Hvec, RolesOf, FillersOf
    <3>5. registers'[r].kind = "hvec" /\ registers'[r].pairs # {} BY <3>1 DEF Hvec
    <3>6. vsaFrames'[r] = [roles |-> {role}, fillers |-> {filler}]
      BY <3>3 DEF Noted, NoFrame
    <3> QED BY <2>3, <3>4, <3>5, <3>6
  <2> QED BY <2>1, <2>2, <2>3
<1>6. OwnFillers(vsaFrames, me)'
  <2> SUFFICES ASSUME NEW q \in Reg, NEW f \in vsaFrames'[q].fillers
               PROVE  \E c \in bindings' : c.by = me /\ c.reg = q /\ c.filler = f
    BY DEF OwnFillers, BoundHere
  <2>1. CASE f \in vsaFrames[q].fillers
    BY <2>1 DEF Sound, OwnFillers, BoundHere
  <2>2. CASE f \notin vsaFrames[q].fillers
    <3>1. q = r /\ f = filler BY <2>2 DEF FramesTypeOK, Noted
    <3>2. b \in bindings' /\ b.by = me /\ b.reg = q /\ b.filler = f BY <3>1
    <3> QED BY <3>2
  <2> QED BY <2>1, <2>2
<1>7. KeptSound'
  BY <1>4 DEF KeptSound, Sound, NotesMatch
<1> QED BY <1>3, <1>5, <1>6, <1>7, Reinstated DEF Sound, HostIsOutermost

LEMMA UnbindStep ==
  ASSUME IInv, NEW r \in Reg, NEW role \in Role, Unbind(r, role)
  PROVE  IInv'
<1> USE Unpacked DEF machine, ghosts
<1>1. stack' \in Seq(Value) /\ Len(stack') <= MaxStack /\ Loose(stack')
  BY DEF Unbind, FramesTypeOK, Loose
<1>2. CASE registers' = registers
  BY <1>1, <1>2, TouchesStack DEF Unbind
<1>3. CASE registers' = [registers EXCEPT ![r] = Scalar]
  BY <1>1, <1>3, ValueFacts, WritesRegisters DEF Unbind
<1> QED BY <1>2, <1>3 DEF Unbind

LEMMA StackStep ==
  ASSUME IInv, NEW r \in Reg,
         \/ \E role \in Role : Recover(r, role)
         \/ Push(r)
  PROVE  IInv'
<1> USE Unpacked DEF ghosts
<1>1. registers[r] \in Value BY DEF FramesTypeOK
<1>2. PICK v \in Value : stack' = Append(stack, v) /\ ~v.inPlace
  BY <1>1, ValueFacts DEF Recover, Push
<1>3. stack' \in Seq(Value) /\ Len(stack') <= MaxStack /\ Loose(stack')
  BY <1>2, Pushed DEF Recover, Push, FramesTypeOK
<1> QED BY <1>3, TouchesStack DEF Recover, Push

LEMMA MoveStep ==
  ASSUME IInv, NEW r \in Reg,
         \/ Overwrite(r)
         \/ \E src \in Reg : Copy(src, r)
         \/ Pop(r)
  PROVE  IInv'
<1> USE Unpacked DEF machine, ghosts
<1>1. stack \in Seq(Value) /\ Len(stack) <= MaxStack BY DEF FramesTypeOK
<1>2. CASE Overwrite(r)
  BY <1>1, <1>2, ValueFacts, WritesRegisters DEF Overwrite, Loose
<1>3. ASSUME NEW src \in Reg, Copy(src, r) PROVE IInv'
  <2>1. registers[src] \in Value BY DEF FramesTypeOK
  <2> QED BY <1>1, <1>3, <2>1, ValueFacts, WritesRegisters DEF Copy, Loose
<1>4. CASE Pop(r) /\ stack = <<>>
  BY <1>1, <1>4, ValueFacts, WritesRegisters DEF Pop, Loose
<1>5. CASE Pop(r) /\ stack # <<>>
  BY <1>1, <1>5, Popped, WritesRegisters DEF Pop
<1> QED BY <1>2, <1>3, <1>4, <1>5

LEMMA CallStep ==
  ASSUME IInv, NEW r \in Reg, Call(r)
  PROVE  IInv'
<1> USE Unpacked DEF Call, ghosts, CalleeFrames
<1> DEFINE saved == [registers |-> registers, vsaFrames |-> vsaFrames, me |-> me]
           Saved == [registers: [Reg -> Value], vsaFrames: [Reg -> Frame], me: Nat]
<1>1. saved \in Saved /\ callers \in Seq(Saved) BY DEF FramesTypeOK
<1>2. /\ registers' \in [Reg -> Value]
      /\ NotesMatch(registers', vsaFrames')
  <2>1. Moved(registers[r]) \in Value /\ ~Moved(registers[r]).inPlace
    BY ValueFacts DEF FramesTypeOK
  <2> QED BY <2>1, CleanStart, ArgRegAssumption, WriteLoose
<1>3. FramesTypeOK'
  <2>1. callers' \in Seq(Saved) /\ Len(callers') <= MaxCallDepth
    BY <1>1, BoundsAssumption
  <2>2. me' \in Nat /\ calls' \in Nat /\ calls' <= MaxCalls
    BY BoundsAssumption DEF FramesTypeOK
  <2> QED BY <1>2, <2>1, <2>2, CleanStart, ArgRegAssumption DEF FramesTypeOK
<1>4. Sound(registers, vsaFrames, me)'
  <2>1. OwnFillers(vsaFrames, me)'
    BY CleanStart, ArgRegAssumption DEF OwnFillers, BoundHere, Unnoted, NoFrame
  <2>2. NotesMatch(registers, vsaFrames)' BY <1>2 DEF NotesMatch
  <2> QED BY <2>1, <2>2 DEF Sound
<1>5. KeptSound'
  <2>1. ASSUME NEW i \in 1..Len(callers')
        PROVE  Sound(callers'[i].registers, callers'[i].vsaFrames, callers'[i].me)
    <3> HIDE DEF Call
    <3>1. callers' = Append(callers, saved) BY DEF Call
    <3>2. CASE i = Len(callers) + 1
      <4>1. callers'[i] = saved BY <3>1, <3>2, <1>1
      <4> QED BY <4>1
    <3>3. CASE i \in 1..Len(callers)
      <4>1. callers'[i] = callers[i] BY <3>1, <3>3, <1>1
      <4> QED BY <4>1, <3>3 DEF KeptSound
    <3> QED BY <3>1, <3>2, <3>3, <1>1
  <2> QED BY <2>1 DEF KeptSound, Sound, NotesMatch, OwnFillers, BoundHere
<1>6. HostIsOutermost'
  BY <1>1 DEF HostIsOutermost
<1> QED BY <1>3, <1>4, <1>5, <1>6, Reinstated DEF Loose

LEMMA CutBack ==
  ASSUME NEW S, NEW s \in Seq(S), NEW k \in 1..Len(s)
  PROVE  /\ k \in Nat \ {0} /\ k <= Len(s) /\ s[k] \in S
         /\ SubSeq(s, 1, k - 1) \in Seq(S) /\ Len(SubSeq(s, 1, k - 1)) = k - 1
         /\ \A i \in 1..(k - 1) : SubSeq(s, 1, k - 1)[i] = s[i] /\ i \in 1..Len(s)
<1>1. k - 1 \in Int /\ \A i \in 1..(k - 1) : s[i] \in S /\ i \in 1..Len(s)
  OBVIOUS
<1>2. k \in Nat \ {0} /\ k <= Len(s) /\ s[k] \in S OBVIOUS
<1> QED BY <1>1, <1>2, SubSeqProperties

\* The maps of a suspended caller, put back with k callers left.
LEMMA Reentered ==
  ASSUME IInv, NEW k \in 1..Len(callers), Resume(callers[k]),
         callers' = SubSeq(callers, 1, k - 1),
         stack' \in Seq(Value), Len(stack') <= MaxStack, Loose(stack'),
         UNCHANGED <<named, calls, held, binds, bindings>>
  PROVE  IInv'
<1> USE Unpacked DEF Resume
<1> DEFINE Saved == [registers: [Reg -> Value], vsaFrames: [Reg -> Frame], me: Nat]
<1>1. callers \in Seq(Saved) /\ Len(callers) <= MaxCallDepth BY DEF FramesTypeOK
<1> HIDE DEF Saved
<1>2. callers[k] \in Saved /\ k \in Nat \ {0} /\ k <= Len(callers)
  BY <1>1, CutBack
<1>3. callers' \in Seq(Saved) /\ Len(callers') = k - 1
  BY <1>1, CutBack
<1>4. \A i \in 1..(k - 1) : callers'[i] = callers[i] /\ i \in 1..Len(callers)
  BY <1>1, CutBack
<1>5. FramesTypeOK'
  <2>1. Len(callers') <= MaxCallDepth
    <3>1. Len(callers) \in Nat /\ MaxCallDepth \in Nat BY <1>1, BoundsAssumption
    <3> QED BY <1>1, <1>2, <1>3, <3>1
  <2>2. /\ registers' \in [Reg -> Value] /\ vsaFrames' \in [Reg -> Frame]
        /\ me' \in Nat
    BY <1>2 DEF Saved
  <2> HIDE DEF Resume
  <2> QED BY <1>3, <2>1, <2>2 DEF FramesTypeOK, Saved
<1>6. Sound(registers, vsaFrames, me)'
  <2>1. Sound(callers[k].registers, callers[k].vsaFrames, callers[k].me)
    BY DEF KeptSound
  <2>2. NotesMatch(registers', vsaFrames') BY <2>1 DEF Sound
  <2>3. OwnFillers(vsaFrames, me)' BY <2>1 DEF Sound, OwnFillers, BoundHere
  <2>4. NotesMatch(registers, vsaFrames)' BY <2>2 DEF NotesMatch
  <2> QED BY <2>3, <2>4 DEF Sound
<1>7. KeptSound'
  <2>1. ASSUME NEW i \in 1..(k - 1)
        PROVE  Sound(callers'[i].registers, callers'[i].vsaFrames, callers'[i].me)
    <3>1. callers'[i] = callers[i] /\ i \in 1..Len(callers) BY <1>4
    <3> QED BY <3>1 DEF KeptSound
  <2>2. KeptSound' <=>
          (/\ \A i \in 1..(k - 1) :
               Sound(callers'[i].registers, callers'[i].vsaFrames, callers'[i].me)
           /\ Sound(held.registers, held.vsaFrames, 0))
    BY <1>3 DEF KeptSound, Sound, NotesMatch, OwnFillers, BoundHere
  <2> QED BY <2>1, <2>2 DEF KeptSound
<1>8. HostIsOutermost'
  <2>1. callers # <<>> /\ callers[1].me = 0 BY <1>1, <1>2 DEF HostIsOutermost
  <2>2. CASE k = 1 BY <1>3, <2>1, <2>2 DEF HostIsOutermost
  <2>3. CASE k # 1
    <3>1. 1 \in 1..(k - 1) /\ Len(callers') # 0 BY <1>2, <1>3, <2>3
    <3>2. callers' # <<>> /\ callers'[1] = callers[1] BY <1>3, <1>4, <3>1, EmptySeq
    <3> QED BY <2>1, <3>2 DEF HostIsOutermost
  <2> QED BY <2>2, <2>3
<1> QED BY <1>5, <1>6, <1>7, <1>8, Reinstated

LEMMA LeaveStep ==
  ASSUME IInv, Fault \/ \E r \in Reg : Return(r)
  PROVE  IInv'
<1> USE Unpacked DEF ghosts
<1>1. callers \in Seq([registers: [Reg -> Value], vsaFrames: [Reg -> Frame], me: Nat])
  BY DEF FramesTypeOK
<1>2. callers # <<>> BY DEF Fault, Return
<1>3. Len(callers) \in 1..Len(callers) /\ 1 \in 1..Len(callers)
  BY <1>1, <1>2, EmptySeq
<1>4. CASE Fault
  <2>1. callers' = SubSeq(callers, 1, 1 - 1) BY <1>4, SubSeqEmpty DEF Fault
  <2> QED BY <1>3, <1>4, <2>1, Reentered DEF Fault, FramesTypeOK, Loose
<1>5. ASSUME NEW r \in Reg, Return(r) PROVE IInv'
  <2>1. Moved(registers[r]) \in Value /\ ~Moved(registers[r]).inPlace
    BY ValueFacts DEF FramesTypeOK
  <2>2. stack' \in Seq(Value) /\ Len(stack') <= MaxStack /\ Loose(stack')
    BY <1>5, <2>1, Pushed DEF Return, FramesTypeOK
  <2> QED BY <1>3, <1>5, <2>2, Reentered DEF Return
<1> QED BY <1>4, <1>5

LEMMA HostCallStep ==
  ASSUME IInv, NEW param \in Reg, HostCall(param)
  PROVE  IInv'
<1> USE Unpacked DEF HostCall, ghosts
<1> DEFINE once  == [registers EXCEPT ![param] = Scalar]
           twice == [once EXCEPT ![ArgReg] = Scalar]
<1>1. NotesMatch(registers, vsaFrames) /\ OwnFillers(vsaFrames, me) BY DEF Sound
<1>2. once \in [Reg -> Value] /\ NotesMatch(once, vsaFrames)
  BY <1>1, ValueFacts, WriteLoose DEF FramesTypeOK
<1>3. twice \in [Reg -> Value] /\ NotesMatch(twice, vsaFrames)
  <2> HIDE DEF once
  <2> QED BY <1>2, ValueFacts, WriteLoose, ArgRegAssumption
<1>4. registers' = twice OBVIOUS
<1> HIDE DEF twice
<1>5. FramesTypeOK' BY <1>3, <1>4, ArgRegAssumption DEF FramesTypeOK
<1>6. Sound(registers, vsaFrames, me)'
  BY <1>1, <1>3, <1>4 DEF Sound, NotesMatch, OwnFillers, BoundHere
<1> QED BY <1>5, <1>6, KeptAlike, Reinstated DEF Loose, HostIsOutermost

LEMMA SnapshotStep ==
  ASSUME IInv, Snapshot
  PROVE  IInv'
<1> USE Unpacked DEF Snapshot, Captured, ghosts
<1>1. FramesTypeOK' BY DEF FramesTypeOK
<1>2. Sound(registers, vsaFrames, 0) /\ Len(callers) = 0 BY DEF HostIsOutermost
<1>3. Sound(registers, vsaFrames, me)'
  BY DEF Sound, NotesMatch, OwnFillers, BoundHere
<1>4. KeptSound'
  BY <1>2 DEF KeptSound, Sound, NotesMatch, OwnFillers, BoundHere
<1> QED BY <1>1, <1>3, <1>4, Reinstated DEF Loose, HostIsOutermost

LEMMA RestoreStep ==
  ASSUME IInv, Restore
  PROVE  IInv'
<1> USE Unpacked DEF Restore, ghosts
<1>1. Sound(held.registers, held.vsaFrames, me) BY DEF KeptSound, HostIsOutermost
<1>2. Sound(registers, vsaFrames, me)'
  BY <1>1 DEF Sound, NotesMatch, OwnFillers, BoundHere
<1>3. FramesTypeOK' BY DEF FramesTypeOK
<1> QED BY <1>2, <1>3, KeptAlike, Reinstated DEF Loose, HostIsOutermost

LEMMA ResetStep ==
  ASSUME IInv, Reset
  PROVE  IInv'
<1> USE Unpacked DEF Reset, ghosts
<1>1. FramesTypeOK' BY CleanStart, BoundsAssumption DEF FramesTypeOK
<1>2. NotesMatch(Empty, vsaFrames) /\ OwnFillers(vsaFrames, me) BY CleanStart DEF Sound
<1>3. Sound(registers, vsaFrames, me)'
  BY <1>2 DEF Sound, NotesMatch, OwnFillers, BoundHere
<1> QED BY <1>1, <1>3, KeptAlike, Reinstated DEF Loose, HostIsOutermost

-----------------------------------------------------------------------------
(* The theorems.                                                           *)

LEMMA Preserved == ASSUME IInv, [Next]_vars PROVE IInv'
<1>1. CASE UNCHANGED vars
  BY <1>1, Unpacked, TouchesStack DEF vars, FramesTypeOK, Loose
<1>2. ASSUME NEW r \in Reg, NEW role \in Role, NEW filler \in Filler,
             BindRole(r, role, filler)
      PROVE  IInv'
  BY <1>2, BindRoleStep
<1>3. ASSUME NEW r \in Reg, NEW role \in Role, Unbind(r, role) PROVE IInv'
  BY <1>3, UnbindStep
<1>4. ASSUME NEW r \in Reg, NEW role \in Role, Recover(r, role) PROVE IInv'
  BY <1>4, StackStep
<1>5. ASSUME NEW r \in Reg, Overwrite(r) \/ Pop(r) PROVE IInv'
  BY <1>5, MoveStep
<1>6. ASSUME NEW r \in Reg, Push(r) PROVE IInv'
  BY <1>6, StackStep
<1>7. ASSUME NEW src \in Reg, NEW dst \in Reg, Copy(src, dst) PROVE IInv'
  BY <1>7, MoveStep
<1>8. ASSUME NEW r \in Reg, Call(r) PROVE IInv'
  BY <1>8, CallStep
<1>9. ASSUME NEW r \in Reg, Return(r) PROVE IInv'
  BY <1>9, LeaveStep
<1>10. ASSUME NEW param \in Reg, HostCall(param) PROVE IInv'
  BY <1>10, HostCallStep
<1>11. CASE Fault BY <1>11, LeaveStep
<1>12. CASE Snapshot BY <1>12, SnapshotStep
<1>13. CASE Restore BY <1>13, RestoreStep
<1>14. CASE Reset BY <1>14, ResetStep
<1> QED
  BY <1>1, <1>2, <1>3, <1>4, <1>5, <1>6, <1>7, <1>8, <1>9, <1>10, <1>11, <1>12,
     <1>13, <1>14 DEF Next

(* The machine, its callers and its snapshot always keep sound maps        *)
(* (exec_intra_call, snapshot, restore, vsa_bind_into).                    *)
THEOREM MapsStaySound == Spec => []IInv
<1>1. Init => IInv BY Initially
<1>2. IInv /\ [Next]_vars => IInv' BY Preserved
<1> QED BY <1>1, <1>2, PTL DEF Spec

(* A note has roles exactly when it has fillers, and everything keeps its  *)
(* type: AbsentFrom and Pool, which test one half each, always agree       *)
(* (vsa_unbind_cleanup_known).                                             *)
THEOREM FramesTyped == Spec => []FramesTypeOK
<1>1. IInv => FramesTypeOK BY DEF IInv
<1> QED BY <1>1, MapsStaySound, PTL

(* No cleanup pool ever holds another activation's filler                  *)
(* (exec_intra_call restores vsa_frames with the registers).               *)
THEOREM PoolsAreOwn == Spec => []OwnFillersOnly
<1>1. IInv => OwnFillersOnly BY DEF IInv, Sound, OwnFillersOnly
<1> QED BY <1>1, MapsStaySound, PTL

(* Every recovery from a frame built in place is exact                     *)
(* (vsa_bind_into, vsa_unbind_cleanup_known).                              *)
THEOREM InPlaceExact == Spec => []InPlaceAnswersExact
<1>1. ASSUME IInv PROVE InPlaceAnswersExact
  <2> SUFFICES ASSUME NEW r \in Reg, NEW role \in Role, registers[r].inPlace,
                      NEW outcome \in Cleanup(registers[r], vsaFrames[r], role)
               PROVE  Exact(registers[r], role, outcome)
    BY DEF InPlaceAnswersExact
  <2> DEFINE v == registers[r]
             frame == vsaFrames[r]
  <2>1. /\ v.kind = "hvec" /\ v.pairs # {} /\ v.pairs \subseteq Pair
        /\ frame.roles = RolesOf(v) /\ frame.fillers = FillersOf(v)
    <3>1. v \in Value /\ NotesMatch(registers, vsaFrames)
      BY <1>1 DEF IInv, FramesTypeOK, Sound
    <3>2. /\ v.kind = "hvec" /\ v.pairs # {}
          /\ frame = [roles |-> RolesOf(v), fillers |-> FillersOf(v)]
      BY <3>1 DEF NotesMatch
    <3>3. v.pairs \subseteq Pair BY <3>1, ValueFacts
    <3> HIDE DEF v, frame
    <3> QED BY <3>2, <3>3
  <2>2. frame.roles # {} /\ frame.fillers # {}
    <3> HIDE DEF v, frame
    <3>1. PICK p \in v.pairs : TRUE BY <2>1
    <3>2. p[1] \in RolesOf(v) /\ p[2] \in FillersOf(v) BY DEF RolesOf, FillersOf
    <3> QED BY <2>1, <3>2
  <2>3. Signal(v, role) = {} <=> role \notin frame.roles
    <3> HIDE DEF v, frame
    <3>1. role \in RolesOf(v) <=> \E p \in v.pairs : p[1] = role BY DEF RolesOf
    <3>2. Signal(v, role) # {} <=> \E p \in v.pairs : p[1] = role BY DEF Signal
    <3> QED BY <2>1, <3>1, <3>2
  <2>4. Signal(v, role) \subseteq Pool(frame)
    <3> HIDE DEF v, frame
    <3>1. Pool(frame) = FillersOf(v) BY <2>1, <2>2 DEF Pool
    <3>2. Signal(v, role) \subseteq FillersOf(v) BY DEF Signal, FillersOf
    <3> QED BY <3>1, <3>2
  <2> HIDE DEF v, frame
  <2>5. outcome \in Cleanup(v, frame, role) BY DEF v, frame
  <2>6. CASE Signal(v, role) = {}
    BY <2>2, <2>3, <2>5, <2>6 DEF Cleanup, AbsentFrom, Exact, v
  <2>7. CASE Signal(v, role) # {}
    <3>1. ~AbsentFrom(frame, role) BY <2>3, <2>7 DEF AbsentFrom
    <3>2. Nearest(v, role, Pool(frame)) = Signal(v, role)
      BY <2>4, <2>7 DEF Nearest
    <3>3. PICK w \in Signal(v, role) : outcome = Outcome("recovered", w)
      BY <2>1, <2>5, <3>1, <3>2 DEF Cleanup
    <3> QED BY <2>7, <3>3 DEF Exact, Outcome, v
  <2> QED BY <2>6, <2>7
<1> QED BY <1>1, MapsStaySound, PTL

=============================================================================
