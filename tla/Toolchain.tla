----------------------------- MODULE Toolchain -----------------------------
(***************************************************************************)
(* The command line (src/src/main.rs) over the whole tool chain: a command *)
(* loads a project's files, compiles them, and checks, saves or runs the   *)
(* programs; a saved program can be run later from its file.  The import   *)
(* loader, the compiler, the .cubebin format and the virtual machine are   *)
(* the modules it composes; Meaning says what the run should have done.    *)
(***************************************************************************)
EXTENDS Meaning, Loader

CONSTANTS
  Commands,   (* [verb, strict] the user may give                           *)
  LowerCase   (* program name -> its lower-case spelling                    *)

ASSUME CommandsAssumption ==
  Commands \subseteq [verb : {"run", "compile", "check", "validate"}, strict : BOOLEAN]

VARIABLES
  command,    (* what the user asked for                                    *)
  phase,      (* where the command is                                       *)
  unit,       (* the compilation unit, while it is needed                   *)
  disk,       (* .cubebin files: path -> contents                           *)
  exit        (* the exit code; NotExited while the command runs            *)

cli == <<command, phase, unit, disk, exit>>
toolchain == <<loader, vars, cli>>

NotExited == 2
NoUnit == [programs |-> <<>>, errors |-> {}]
NoProgram == [name |-> "none", fns |-> <<>>, used |-> <<>>, syms |-> {}]

Goal(next) == phase' = next /\ UNCHANGED exit
Exits(code) == phase' = "done" /\ exit' = code

MergedItems == [i \in DOMAIN merged |-> Items(merged[i][1])[merged[i][2]]]
Declared == SelectSeq(MergedItems, IsProgram)

-----------------------------------------------------------------------------
(* Loading and compiling.                                                  *)

LoadStep == /\ phase = "load"
            /\ LoaderNext
            /\ UNCHANGED <<vars, cli>>

LoadFailed == /\ phase = "load"
              /\ loading \notin {"loading", "loaded"}
              /\ Exits(1)
              /\ UNCHANGED <<loader, vars, command, unit, disk>>

Compile == /\ phase = "load" /\ loading = "loaded"
           /\ unit' = CompileUnit(MergedItems)
           /\ IF Accepted(unit', command.strict) THEN Goal("compiled") ELSE Exits(1)
           /\ UNCHANGED <<loader, vars, command, disk>>

(* check and the end of compile; a file without programs is no error.      *)
Succeed == /\ phase = "compiled"
           /\ command.verb = "check" \/ (command.verb = "compile" /\ unit.programs = <<>>)
           /\ Exits(0)
           /\ UNCHANGED <<loader, vars, command, unit, disk>>

(* compile writes one file per program and stops at the first it cannot    *)
(* write; the files already written stay.                                  *)
SaveToOutput(p, count) == "output"                                 \* mutant
SavePath(p, count) == IF count = 1 THEN "output" ELSE LowerCase[p.name]
Writes == phase = "compiled" /\ command.verb = "compile" /\ unit.programs # <<>>

Save == /\ Writes
        /\ ~CapabilityConflict(Head(unit.programs))
        /\ disk' = (SavePath(Head(unit.programs), Len(Declared))
                      :> ToCubebin(Head(unit.programs), CurrentVersion)) @@ disk
        /\ unit' = [unit EXCEPT !.programs = Tail(@)]
        /\ UNCHANGED <<loader, vars, command, phase, exit>>

SaveRefused == /\ Writes
               /\ CapabilityConflict(Head(unit.programs))
               /\ Exits(1)
               /\ UNCHANGED <<loader, vars, command, unit, disk>>

-----------------------------------------------------------------------------
(* validate reads the file it is given and nothing it imports.             *)

RECURSIVE Findings(_), FindingsIn(_), FindingsOfArms(_)
FindingsIn(body) == IF body = <<>> THEN 0 ELSE Findings(Head(body)) + FindingsIn(Tail(body))
FindingsOfArms(arms) == IF arms = <<>> THEN 0
                        ELSE FindingsIn(Head(arms).body) + FindingsOfArms(Tail(arms))
Findings(st) ==
  CASE st.s \in {"for", "while", "atomic"} -> FindingsIn(st.body)
    [] st.s = "if"    -> FindingsIn(st.body) + (IF st.els = <<>> THEN 0
                                                ELSE FindingsIn(st.els[1]))
    [] st.s = "match" -> FindingsOfArms(st.arms)
    [] st.s = "try"   -> FindingsIn(st.body) + FindingsIn(st.catch)
    [] st.s = "opcode" /\ st.op \in TraceOnly \cup {"UNIFY"} -> 1
    [] OTHER -> 0
Clean(items) ==
  \A i \in DOMAIN items : IsProgram(items[i]) =>
    \A j \in DOMAIN items[i].functions : FindingsIn(items[i].functions[j].body) = 0

EntryFile == project.resolve[<<Cwd, project.entry>>]
Validate ==
  /\ phase = "validate"
  /\ Exits(IF EntryFile # NoFile /\ project.status[EntryFile] = "ok"
                /\ Clean(Items(EntryFile)) THEN 0 ELSE 1)
  /\ UNCHANGED <<loader, vars, command, unit, disk>>

-----------------------------------------------------------------------------
(* run: from source the first program is the one called; from a file, the  *)
(* program in it.                                                          *)

(* VM::load: a name is looked up at its first function; a used module the  *)
(* registry does not have exposes nothing.                                 *)
Image(p) ==
  LET at(f) == {i \in DOMAIN p.functions : p.functions[i].name = f}
  IN [name |-> p.name, syms |-> p.syms,
      fns  |-> [f \in {p.functions[i].name : i \in DOMAIN p.functions} |->
                  p.functions[CHOOSE i \in at(f) : \A j \in at(f) : i <= j]],
      used |-> SelectSeq(p.used, LAMBDA m : m \in DOMAIN Registry)]

(* Every program that is loaded spells its names; the first one runs.      *)
Spells(p) ==
  LoadedNames(Image(p)) \cup {p.name} \cup {p.implements[i] : i \in DOMAIN p.implements}
    \cup {p.storage[i] : i \in DOMAIN p.storage}
Loaded(ps) == /\ prog' = Image(ps[1])
              /\ runs' = [f \in DOMAIN Image(ps[1]).fns |-> 0]
              /\ spelled' = spelled \cup UNION {Spells(ps[i]) : i \in DOMAIN ps}
              /\ unit' = NoUnit
              /\ phase' = "construct"
              /\ UNCHANGED <<limits, knowledge, machine, frames, result, ops,
                             counters, once, late, susps, snaps, hostCalls>>

NothingToRun == /\ phase = "compiled" /\ command.verb = "run"
                /\ unit.programs = <<>>
                /\ Exits(1)
                /\ UNCHANGED <<loader, vars, command, unit, disk>>

LoadPrograms == /\ phase = "compiled" /\ command.verb = "run"
                /\ unit.programs # <<>>
                /\ Loaded(unit.programs)
                /\ UNCHANGED <<loader, command, disk, exit>>

(* A later command: run on a file an earlier compile left.                 *)
RunFile(path) ==
  /\ phase = "done" /\ command.verb = "compile"
  /\ FromCubebin(disk[path]).ok
  /\ Loaded(<<FromCubebin(disk[path]).program>>)
  /\ command' = [command EXCEPT !.verb = "run"] /\ exit' = NotExited
  /\ UNCHANGED <<loader, disk>>

(* call_with_constructor: the constructor's result is not looked at.       *)
Construct == /\ phase = "construct"
             /\ Call("constructor", <<>>) \/ CallMissing("constructor")
             /\ Goal("constructing")
             /\ UNCHANGED <<loader, command, unit, disk>>

CallEntry == /\ phase = "constructing" /\ frames = <<>>
             /\ \/ CallMissing(project.target)
                \/ EntryRefused(project.target)
                \/ /\ IsOwn(project.target)
                   /\ prog.fns[project.target].access = "external"
                   /\ Call(project.target, project.args)
             /\ Goal("running")
             /\ UNCHANGED <<loader, command, unit, disk>>

RunStep == /\ phase \in {"constructing", "running", "resumed"}
         /\ Execute
         /\ UNCHANGED <<loader, cli>>

Report == /\ phase \in {"running", "resumed"} /\ frames = <<>>
          /\ result.kind # "suspend"
          /\ Exits(IF result.kind = "error" THEN 1 ELSE 0)
          /\ UNCHANGED <<loader, vars, command, unit, disk>>

(* A suspended run ends here with --json, and when it asks again.          *)
ReportSuspended == /\ phase \in {"running", "resumed"} /\ frames = <<>>
                   /\ result.kind = "suspend"
                   /\ Exits(0)
                   /\ UNCHANGED <<loader, vars, command, unit, disk>>

(* Otherwise one line is read: a candidate's number, or no answer.         *)
Question == susps[Len(susps)]
AnswerAsk == /\ phase = "running" /\ frames = <<>> /\ result.kind = "suspend"
             /\ \E answer \in Offered(Question) \cup {Null} :
                  Resume(Question, answer) \/ ResumeRefused(Question, answer)
             /\ Goal("resumed")
             /\ UNCHANGED <<loader, command, unit, disk>>

Exited == phase = "done" /\ UNCHANGED toolchain

-----------------------------------------------------------------------------

MachineInit ==
  /\ prog = NoProgram /\ limits \in Limits /\ knowledge \in Knowledge
  /\ registers = NoRegisters /\ stack = <<>> /\ accumulator = Null
  /\ storage = [k \in Key |-> Unbound] /\ memory = [k \in Key |-> Unbound]
  /\ frames = <<>> /\ result = NoResult
  /\ ops = 0 /\ jumpsTaken = 0 /\ queried = <<>>
  /\ once = {} /\ runs = <<>> /\ spelled = NativeNames
  /\ late = FALSE /\ susps = <<>> /\ snaps = {} /\ hostCalls = 0

ToolchainInit ==
  /\ LoaderInit /\ MachineInit
  /\ command \in Commands
  /\ phase = IF command.verb = "validate" THEN "validate" ELSE "load"
  /\ unit = NoUnit /\ disk = <<>> /\ exit = NotExited

RunActs == Construct \/ CallEntry \/ RunStep \/ Report \/ ReportSuspended \/ AnswerAsk
OtherStep == LoadStep \/ LoadFailed \/ Succeed \/ Save \/ SaveRefused \/ Validate
               \/ NothingToRun \/ LoadPrograms \/ RunActs
ToolchainNext == Compile \/ OtherStep \/ (\E path \in DOMAIN disk : RunFile(path)) \/ Exited

(* A command runs until it exits; whether the user runs what it wrote is   *)
(* the user's affair.  Compiles is what fairness needs of Compile: when it *)
(* is enabled and what it does to the phase.                               *)
Compiles == phase = "load" /\ loading = "loaded" /\ phase' \in {"compiled", "done"}
ToolchainSpec == /\ ToolchainInit /\ [][ToolchainNext]_toolchain
                 /\ WF_toolchain(OtherStep) /\ WF_phase(Compiles)

-----------------------------------------------------------------------------
(* What a run means, and what it did.                                      *)

FromFile == disk # <<>>
Source == Declared[CHOOSE i \in DOMAIN Declared : Declared[i].name = prog.name]
Meant == MeaningOf([functions |-> Source.functions, used |-> UsedModules(MergedItems)],
                   project.target, project.args)
Finished == /\ phase = "done" /\ command.verb = "run" /\ frames = <<>>
            /\ prog # NoProgram /\ susps = <<>>
(* What the file format leaves out: once and the access attributes.        *)
KeptWhole == FromFile => \A i \in DOMAIN Source.functions :
                           Source.functions[i].permissions = <<>>
Decided(m) == m.end \notin {"open", "never"}
Agrees(m) ==
  /\ result.kind = CASE m.end = "go" -> "ok" [] OTHER -> m.end
  /\ m.end = "return" /\ m.value # Unspecified => result.value = m.value
  /\ stack = m.stack /\ storage = m.store

(* The compiled program, run from source or from its file, does what its   *)
(* source means: outcome, result, what it stored, what it left pushed.     *)
(* Bare conditions and discarded method calls aside: MeaningAsCommented.   *)
MeaningPreserved ==
  Finished /\ KeptWhole =>
    LET m == Meant
    IN ~m.truthy /\ ~m.method /\ Decided(m) => Agrees(m)

(* The compiler's comments: "any other expression is compared against      *)
(* truthiness (expr != 0)" and "receiver becomes arg0".  With bare         *)
(* conditions and discarded method calls the same should hold.             *)
MeaningAsCommented ==
  Finished /\ KeptWhole => LET m == Meant IN Decided(m) => Agrees(m)

(* "Rejects any construct that compiles but does not execute": no run of   *)
(* what strict mode lets through reaches a statement the machine skips.    *)
(* Not so, and in no run: README, section 5.                               *)
StrictMeansExecuted == Finished /\ command.strict => Meant.end # "never"

(* Strict mode does not look into asm blocks: the only statements skipped  *)
(* in what it lets through are opcodes of those.                           *)
StrictSkipsOnlyInAsm ==
  Finished /\ command.strict => LET m == Meant IN m.end = "never" => m.asm

(* validate has nothing to say of a file that a strict check accepts.      *)
ValidateAgrees ==
  phase = "done" /\ exit = 0 /\ command = [verb |-> "check", strict |-> TRUE]
    => Clean(MergedItems)

(* Every jump of accepted code has one label to go to, whatever nests in   *)
(* what, and every instruction is followed by the operands it counts.  Two *)
(* things break it and stay out of the projects: `asm { SKIP }`, whose     *)
(* operand count the VM does not read, and a list whose length and name    *)
(* leave no room in the count byte (ByteBase - 2 elements and more).       *)
WellFormed ==
  phase = "compiled" =>
    \A i \in DOMAIN unit.programs : \A j \in DOMAIN unit.programs[i].functions :
      LET f == unit.programs[i].functions[j]
      IN /\ f.framed
         /\ \A k \in DOMAIN f.code :
              f.code[k].op \in {"JMP", "COND"}
                => \E t \in DOMAIN f.code : Labels(f.code, f.code[k].args[1][2]) = {t}

(* A loaded program can spell every literal, callee, label and role in its *)
(* code, which holds their hashes only.                                    *)
NamesResolve ==
  \A f \in DOMAIN prog.fns : \A k \in DOMAIN prog.fns[f].code :
    \A i \in DOMAIN prog.fns[f].code[k].args :
      LET cell == prog.fns[f].code[k].args[i]
      IN cell[1] \in {"lit", "name", "role"} => cell[2] \in prog.syms

(* A file of any version reads back as the program it was written from, in *)
(* what that version holds.                                                *)
RoundTrip ==
  phase = "compiled" =>
    \A i \in DOMAIN unit.programs, version \in 1 .. CurrentVersion :
      ReadsBack(unit.programs[i], version)

(* Whoever runs an accepted program as an instance of a VM interface finds *)
(* every member it requires, whatever the file declares under its name.    *)
InterfacesHeld ==
  phase = "compiled" =>
    \A i \in DOMAIN unit.programs : \A j \in DOMAIN unit.programs[i].implements :
      LET name == unit.programs[i].implements[j]
      IN name \in DOMAIN Interfaces =>
           \A member \in Interfaces[name] : Provides(unit.programs[i], member)

(* In a program run from source, override replaces a module's function, and *)
(* no function of the program hides behind one a module keeps sealed.      *)
CapabilitiesHeld ==
  prog # NoProgram /\ ~FromFile =>
    \A f \in DOMAIN prog.fns :
      IF prog.fns[f].override THEN Overrides(f) ELSE IsNative(f) => Native(f).overridable

(* A compile that exits with 0 leaves every program in a file of its own,  *)
(* unless two names differ in nothing but case.                            *)
CaseApart == \A i, j \in DOMAIN Declared :
               LowerCase[Declared[i].name] = LowerCase[Declared[j].name] => i = j
EveryProgramSaved ==
  phase = "done" /\ command.verb = "compile" /\ exit = 0 /\ CaseApart =>
    \A i \in DOMAIN Declared : \E path \in DOMAIN disk :
      FromCubebin(disk[path]).program.name = Declared[i].name

(* Liveness: every command exits, whatever the files import from each      *)
(* other and whatever the program does.                                    *)
EveryCommandEnds == phase # "done" ~> phase = "done"

=============================================================================
