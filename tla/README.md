# A verification project for CubeLang

CubeLang is a small language for "reasoning programs". A compiler turns `.cube`
source into bytecode; a command line checks it, saves it or runs it; a virtual machine runs it; a resident process, `run-proto`,
serves requests that carry a program, a function to call, a knowledge file, a
branch of that knowledge, budgets and answers to questions. The promises the
repository makes are about what such a run may *not* do: answer with a fact
nobody looked up, accept an answer nobody offered, spend more than it was given,
run a once-only function twice, or let one branch leak into another. They are
promises about sequences of calls, which is what the models here explore.

## 1. The system, part by part

| Part | State it keeps | Operations | What is hard | What makes it correct |
|---|---|---|---|---|
| Interpreter, `vm/engine.rs` | registers, operand stack, storage, associative memory, accumulator; per activation: pc, flag, jump budget; counters | one step per opcode, CALL/RETURN, ASK | loops, recursion, errors that unwind several activations, four budgets tested at different places | budgets hold, runs end, refused opcodes do nothing, @once runs once |
| Host API, `vm/engine.rs` | suspensions and snapshots held by the host | `call`, `call_entry`, `resume`, `snapshot`, `restore`, `reset` | any order, a suspension used twice, a restore that forgets a field | a branch depends on its snapshot and the name table only; an answer is one of the candidates |
| Request handling, `main.rs` | one VM per request, answers iterator | compile, load knowledge, apply branch and budget, constructor, target, answers loop, reply | early returns, a constructor that fails or asks, resending with one more answer | access is enforced, refusals surface, every request is answered, a replay meets the same questions |
| Transport, `main.rs` | the byte stream | read a frame, serve, write a frame | frames cut at any byte | a cut frame is never served and never passed off as a clean end |
| Knowledge cache, `main.rs` | path -> (mtime, store) | look up by mtime, parse, clone | edits within one tick, a parse that fails, a branch on a clone | a request sees a version the file had; no branch reaches the cache |
| Knowledge store, `vm/knowledge.rs` | key -> facts | `insert`, `alias`, `remove`, `load_jsonl`, `lookup` | aliases are copies; removal finds them by comparing facts; half-loaded input | an excluded fact is gone under every name |
| Hippocampal memory, `vm/memory.rs`, `vm/index.rs` | trace slots, key -> slot, Hamming index | `store`, `recall`, `forget` | overwrite, tombstones, slots reused by position | index and slots agree; a forgotten payload never returns |
| VSA frames, `vm/engine.rs` | register -> roles and fillers, beside the registers | BIND_ROLE, UNBIND, `recover` | two maps keyed by register, only one updated by most opcodes | an absent role is reported absent; frames follow registers through CALL |
| Hypervectors, codebook, `vm/hypervec.rs`, `vm/codebook.rs` | vectors | bind, bundle, cosine | numerical | not a subject of model checking |
| Module registry, `vm/registry.rs` | module -> functions | `resolve`, `get` | order of `use`, overrides, sealed names | the checker and the VM pick the same module |
| Compiler, `compiler.rs` | label counter, for counter, string table, bytecode | lowering of statements and expressions; permission, override, sealed, interface and strict checks | labels and loop registers of nested statements; checks that must match what the VM does | lowered code does what the source means; what compiles is what the VM enforces |
| `.cubebin`, `compiler.rs` | - | write, read, refuse to write | fields the format does not carry, three versions | a round trip loses exactly what the format leaves out |
| Loader, `loader.rs` | visited files, names declared, merged items | recursive import | cycles, diamonds, several spellings of one path, errors half way | the merged source is what the entry reaches, each file once, no name twice |
| Validator, `validate.rs` | findings | walk the statements | must agree with the compiler's strict mode | nothing to say of what a strict check accepts |
| Command line, `main.rs` | files written, exit code | compile, check, validate, run | several programs in a file, a refusal half way, a run of an earlier file | every command exits; exit 0 means what it says |
| Lexer and parser, `lexer.rs`, `parser.rs` | a cursor | parse | - | left to unit tests |

How they interact: the request handler owns a fresh `VM` and calls it
synchronously; the VM owns a clone of the knowledge store, the memory and the
registry, and calls them synchronously; native functions get the VM back as
`&mut`. A command of the command line is a straight pipeline (loader, compiler,
then a check, a file or a VM), and a `.cubebin` file carries a program from one
command to a later one. There are no threads. What interleaves is the *host* (any
order of calls on an idle machine), the *clock* (the deadline may pass between any
two opcodes), the *client* of the resident process (which resends, and may die in
the middle of a frame) and *whoever edits the knowledge file*.

## 2. The modules

**`CubeValues`** - the runtime values (`enum Value`) and the pure functions on
them: `as_i64`, the four operators of `num_binop` with two's-complement wrap,
COMPARE's relations, LEN, INDEX, SET_INDEX. Values nest two levels (an array of
maps of scalars): what QUERY delivers. Floats and hypervectors are not values of
the model, so a division that is not exact is outside it.

**`CubeVM`** - the machine. `frames` is the Rust call stack: one record per
running `exec_function`, with the locals of that function (`pc`, `flag`,
`jumps` = `jump_budget`) and, for a callee, the registers `exec_intra_call` took
from its caller. Registers, stack, storage, memory and accumulator are the VM's
fields of those names; `ops`, `jumpsTaken`, `queried` are the branch report's
counters, `spelled` the part of `name_table` that matters: which names have a
spelling. `load` adds the names a program declares, a host call those of the
parameters it binds, a CALL those of its `argN`; the mention of a QUERY, a literal and
the name of a callee are read through it, and a hash without a spelling reads as
its print, which is no key of anything. A register starts Null whatever type CREATE
declares, as in the code (section 5). Each action is one whole opcode, from
`ops_executed += 1` to the assignment of the next `pc`, or one whole call of the host.
An error anywhere
unwinds all activations in one step, because nothing else can run while it
propagates. `HostActs` is every public call on an idle VM in any order.
Bytecode is a sequence of decoded instructions; a pc is an index. Two-byte name
hashes are taken as collision-free, and the similarity order behind RECALL of a
key that was never stored is an arbitrary fixed choice.

**`CubeStep`** - the same machine a second way: one opcode as a function of the state
before it, for proofs that compare two runs, which the actions of `CubeVM` cannot do.
`Core` is what an opcode may read, the name table included, `Report` the counters,
@once marks and suspensions beside it, `HeldBack` why an opcode is refused by what `restore` does not undo. It
adds nothing to `CubeVM`: that every step of `CubeVM` is this function is a theorem.

**`BranchReplay`** - composes `CubeVM` with a host that explores branches:
snapshot at a suspension, resume, restore, resume again, exclude knowledge, call
another function in between. `trial` and `outcomes` record what each resume started
from (snapshot, suspension, answer, name table) and how it ended.

**`RunRequest`** - composes `CubeVM` with `run_request_result`: the early
returns, `apply_branch`, `call_with_constructor`, the answers loop, the reply,
and (external) a client that resends a suspended request with one more answer.

**`VsaFrames`** - the register file and the frame map beside it. It is a module
of its own because `CubeVM`'s values have no hypervectors and because its hazards
come from *any* program: where `CubeVM` runs given programs, here every opcode
that touches a register may come next. A vector is the set of (role, filler)
pairs bundled into it; unbinding a role it holds finds one of that role's fillers
if the pool has one, and otherwise any candidate may win (noise). `registers`,
`vsaFrames` and `stack` are the VM's fields, `named` is the part of `name_table`
that spells register names, `callers` the maps `exec_intra_call` took, `held` the
host's snapshot. A vector carries one ghost flag, `inPlace`: it was built by
BIND_ROLEs in the register it is in, which had no note when the first one ran.
`bindings` is a ghost record of who bound what.

**`Hypervectors`** - the bipolar algebra at a small dimension: bind, bundle (the
chunked sum in a narrow accumulator), permute, packing into words, Hamming
distance, and beside them what they are meant to compute without packing or
chunks.

**`Memory`** - hippocampal memory on top of it: `traces` is the vector of slots (a
forgotten trace leaves `Absent` behind), `byKey` the exact-key map, `index` the
Hamming index, `cache` the codebook's; `saved` are the clones in the host's
snapshots. A recall looks at the `TopK` nearest entries (8 in the code), with ties
in any order.

**`TraceMap`** - the abstract specification of `Memory`: a map from keys to payloads.
It is what `memory` is in `CubeVM`, so `Memory` implementing `TraceMap` is what
entitles the interpreter's model to leave vectors out.

**`KnowledgeStore`** - the knowledge store as pure functions on a store: `insert`,
`alias` (a copy of the canonical key's facts), `remove` (every key with the same
facts), `load_jsonl` (line by line up to the first bad one), `lookup`.

**`Resident`** - the `run-proto` process around one request: the frame loop over a
pipe whose writer may die at any byte, `load_knowledge_cached` in its steps (stat,
hit or read, parse, insert, clone), `apply_branch` on the clone, replies and exit
code; beside it the client and the file system. `versions` is a ghost record of
what each file held and when. What the program then does is `RunRequest`.

**`CubeAst`** - the syntax trees, as records. **`Compiler`** - `compiler.rs` from trees
to the instructions of `CubeVM`: statements, conditions, calls, opcode statements
and asm with their labels, temporaries and string table, as one function of
(label counter, for counter, code) per statement; the checks of `use`, `override`,
`sealed`, access attributes, `implements` and strict mode. A list of operands is
framed by a count byte, as are the lists of `Cubebin`, which it extends.

**`Cubebin`** - the file format: `ToCubebin` at versions 1 to 3, `FromCubebin`, the
refusal to save, and what each version carries (`Carried`). Every count is one byte,
so it wraps at `ByteBase` (256 in the code). It extends no other module of the
project: the proof about it may not reach the recursive operators of `Compiler`.

**`Loader`** - `load_into`. The recursion is the list `todo` of paths still to be
resolved, each with the file that imports it; `merged` refers to items by file
and position.

**`Meaning`** - the abstract specification of compiler and VM together: what a program
does told from its tree, over names instead of registers, with loops instead of
labels and calls that return instead of pushing. It is "open" where the language
leaves the outcome unspecified and "never" at a statement the VM does not execute, a
trace-only opcode of an asm block included. The receiver of a method is its first
argument. The compiler departs from that in three places (section 5); `Meaning` notes
which runs they concern (`truthy`, `method`, `asm`).

**`Toolchain`** - the command line, composing `Loader`, `Compiler`, `Cubebin` and
`CubeVM`, with the validator. Each action is one stage of a command; a run steps
the machine of `CubeVM`. `RunFile` is a later command on a file an earlier one wrote.

**`CubeVMProofs`, `HostProofs` (of `RunRequest` and `BranchReplay`),
`VsaFramesProofs`, `MemoryProofs`, `ResidentProofs`, `CubebinProofs`,
`LoaderProofs`** - theorems and their proofs. **`SharedLemmas`** - what several of
them need: of the natural numbers a least element of a set, induction up to a bound,
and that a recursion up to a bound has a solution; of a machine that steps by a
function, what it reaches. **`MC...`** - programs, stores, projects, budgets and
requests for TLC.

## 3. The runs

| Run | Question | Result |
|---|---|---|
| `CubeVM` | Do types, the query budget, @once, storage = memory, provenance and "a refused opcode does nothing" hold? | yes |
| `CubeVMEmptyAsk` | Is every answer one that was offered? | **no**: section 5 |
| `BranchReplay` | Does a branch depend on its snapshot and the name table only? | yes, @once excepted |
| `RunRequest` | Access, surfacing of refusals, replay of questions, a reply to every request, an end to every program? | yes |
| `RunRequestTruncated` | Is a spent budget always reported? | **no**: section 5 |
| `VsaFrames` | Are frames built in place answered exactly, and pools kept apart? | yes |
| `VsaAbsentRole` | Is a role that is not in the vector always absent? | **no**: section 5 |
| `VsaRecoverName` | Does `recover` see the frame its argument names? | **no**: section 5 |
| `Memory` | Do slots, keys and index stay in step, is a recall the true nearest, does the memory implement `TraceMap`? | yes |
| `Resident` | What is cached, served, excluded and answered when files change and clients die? | as promised, with the limits below |
| `Toolchain` | Does what is loaded, checked, saved and run do what its source means, and does every command exit? | yes |
| `ToolchainComments` | Do bare conditions and method statements mean what the compiler's comments say? | **no**: section 5 |

Bounds. *Programs* of `CubeVM` are chosen so that every opcode and every error
fires: `Grounding` (query, ask, store, @once constructor that calls another @once
function, internal and system access), `Flow` (loop, call in a loop, recursion,
override, sealed name, ASK in a call, unresolved names), `Values` (data opcodes
and their errors), `Gap` (ASK over nothing). *Budgets* include unlimited, a jump
budget smaller than a loop, a query budget smaller than the queries made, an op
budget that ends inside a call, and a deadline. `MaxCallDepth` is 2 (64 in the
code): host frame, callee, callee's callee is enough for every rule about frames,
which compares the top frame with the one below. `WallStride` is 4 (64 in the
code): it only sets how many opcodes pass between two looks. `MaxHostCalls` is 3
in the general run (call, restore or resume, call), 6 in `BranchReplay` (call,
snapshot, resume, restore, resume, and one call in between, of the same function or of a helper whose parameter the third
program asks about), 8 in `RunRequest`
(constructor, target and up to four answers). `CountCap` stops the u64 counters
above any budget, so that state spaces stay finite; in `RunRequest` it also
makes the counter of the spinning program irrelevant to its end. `IntBound` is 8, so
small sums wrap as i64 would. `MaxAnswers` is 4.

`VsaFrames` has two registers (one of them `arg0`), two roles and two fillers
(symmetric), two BIND_ROLEs, one call and a stack of one: a stale note needs one
bind before and one after the register is overwritten, a leak one bind on each
side of a call, and a moved vector one place to wait in.

`Memory` has three keys in dimension 4 packed three bits to a word (so that a
vector crosses a word), three codebooks (orthogonal, tied, close), `TopK` 2, three
slots and one snapshot: a forgotten slot in front of a live one, a re-store of a
forgotten key and a restore over either fit, and the index holds more entries
than a recall looks at.

`Resident` has one file with three contents (aliases after and before their
facts, a bad last line), two frames, two edits and two clock ticks: one request
to fill the cache, one edit to race its read, one to follow it, one request to be
served stale. Requests exclude by canonical name and by alias, assume, fail to
compile, or name no file.

`Toolchain` runs 266 projects under five commands. Eight composite statements are
nested in each other around three leaves (192 projects): every label and loop
register that could collide does in one of them. The others reach every
expression and opcode form, every error, every check's acceptance and refusal,
and sixteen layouts of three files that import each other in cycles, diamonds and
by two spellings. `ByteBase` is 8, so that a list can fill its count byte; the jump
budget is 60 and `Fuel` 8, above every loop that ends; `MaxCallDepth` 4 stops the
recursive project. Kept out because the model of values or the format cannot
follow them: float literals and inexact division, a map indexed by a number,
`let x = f(x)` (which passes Null, section 6), `asm { SKIP }` and lists of
`ByteBase - 2` elements or more (which misframe the code, section 6).

Fairness. `CubeVM` assumes weak fairness of `Execute`: `exec_function` is a loop
that never waits, so an interpreter with frames left keeps going. The host is
not fair: it may never call again. `RunRequest` assumes weak fairness of
`Serve`: `run_request_result` is a straight line of code with loops and no
blocking operation but the clock read. `Resident` assumes it of `ServerActs`,
which are disabled where `read_exact` blocks: the client need never write, the
file never rest. `Toolchain` assumes it of the steps of a command: a command
never waits, except for a line of input at a question, which is taken to come.
`Compiles` stands for `Compile` there: it says when `Compile` is enabled and what
it does to the phase, and spares TLC from compiling again to evaluate fairness.
Running a saved file is the user's choice and not fair.

What the properties say, and which code could break them:

* `QueryBudgetHeld`, `OnceRunsOnce`: totals over a VM's life. `reset`, `restore`
  and `resume` touch neither the log nor `once_called`; a snapshot that carried
  them back would break both.
* `StorageMirrorsMemory`: three opcodes write two stores in separate statements
  and `snapshot` copies them separately.
* `FactsAreLogged`: any fact in a register, on the stack, in storage, or in a
  suspended caller's registers was delivered by a QUERY in the log, under the
  mention that was really looked up.
* `NoEffectPastBudget`: the opcode the budget or the clock refuses leaves the
  machine as it was.
* `Termination`: every activation has its own jump budget, so the depth guard is
  part of the argument.
* `SameBranchSameEnd`: a snapshot, a suspension, an answer and the name table are all
  a resumed run reads. The name table is in no snapshot and grows with host calls, so
  `SnapshotDecidesEnd`, the same without it, fails (section 5). The host
  notes which snapshot it last took or restored, so that a `restore` that forgets
  a field shows up as two ends of one branch. Counters and `once_called` are kept
  by `restore` on purpose, so a branch that @once, a budget of the whole VM or the
  clock refused (`NotRestored`) is exempt; the run has none of the budgets, so only
  @once plays a part there.
* `EntryIsExternal`, `TargetRefusalsSurface`, `ReplayReachesSameAsk`,
  `EveryRequestAnswered`: see `RunRequest`. The replay property excludes wall
  budgets: the clock may stop the constructor of one run only.
* `OwnFillersOnly`: the note is keyed by register names, which callee and caller
  share; only taking and restoring the map at a call keeps activations apart.
* `InPlaceAnswersExact`: vector and note are written, taken, captured and restored
  by separate statements; one forgotten copy turns a present role absent or noise
  into a recovery.
* `StructuresAgree`, `RecallIsNearest`, `ImplementsTraceMap`: slots, key map and
  index are updated by separate statements; a forgotten entry left in the index
  would use up the places a recall looks at, an overwrite that adds an entry
  would bring the old payload back. `AlgebraHolds`: the addresses under it.
* `CacheIsPristine`: no exclusion, assumption or failed request reaches the store
  other requests are served from.
* `StaleOnlyWithinTick`: the modification time is looked up before the file is
  read, so a racing edit makes the entry look old, never new. What remains is an
  edit in the same tick, and a file that vanishes between look and read.
* `ExclusionReachesAliases`: `alias` copies facts and `remove` finds copies by
  comparing them, so an exclusion under one name reaches the other only as long as
  the two hold the same facts. The property says when that is promised: the alias
  line was taken and no later line of the file writes either of its keys. Then both
  are gone, whichever was named and whatever was excluded before it. A branch that
  also assumes facts may bring a name back, and is left out.
* `CleanExitMeansDone`, `EveryFrameAnswered`, `ExitsWithClient`: the loop's ends.
* `MergedOnce`, `LoadedIsReachable`: what the loader merges.
* `MeaningPreserved`: outcome, result, stack and storage of the compiled run, from
  source and from a file, against `Meaning`, save where a bare condition was tested or
  a method called as a statement: there `MeaningAsCommented` asks the same, and fails.
  It covers shared labels, shared loop registers, a constructor that fails and leaves
  values on the stack, arguments, discarded results, and which of two functions of one
  name is called.
* `StrictSkipsOnlyInAsm`, `ValidateAgrees`: three separate walks over statements
  (strict, validate, lowering) decide what executes. A run of a strictly accepted
  program reaches a statement the machine skips in an asm block only, where the strict
  walk does not look (section 5).
* `WellFormed`, `NamesResolve`, `RoundTrip`: one label per jump, operands framed, a
  symbol for every hash, and the file format's losses are the known ones.
* `InterfacesHeld`, `CapabilitiesHeld`: what the checker accepted the VM resolves
  the same way.
* `EveryProgramSaved`, `EveryCommandEnds`: the commands themselves.

Each property also has a mutant, an operator defined just before the one it
replaces and marked `mutant`: a plausible slip in that piece of code with which
TLC finds the property violated.

## 4. The proofs

`CubeVMProofs` proves, for all values of the constants that satisfy the named
assumptions (any programs, registry, budgets, depth, bounds):

| Theorem | Statement |
|---|---|
| `TypeCorrect` | `Spec => []TypeOK` |
| `QueryBudgetSafe` | `Spec => []QueryBudgetHeld` |
| `OnceSafe` | `Spec => []OnceRunsOnce` |
| `MirrorSafe` | `Spec => []StorageMirrorsMemory` |
| `RefusedOpcodesAreInert` | `Spec => NoEffectPastBudget` |
| `FactsLoggedUnlessForged` | `HostIsFactFree` implies `Spec /\ []OffersSomething /\ [][~Forges]_vars => []FactsAreLogged` |
| `AnswersComeFromTheOffer` | `Spec /\ []OffersSomething => AnswerWasOffered` |
| `StepsAreFunctions` | `Spec => StepIsFunction` |

`TypeOK` is inductive as it stands: its parts (`MachineOK`, `ControlOK`,
`ReportOK`, `HostOK`) are there for that. It contains the bound on the call
depth, the ranges of the counters and the shape of suspensions and snapshots,
without which the step lemmas for RETURN, `resume` and `restore` fail. One lemma
per group of actions shows that the group keeps it. The others are proved over
it. `QueryBudgetHeld` is inductive. `OnceRunsOnce` is not: a state may have a
function counted once and not marked, from which the next entry counts it twice.
`EntriesMarked` adds that a counted @once function is in `once`.
`StorageMirrorsMemory` is not either, because a restore could bring back a
snapshot in which the two differ; `Mirrors` adds that every snapshot the host
holds agrees (`SnapshotsMirror`). `RefusedOpcodesAreInert` is a step fact: an
opcode counted past the budget can only be `OutOfOps` or `OutOfTime`.

`FactsAreLogged` is false of programs in general, and the theorem says exactly how.
A value equal to a fact nobody looked up can come into a machine in three ways
besides QUERY: the host passes it as an argument or a native function returns it
(`HostIsFactFree` denies both), the host answers an ASK that offered nothing
(`OffersSomething` denies it), or the program spells the same map out, entry by
entry, with SET_INDEX (`Forges`). The theorem says that these three are
all. Its hypotheses hold of the instance of run `CubeVM`, so the run checks the
property without them. The inductive invariant `Provenance` says of a set L of facts,
here those of the logged queries, that any fact found in a register, on the stack, in
storage or memory, in the registers a caller left behind, among the candidates of a
suspension or in a snapshot is in L, and that every store in use still maps a mention to
facts of that mention. L only grows, and QUERY extends it before it delivers.

`AnswersComeFromTheOffer` is the counterpart of run `CubeVMEmptyAsk`: the empty
candidate list that run exhibits is the only way past the guard of `resume`.

`StepsAreFunctions` is what makes two runs comparable: `Core' = CoreAfter` and
`Report' = ReportAfter` in every step of the interpreter, action by action. Nothing an
opcode does is left to choice, and nothing but the core tells it what to do once it is
not held back. `At(c, q)` is then `CubeStep` instantiated at a core c and a report q
that are values, with no deadline passed, and the lemmas named `Same...` show operator
by operator that at the machine's own core it computes what the machine does
(`SameStep`). `Running` is the program as a function from cores to cores.

`HostProofs` proves of `RunRequest` and `BranchReplay`, for any programs, requests,
stores and budgets:

| Theorem | Statement |
|---|---|
| `RequestTypeCorrect` | `RequestSpec => []RequestTypeOK` |
| `EntryAlwaysExternal` | `RequestSpec => []EntryIsExternal` |
| `RefusalsAlwaysSurface` | `RequestSpec => []TargetRefusalsSurface` |
| `ResentRequestsReplay` | `RequestSpec => []ReplayReachesSameAsk` |
| `BranchesRepeat` | `BranchSpec => []SameBranchSameEnd` |

The steps of the machine reach these through `TypeCorrect`: a machine step of a
request is a step of `CubeVM`. Neither safety property is inductive. An answer
resumes whatever suspension is at hand, so `EntryIsExternal` needs that it is the
target's and not the constructor's: `RunsInPhase` ties running activations to the
phases that run them, `SuspensionKept` the suspension to the ASK just reported, and
`AskIsExternal` says that the function it suspended is external. A refusal is noted
in one step and replied to in a later one, so `BudgetIsError` and `RefusalIsPending`
carry it: once the target was refused an opcode the machine is idle, its result is an
error, and the only thing left is to reply with it.

The last two compare runs. How many steps a run takes is nowhere in the state, and the
induction over their number is out of the prover's reach, so "c is reached from a by
f" (`Reached`) says that c is in every set that holds a and that f does not leave.
From it follow, by choosing the set, transitivity, that of two states reached from one
the one reaches the other (`ReachedLinear`), and that two which f leaves alone are one
(`ReachedEnd`).

* `BranchInv`: the machine of a trial under way is reached by `Running` from what the
  trial started with, as is the end of every finished one; and the snapshot a host
  holds is what it has before it (`HeldIsView`), so the start that is recorded, a
  snapshot, a suspension, an answer and the name table, is the whole start. Without the
  name table it would not be: `Core` contains `spelled`, and the theorem compares only
  trials that began with the same one. A trial ends where its
  frames are gone, which `Running` leaves alone. An opcode that is held back ends the
  run with an error of `NotRestored`, so the first to be held back is also the last.
* `ReplayInv`: `Turn` does for the server what `After` does for the machine: where a
  request stands (core, report, phase, answers used) decides where it stands next.
  Prepared, it stands at `Start`, which has nothing of an earlier request in it because
  the machine was fresh; `Now` is reached from there by the turns of the present
  request, and so is some standing with exactly the questions of `earlier`. A resend
  keeps the latter: a turn that used an answer still finds it in its place, and one
  that had none left can only have stopped (`ReachedAgain`). Both lie on one path,
  along which questions are only added (`LaterAsksExtend`), so they agree where both
  have one. No wall budget means no deadline (`ClockNeedsBudget`); every other budget
  is part of the standing and repeats.

`VsaFramesProofs` proves of `VsaFrames`, for any registers, roles, fillers and
bounds:

| Theorem | Statement |
|---|---|
| `MapsStaySound` | `Spec => []IInv`, the inductive invariant |
| `FramesTyped` | `Spec => []FramesTypeOK` |
| `PoolsAreOwn` | `Spec => []OwnFillersOnly` |
| `InPlaceExact` | `Spec => []InPlaceAnswersExact` |

Neither property is inductive: a return brings back a caller's maps and a restore
a snapshot's, so `IInv` says the same (`Sound`) of every pair of maps the machine
keeps. It adds that nothing on a stack counts as built in place (`Loose`), since
POP would put it back as such, and that the outermost activation is the host's
(`HostIsOutermost`), since a snapshot is taken and restored only there.

`MemoryProofs` proves of `Memory`, for any dimension, word size, codebook of
distinct vectors, keys, payloads and bounds:

| Theorem | Statement |
|---|---|
| `UnbindUndoesBind`, `UnpermuteUndoesPermute` | the algebra's inverses, for every vector and shift |
| `CosineIsDot` | the cosine computed from packed words is the dot product |
| `BundleIsMajority` | the bundle of any vectors is the vote of each component, in chunks of any size |
| `AlgebraAlwaysHolds` | `Spec => []AlgebraHolds` |
| `MemoryInvariant` | `Spec => []Inv`, the inductive invariant |
| `StructuresAlwaysAgree` | `Spec => []StructuresAgree` |
| `MemoryImplementsTraceMap` | `Spec => ImplementsTraceMap` |
| `RecallAlwaysNearest` | `Spec => RecallIsNearest` |

`Inv` is `Typed` and `Consistent` of the memory and of every saved clone (a restore
brings one back), and that the codebook's cache never disagrees with the book. The
refinement maps each step: `Allocate` and `Overwrite` to a store, `Forget` to a
forget; for `Recall`, a stored key's own entry is at distance 0 and, packing being
injective (`PackInjective`) and keys having distinct vectors, the only one there
(`OwnTraceFound`), and any non-empty index has a nearest live entry
(`SomethingFound`, from `LeastOf`).

The sums of the algebra are folds over a set, which choose the order of their
elements; `FoldIs` says that a fold which agrees with a running total in any order is
that total, and the sums over components (`DistanceCounts`) and over bundled vectors
(`ComponentSumIs`) follow. The chunks of a bundle partition the positions
(`ChunkPositions`) and each adds up the votes at its own (`ChunkSumIs`). A recall compares Hamming distances of packed words;
`NearerIsMoreAlike` turns the smaller distance into the larger dot product, and since
every index entry is live (`StructuresAgree`) the first hit is the true nearest.

`ResidentProofs` proves of `Resident`, for any files, requests and bounds:

| Theorem | Statement |
|---|---|
| `CleanExitAlwaysDone` | `Spec => []CleanExitMeansDone` |
| `CacheAlwaysPristine` | `Spec => []CacheIsPristine` |
| `NeverStalePastATick` | `Spec => StaleOnlyWithinTick` |
| `ExclusionsAlwaysReachAliases` | `Spec => ExclusionReachesAliases` |
| `ResidentTypeCorrect` | `Spec => []ResidentTypeOK` |

`PipeInv` and `ReplyInv` relate the phase to the frames taken and the replies
given. `KeptInv` says that every file's present contents are among its versions,
that the time looked up (`stamp`) is not later than the file's own, and that a
cached store is a version of a time not earlier than the entry's: the second is what
fails if the file is read first.

Loading and excluding are folds over lines and names of any number; `AfterLines` and
`AfterNames` name the store after each of them, and the proof goes by induction on
the position. Two keys tied by an alias in force hold the same facts when the line is
taken, and no later line writes either (lines), nor does `remove` ever take the facts
from one of two equal keys only (names). A weaker condition on
the file would not do: a fact written to either key after the alias line makes the
two differ, and `remove` then misses one of them.

`CubebinProofs` proves of `Cubebin`, for any texts, bytecode and number of functions:

| Theorem | Statement |
|---|---|
| `EveryFileReadsBack` | a program whose counts are below `ByteBase`, written at any version, reads back as `Carried` says |

Writer and reader are recursive functions over positions. `FunctionsWrittenIs` says
where each function's tokens lie in the file, and `FunctionsReadBack` gives the
reader's result explicitly and shows that it solves the reader's recursion
(`RecursionSolved`), which has one solution. The bound on the counts is needed: past
it the count byte wraps (section 6).

`LoaderProofs` proves of `Loader`, for any files, imports, cycles and spellings:

| Theorem | Statement |
|---|---|
| `LoaderInvariant` | `LoaderSpec => []LoaderInv`, the inductive invariant |
| `MergedSourceIsASet` | `LoaderSpec => []MergedOnce` |
| `LoadedIsClosure` | `LoaderSpec => []LoadedIsReachable` |

Neither is inductive. `MergedOK` adds that every merged item comes from a visited
file and its name is known; `OnlyReached` that a set closed under imports that holds
the entry holds everything visited or waiting; `NothingLost` that every path asked
for so far is visited or waiting. With nothing waiting the last two make `visited`
the least closed set.

The assumptions are those named in the modules: the shape of programs, stores and
budgets, two keys never drawing the same vector, requests and documents over the
declared lines, finitely many fact keys, a clock with at least one tick, and every
path resolving to a file or to none. Inductions over positions are proved through a
least counterexample, since the library's induction theorems take an operator the
provers cannot instantiate; what recurses in a proved module is a function or a fold.

Only model-checked:

* Everything `Toolchain` adds to `Loader` (`MeaningPreserved`, `StrictSkipsOnlyInAsm`,
  `ValidateAgrees`, `WellFormed`, `NamesResolve`, `InterfacesHeld`, `CapabilitiesHeld`,
  `EveryProgramSaved`, `RoundTrip`): compiler and `Meaning` recurse over trees with
  recursive operators, which is beyond the prover. The core of `RoundTrip`, what a
  file of any program reads back as, is `EveryFileReadsBack`.
* Liveness: `Termination`, `EveryRequestAnswered`, `EveryFrameAnswered`,
  `ExitsWithClient`, `EveryCommandEnds`.

## 5. Where the documents and the code differ

* **An ASK with no candidates takes any answer.** `resume` tests
  `!susp.candidates.is_empty()` before it looks for the answer among them
  (`engine.rs:451`). `docs/ASK_SUSPEND.md` states the guard without the
  exemption. `CubeVMEmptyAsk`: query a mention nobody loaded, ask over the empty
  array, resume with anything.
* **A budget that stops the constructor is not reported.**
  `call_with_constructor` drops the constructor's result (`main.rs:1082`), and
  the request goes on and may answer `ok`. `proto/reasoning.proto` and
  `docs/STEP0.md` say exceeding a budget is an error naming it, never a
  truncated answer. An exhausted op budget does surface, since it refuses the
  target's first opcode as well; query and jump budgets do not.
* **A frame's note outlives its vector.** `vsa_frames` is written by BIND_ROLE and
  carried by calls and restores, but nothing that overwrites, moves or clears a
  register touches it (`reset` clears the registers alone). `VsaAbsentRole`: bind
  a role, overwrite the register, bind another, and the first role is not absent;
  the opposite, a moved vector whose roles count as absent after one more BIND,
  has the same cause. `engine.rs:171` promises "the same lifetime", `docs/STEP0.md`
  a structural Null.
* **`recover` misses a register whose name is known.** The argument of a native
  function is reversed through the name table, so `recover(frame, ROLE)` looks
  for a register called "frame" once `bind_role frame, ROLE` or a parameter has
  put that name there (`engine.rs:1642`). `VsaRecoverName`: the frame is there,
  UNBIND finds it, `recover` says `no_frame`.
* **A condition that is no comparison is compared with 6.** `compile_condition`
  writes COMPARE with the expression and the immediate 6, the truthiness kind
  (`compiler.rs:2154-2159`); the VM reads a kind from the third operand only and
  otherwise tests for equality (`engine.rs:1018-1024`). The comment says
  `expr != 0`. `ToolchainComments`: `if (true) { return 1; } else { return 2; }` passes
  strict mode and returns 2. `MeaningPreserved` leaves such programs out.
* **A method called as a statement loses its receiver.** `compile_expr_discard` ignores
  the object (`compiler.rs:2029`), so `n.inc(x)` runs `inc(x)`; the comments there and
  on `emit_call` say the receiver becomes `arg0`. `ToolchainComments` covers it, too:
  with the projects of `Bare` left out, TLC reports `n.keep()`, a function that pushes
  its `arg0` and gets Null.

Three promises are stated in the modules and are false there, but no run is spent on
them; naming one in the cfg given shows it.

* **A snapshot does not decide a branch** (`SnapshotDecidesEnd`, `BranchReplay.cfg`). A
  host call registers its parameters' names (`engine.rs:538-543`), `VmSnapshot` holds
  no name table (`engine.rs:306-314`), and a resumed run reads it: a QUERY whose
  register holds no string looks up the operand's spelling (`engine.rs:911-918`), and
  native arguments, literals and callees go the same way. `engine.rs:295-298` and
  `docs/BRANCH.md:45` say a snapshot is the program-visible state. Resume to a
  `query mars` that finds nothing, restore, call a helper with a parameter `mars`,
  restore, resume again: the query finds a fact. What does hold, and is proved, is
  `SameBranchSameEnd`: with the name table as it was, the branch repeats. A QUERY whose
  register holds a string is not concerned.
* **A declared container starts Null** (`ContainersStartEmpty`, a PROPERTY for
  `CubeVM.cfg`). CREATE compares the type's name with "map" and "array"
  (`engine.rs:668`), but the bytecode has two bytes of its hash, which read back as
  `t_xxyy` (`compiler.rs:2075`, `engine.rs:1886`). `engine.rs:657` and `docs/DRIFT.md`
  C4 promise an empty container. The tests of `tests/index_assign.rs` do not notice,
  because SET_INDEX makes a container of Null at the first write (`engine.rs:774`).
* **Strict mode does not look into asm** (`StrictMeansExecuted`, `Toolchain.cfg`). An asm
  block passes the strict walk unseen (`compiler.rs:1117`) and `compile_asm_block` tests
  only that a mnemonic is known (1341), so `asm { INFER n; }` is accepted and leaves a
  trace line. `compiler.rs:2369` says strict rejects trace-only opcodes.
  `StrictSkipsOnlyInAsm` says that this is the only gap, and holds.

Three statements of older texts are out of date. The code does what `docs/STEP0.md`
says, and a property that holds says so.

* **There is an @once guard.** `docs/DRIFT.md` A1 (lines 23-32: "no call-count guard",
  "nothing stops you") and `docs/REFERENCE.md:257-259` say a second call of the
  constructor runs it again. It is refused (`engine.rs:609-614`), as `docs/STEP0.md:31`
  says: `OnceRunsOnce`, proved as `OnceSafe`.
* **There is access control.** `docs/DRIFT.md:23-29` and `docs/REFERENCE.md:302-313` say
  no attribute is enforced. `call_entry` (`engine.rs:561-573`) refuses @internal and
  @system functions, as `docs/STEP0.md:28-30` says: `EntryIsExternal`, proved as
  `EntryAlwaysExternal`. The other attributes they list are refused by strict
  mode and ignored by the VM.
* **An absent role is Null.** The comment at `registry.rs:197-201` ("It does NOT make an
  absent role return Null") and `docs/DRIFT.md` B11a (239-243) deny it. Of a register
  with a frame noted it is so (`engine.rs:1853-1857`), as `docs/STEP0.md` section 1
  says: `InPlaceAnswersExact`, proved as `InPlaceExact`, of frames built in place. Of a
  vector nobody noted the older texts are still right: the global pool answers noise.

## 6. Other things seen while modelling

No run of its own shows these; each is worth a look. The first three contradict a
comment or a document.

* A frame cut inside its length is a clean end: `read_exact` reports an end of input
  after one to three bytes as after none, and the loop exits with 0 (`main.rs:715`);
  the comment at `main.rs:702` says "EOF inside a length or body" is an error.
  `Resident` models the code, and `CleanExitMeansDone` claims no more.
* `memory.rs:99` says FORGET tombstones the index entry "rather than physically
  removed"; line 107 removes it (`Memory` follows the code).
* `docs/REFERENCE.md:268-270` says `recover` cleans up against every known symbol;
  a register with a frame noted uses the frame's own fillers (`engine.rs:1858`).
* Knowledge: a fact appended to the canonical key after its alias makes `remove` miss
  the alias; a file that cannot be examined twice in a row compares None with None
  and is served from the cache.
* Saving: `save` refuses a program with `use` or `override` but drops access
  attributes and @once silently, so an @internal function is the host's to call from
  a file. Several programs are saved under lower-cased names, which may coincide, and
  those written before a refusal stay. `from_cubebin` panics on truncated data.
* Framing and files: counts and name lengths are written as one byte without a test,
  in bytecode (lists of 254 elements, calls with 255 arguments) and in `.cubebin`;
  `asm { SKIP }` emits an operand count the VM does not read; the asm table has no
  SET_INDEX; a call through something that is no name emits no operand.
* Statements: `let x = f(x)` creates `x` before it evaluates the call and passes
  Null; no error ever reaches a `catch` body (`tests/try_finally.rs` says so) and
  `return` inside `try` skips `finally`; `assert(call())` discards the result.
  `docs/REFERENCE.md` section 7 still lists `match` and `finally` as never executing;
  both are compiled and run.
* Checks: `use nosuch` is never an error; a `use` in an imported file applies to the
  whole unit; the override check asks whether any used module has the name where the
  VM takes the first; `implements` accepts any function of the name where the VM
  calls the first; strict mode does not look at arms after `_`; the validator skips `finally`, asm, throw, assert and imports.
* `run` loads every program of a file and runs the first. A string compared with
  anything but a string compares 0 with 0. The smallest i64 divided by -1 panics.

## 7. Not modelled

* The *lexer and parser* are functions of text; a source is its tree, or a file that
  does not parse.
* *Floats*: a quotient that is not integral has no step. *Name hashes* are taken as
  injective, in the compiler and in the VM. *Cosines and margins* of frames: which
  filler wins over noise is any, and a role in a vector always recovers one of its
  fillers. The code bundles a new pair into the old vector two by two
  (`engine.rs:1696`), so with many pairs the oldest may sink below the noise;
  `InPlaceExact`, for any number of binds, is to be read with that in mind.
* *Damaged `.cubebin` files*, the reader's bounds and panics.
* `--knowledge` and `--trace` of `run`, `inspect` and `disasm`, which only print;
  weighted bundles, LSH and the codebook's files, which the VM never calls; a second
  program loaded into one VM and the host's `vsa_*` helpers.

## 8. Plan

Done, in this order: the interpreter and its proofs, branches, requests, frames and
their proofs, memory with its refinement and proofs, the knowledge store and the
resident process with proofs, the tool chain with the loader's proofs; then
provenance, the request's safety, the algebra and recall, exclusion through aliases
and the file format as theorems; then that the interpreter is a function, and with it
the replay of branches and of requests.

Next: `RunRequest` as an implementation of a request that is one call, for which the
turns of `HostProofs` are the start; the compiler's checks as functions over lists of
statements instead of recursive operators, which would bring `StrictSkipsOnlyInAsm`
and `ValidateAgrees` within reach of proof; the collapse of floats to integers at the
boundaries of i64; hash collisions between two labels.
