----------------------------- MODULE RunRequest -----------------------------
(***************************************************************************)
(* One request of the resident run-proto process (src/src/main.rs,         *)
(* run_request_result): compile, load the knowledge store, apply the       *)
(* branch, set the budgets, run the constructor and then the function the  *)
(* request names, feed it the request's answers, reply.  The VM is CubeVM  *)
(* and every call on it is one of its host actions.                        *)
(*                                                                         *)
(* Across the wire is a client that, told of a suspension, sends the same  *)
(* request again with one more answer: run-proto keeps no VM between       *)
(* requests, so the resent request runs on a fresh one.                    *)
(***************************************************************************)
EXTENDS CubeVM

CONSTANTS
  Requests,     (* the requests a client may open with                      *)
  MaxAnswers    (* bound: answers a client appends                          *)

(* An answer that is not JSON, or JSON no Value stands for.                *)
Garbled == <<"garbled", 0>>

Request == [compiles : BOOLEAN, readable : BOOLEAN, assumable : BOOLEAN,
            fn : STRING, args : Seq(Value), answers : Seq(Value \cup {Garbled}),
            exclude : SUBSET Sym, assume : [Sym -> Seq(Map)]]

ASSUME RequestsAssumption ==
  /\ Requests \subseteq Request
  /\ MaxAnswers \in Nat

VARIABLES
  request,
  store,        (* the parsed knowledge file; the VM gets a clone           *)
  phase,        (* where run_request_result is                              *)
  answersLeft,  (* the answers iterator                                     *)
  reply,
  refusals,     (* history: (phase, budget) refused in this request         *)
  earlier       (* history: what the request asked before it was resent     *)

wire    == <<request, store, earlier>>
serving == <<phase, answersLeft, reply, refusals>>
requestVars == <<vars, wire, serving>>

NoReply == [kind |-> "none", value |-> Null, why |-> "none"]

-----------------------------------------------------------------------------
(* Before the program runs.                                                *)

(* Exclusions first, so an assumed fact under an excluded key survives.    *)
Excluded(k, m) == \E x \in request.exclude : k[x] = k[m]
Branched(k) == [m \in Sym |->
  (IF Excluded(k, m) THEN <<>> ELSE k[m]) \o request.assume[m]]

Obstacle == CASE ~request.compiles -> "compile"
              [] request.compiles /\ ~request.readable -> "knowledge"
              [] request.compiles /\ request.readable /\ ~request.assumable -> "assume"
              [] OTHER -> "none"

Refusal == /\ phase = "received"
           /\ Obstacle # "none"
           /\ reply' = Error(Obstacle)
           /\ phase' = "replied"
           /\ UNCHANGED <<vars, wire, answersLeft, refusals>>

Prepare == /\ phase = "received"
           /\ Obstacle = "none"
           /\ knowledge' = Branched(store)
           /\ phase' = "constructor"
           /\ UNCHANGED <<prog, limits, machine, frames, result, ops, counters,
                          entries, late, susps, snaps, hostCalls>>
           /\ UNCHANGED <<wire, answersLeft, reply, refusals>>

-----------------------------------------------------------------------------
(* call_with_constructor: the constructor's result is dropped.             *)

CallOf(f, args) == (IsOwn(f) /\ Call(f, args)) \/ CallMissing(f)

RunConstructor == /\ phase = "constructor"
                  /\ CallOf("constructor", <<>>)
                  /\ phase' = "constructing"
                  /\ UNCHANGED <<wire, answersLeft, reply, refusals>>

External(f) == IsOwn(f) => prog.fns[f].access = "external"
NotSystem(f) == IsOwn(f) => prog.fns[f].access # "system"        \* mutant
Admits(f) == External(f)

RunTarget == /\ phase = "constructing"
             /\ \/ Admits(request.fn) /\ CallOf(request.fn, request.args)
                \/ ~Admits(request.fn) /\ EntryRefused(request.fn)
             /\ phase' = "running"
             /\ UNCHANGED <<wire, answersLeft, reply, refusals>>

(* The program's own steps, in either phase.                               *)
Budgets == {"op budget", "query budget", "jump budget", "wall budget"}
RunProgram ==
  /\ Execute
  /\ refusals' = IF result'.why \in Budgets
                 THEN refusals \cup {<<phase, result'.why>>} ELSE refusals
  /\ UNCHANGED <<wire, phase, answersLeft, reply>>

-----------------------------------------------------------------------------
(* The answers loop and the reply.                                         *)

Idle == phase = "running" /\ frames = <<>>
Asking == result.kind = "suspend"

BadAnswer == /\ Idle /\ Asking
             /\ answersLeft # <<>> /\ Head(answersLeft) = Garbled
             /\ answersLeft' = Tail(answersLeft)
             /\ reply' = Error("bad answer")
             /\ phase' = "replied"
             /\ UNCHANGED <<vars, wire, refusals>>

Answer == LET s == susps[Len(susps)]
              a == Head(answersLeft)
          IN /\ Idle /\ Asking
             /\ answersLeft # <<>> /\ a # Garbled
             /\ Resume(s, a) \/ ResumeRefused(s, a)
             /\ answersLeft' = Tail(answersLeft)
             /\ UNCHANGED <<wire, phase, reply, refusals>>

AnswersOnly == ~Asking                                           \* mutant
Settled     == Asking => answersLeft = <<>>

ErrorAsValue(res) == IF res.kind = "suspend" THEN res ELSE Done("ok", res.value)  \* mutant
Reported(res) == IF res.kind = "return" THEN Done("ok", res.value) ELSE res

Reply == /\ Idle /\ Settled
         /\ reply' = Reported(result)
         /\ phase' = "replied"
         /\ UNCHANGED <<vars, wire, answersLeft, refusals>>

-----------------------------------------------------------------------------
(* The client, and the clock.                                              *)

VMReused == UNCHANGED <<storage, memory>>                        \* mutant
VMFresh  == /\ storage' = [k \in Key |-> Unbound]
            /\ memory' = [k \in Key |-> Unbound]

(* The same request with an answer to the question it was left with.       *)
Resend ==
  LET s == susps[Len(susps)]
  IN /\ phase = "replied" /\ reply.kind = "suspend"
     /\ Len(request.answers) < MaxAnswers
     /\ \E a \in IF s.candidates = <<>> THEN Answers ELSE Offered(s) :
          /\ request' = [request EXCEPT !.answers = Append(@, a)]
          /\ answersLeft' = Append(request.answers, a)
     /\ earlier' = susps
     /\ phase' = "received" /\ reply' = NoReply /\ refusals' = {}
     /\ VMFresh
     /\ registers' = NoRegisters /\ stack' = <<>> /\ accumulator' = Null
     /\ frames' = <<>> /\ result' = NoResult
     /\ ops' = 0 /\ jumpsTaken' = 0 /\ queried' = <<>>
     /\ once' = {} /\ spelled' = LoadedNames(prog) /\ runs' = [f \in DOMAIN prog.fns |-> 0]
     /\ late' = FALSE /\ susps' = <<>> /\ snaps' = {} /\ hostCalls' = 0
     /\ knowledge' = store
     /\ UNCHANGED <<prog, limits, store>>

(* apply_budget starts the clock after the branch is applied.              *)
ClockPasses == /\ phase \in {"constructor", "constructing", "running"}
               /\ DeadlinePasses
               /\ UNCHANGED <<wire, serving>>

Replied == phase = "replied" /\ UNCHANGED requestVars

-----------------------------------------------------------------------------

RequestInit ==
  /\ Init
  /\ request \in Requests /\ store = knowledge
  /\ phase = "received" /\ answersLeft = request.answers
  /\ reply = NoReply /\ refusals = {} /\ earlier = <<>>

Serve == \/ Refusal \/ Prepare \/ RunConstructor \/ RunTarget \/ RunProgram
         \/ BadAnswer \/ Answer \/ Reply

RequestNext == Serve \/ Resend \/ ClockPasses \/ Replied

(* run_request_result is a straight line of code: it never waits.          *)
RequestSpec == RequestInit /\ [][RequestNext]_requestVars /\ WF_requestVars(Serve)

-----------------------------------------------------------------------------

RequestTypeOK ==
  /\ TypeOK
  /\ request \in Request
  /\ store \in [Sym -> Seq(Map)]
  /\ phase \in {"received", "constructor", "constructing", "running", "replied"}
  /\ answersLeft \in Seq(Value \cup {Garbled})
  /\ reply \in ExecResult \/ reply.why \in {"compile", "knowledge", "assume", "bad answer"}
  /\ refusals \subseteq {"constructing", "running"} \X Budgets
  /\ earlier \in Seq(Suspension)

(* The host's entry: in the phase that runs the request's function nothing *)
(* but an external function is ever at the bottom of the call stack, also  *)
(* when a constructor left a suspension behind and answers are waiting.    *)
EntryIsExternal ==
  phase = "running" /\ frames # <<>> => prog.fns[frames[1].fn].access = "external"

(* A budget that stops the requested function is never reported as an      *)
(* answer, however many suspensions came before it.                        *)
TargetRefusalsSurface ==
  phase = "replied" /\ reply.kind \in {"ok", "suspend"}
    => \A b \in Budgets : <<"running", b>> \notin refusals

(* What makes resending sound (proto/reasoning.proto: no VM state crosses  *)
(* the wire): a resent request meets the same questions, with the same     *)
(* candidates, in the same order as the request it repeats.  A wall budget *)
(* is excluded: the clock may stop the constructor in one run only.        *)
ReplayReachesSameAsk ==
  ~limits.wall => \A i \in DOMAIN susps \cap DOMAIN earlier : susps[i] = earlier[i]

(* Budget, in the words of the wire contract: exceeding one is an error    *)
(* naming it, never a truncated answer.                                    *)
NeverTruncated ==
  phase = "replied" /\ reply.kind \in {"ok", "suspend"} => refusals = {}

(* Liveness: every request is answered, whatever it carries.               *)
EveryRequestAnswered == phase = "received" ~> phase = "replied"

=============================================================================
