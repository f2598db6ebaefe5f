--------------------------- MODULE KnowledgeStore ---------------------------
(***************************************************************************)
(* The knowledge store (src/src/vm/knowledge.rs): normalized keys, the     *)
(* facts under them, aliases, removal, and the line-by-line loader.        *)
(*                                                                         *)
(* A store maps every key to its facts; an absent key has none, since the  *)
(* code never keeps an empty list.  A fact is its text and source, as one  *)
(* value.                                                                  *)
(***************************************************************************)
EXTENDS Integers, Sequences, FiniteSets

CONSTANTS
  Surface,    (* names as written in a file, a branch or a program          *)
  FactKey,    (* names once normalized                                      *)
  Normalize,  (* lower case, punctuation and blanks folded                  *)
  Fact        (* (text, source) pairs                                       *)

(* A surface form of punctuation alone folds to nothing.                   *)
Blank == "blank"

ASSUME NormalizeAssumption ==
  /\ Normalize \in [Surface -> FactKey \cup {Blank}]
  /\ Blank \notin FactKey
  /\ IsFiniteSet(FactKey)

Store      == [FactKey -> Seq(Fact)]
EmptyStore == [k \in FactKey |-> <<>>]

Holds(st, k)   == k \in FactKey /\ st[k] # <<>>
Lookup(st, s)  == IF Holds(st, Normalize[s]) THEN st[Normalize[s]] ELSE <<>>

InsertBlank(st, s, f) ==                                         \* mutant
  [k \in DOMAIN st \cup {Normalize[s]} |->
     IF k \notin DOMAIN st THEN <<f>>
     ELSE IF k = Normalize[s] THEN Append(st[k], f) ELSE st[k]]
(* A key that folds to nothing is not inserted.                            *)
Insert(st, s, f) == [k \in FactKey |-> IF k = Normalize[s] THEN Append(st[k], f)
                                       ELSE st[k]]

(* An alias copies the facts its name has at that moment, over whatever    *)
(* the alias had.                                                          *)
CanAlias(st, a, c) == /\ Normalize[a] \notin {Blank, Normalize[c]}
                      /\ Holds(st, Normalize[c])
Alias(st, a, c) == IF CanAlias(st, a, c)
                   THEN [st EXCEPT ![Normalize[a]] = st[Normalize[c]]] ELSE st

(* Removal takes every key that carries the same list of facts with it.    *)
OnlyItself(st, s) == {k \in FactKey : k = Normalize[s] /\ Holds(st, k)} \* mutant
Removed(st, s) == IF Holds(st, Normalize[s])
                  THEN {k \in FactKey : st[k] = st[Normalize[s]]} ELSE {}
Without(st, s) == [k \in FactKey |-> IF k \in Removed(st, s) THEN <<>> ELSE st[k]]

-----------------------------------------------------------------------------
(* A file is a sequence of lines, each a record of one of these kinds; a   *)
(* line that is no JSON or lacks a field is "bad", a blank or a comment is *)
(* "none".                                                                 *)

Line == [kind : {"fact"}, name : Surface, fact : Fact]
          \cup [kind : {"alias"}, name : Surface, of : Surface]
          \cup [kind : {"bad", "none"}]

(* What reading the lines so far has made of a store.                      *)
Reading(st) == [store |-> st, count |-> 0, bad |-> FALSE]

ReadLine(r, l) ==
  CASE r.bad -> r
    [] ~r.bad /\ l.kind = "bad"   -> [r EXCEPT !.bad = TRUE]
    [] ~r.bad /\ l.kind = "none"  -> r
    [] ~r.bad /\ l.kind = "alias" ->
         [r EXCEPT !.store = Alias(r.store, l.name, l.of),
                   !.count = IF CanAlias(r.store, l.name, l.of) THEN @ + 1 ELSE @]
    [] ~r.bad /\ l.kind = "fact"  ->
         [r EXCEPT !.store = Insert(r.store, l.name, l.fact), !.count = @ + 1]

(* load_jsonl stops at the first bad line; what it read stays in the store.*)
AfterLines(st, lines) ==
  LET after[i \in 0 .. Len(lines)] ==
        IF i = 0 THEN Reading(st) ELSE ReadLine(after[i - 1], lines[i])
  IN after
LoadJsonl(st, lines) == AfterLines(st, lines)[Len(lines)]

=============================================================================
