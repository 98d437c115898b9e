----------------------------- MODULE Attribution -----------------------------
(***************************************************************************)
(* What a call is for, and whose objective it serves: attributor.py.       *)
(* Everything here is an operator; Edge uses them.                         *)
(*                                                                         *)
(* A branch is its head word and the ticket it encodes.  A prompt, already *)
(* redacted and reduced to its intent, is how often the built-in pattern   *)
(* of each label matches it and which terms it has; learned is label ->    *)
(* terms.  Similarity of two embeddings is a number of hundredths.         *)
(***************************************************************************)
EXTENDS Naturals, Sequences, SequencesExt, FiniteSets, FiniteSetsExt, Functions

CONSTANTS
  None,
  ObjectiveOrder,   \* the objectives, in the order of the YAML file
  ByPrefix,         \* ticket -> the objective its prefix is mapped to; partial
  ByRepo,           \* repo -> objective; partial
  Closeness,        \* <<prompt, objective>> -> similarity, 0..100
  Floor             \* semantic_threshold, in hundredths

ASSUME AttributionAssumption == Floor \in 1..100

Objectives == ToSet(ObjectiveOrder)

-----------------------------------------------------------------------------
(* The objective *)

\* extract_ticket
TicketOf(work) ==
  IF work.ticket # None THEN work.ticket
  ELSE IF work.branch # None THEN work.branch.ticket ELSE None

\* A join, when the mapping names an objective that there is.
Joined(mapping, key) ==
  IF key \in DOMAIN mapping THEN {mapping[key]} \cap Objectives ELSE {}

\* The objectives as close as any; the first one is kept (`sim > best[0]`).
Nearest(prompt) ==
  LET Best(best, o) ==
        IF best = None \/ Closeness[prompt, o] > Closeness[prompt, best] THEN o ELSE best
  IN FoldLeft(Best, None, ObjectiveOrder)

\* attribute(): ticket, then repository, then the nearest objective above the
\* floor, then none.
Attribute(work, prompt) ==
  LET byTicket == Joined(ByPrefix, TicketOf(work))
      byRepo == Joined(ByRepo, work.repo)
      nearest == Nearest(prompt)
      Is(objective, method, confidence) ==
        [objective |-> objective, method |-> method, confidence |-> confidence]
  IN IF byTicket # {} THEN Is(CHOOSE o \in byTicket : TRUE, "ticket_join", 100)
     ELSE IF byRepo # {} THEN Is(CHOOSE o \in byRepo : TRUE, "repo_join", 100)
     ELSE IF nearest # None /\ Closeness[prompt, nearest] >= Floor
          THEN Is(nearest, "semantic", Closeness[prompt, nearest])
     ELSE Is(None, "none", 0)

-----------------------------------------------------------------------------
(* The work type *)

\* _WORK_PREFIX: the conventions on the first word of a branch.
WorkPrefix ==
  [feature |-> {"feature", "feat", "feature-new", "new"},
   fix |-> {"fix", "bug", "bugfix", "hotfix", "patch"},
   refactor |-> {"refactor", "refac", "cleanup", "tidy"},
   perf |-> {"perf", "optimize"},
   chore |-> {"chore", "build", "ci", "ops", "deps", "release"},
   exploration |-> {"spike", "poc", "prototype", "experiment", "explore", "research"},
   docs |-> {"docs", "doc"},
   test |-> {"test", "tests", "qa"}]

Labels == DOMAIN WorkPrefix

\* The labels that a branch stands for: one, or none.
BranchLabels(branch) ==
  IF branch = None THEN {} ELSE {l \in Labels : branch.head \in WorkPrefix[l]}

\* _PROMPT_SIGNALS: their order decides between equal scores.
SignalOrder == <<"fix", "test", "docs", "refactor", "perf", "chore", "exploration", "feature">>
Weight == [l \in Labels |-> IF l \in {"chore", "exploration", "feature"} THEN 2 ELSE 3]

Score(prompt, learned, l) ==
  prompt.hits[l] * Weight[l]
    + 2 * Cardinality(prompt.terms \cap learned[l])

\* classify_from_prompt(): what max() may return.  Labels that a built-in
\* pattern scored are first in the dictionary, in the order of the patterns;
\* those that only learned terms scored follow in the order of the memory.
Classified(prompt, learned) ==
  LET top == Max({Score(prompt, learned, l) : l \in Labels})
      best == {l \in Labels : Score(prompt, learned, l) = top}
      matched == SelectSeq(SignalOrder, LAMBDA l : l \in best /\ prompt.hits[l] > 0)
  IN IF top = 0 THEN {"unknown"}
     ELSE IF matched # <<>> THEN {Head(matched)}
     ELSE best

\* work_type_and_source(), without the LLM: what may be the label, and how it
\* is known; "none" leaves it to the LLM when there is one.
WorkTypes(work, prompt, learned) ==
  IF BranchLabels(work.branch) # {} THEN BranchLabels(work.branch) \X {"branch"}
  ELSE {<<l, IF l = "unknown" THEN "none" ELSE "prompt">> : l \in Classified(prompt, learned)}
==============================================================================
