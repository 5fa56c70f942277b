----------------------------- MODULE Guardrails -----------------------------
(***************************************************************************)
(* The guardrail: may a command delete or overwrite a path? A path is the  *)
(* sequence of its segments below the workspace root; Outside stands for   *)
(* one that resolves to the root itself or above it. A policy is what      *)
(* .maia/guardrails.json holds: nothing, something malformed, or patterns. *)
(*                                                                         *)
(* A pattern is a sequence of Globstar and of sets of segments, a set for  *)
(* a segment with *, ? or literal text: the segments it matches.           *)
(***************************************************************************)
EXTENDS Naturals, Sequences, FiniteSets

CONSTANTS
  Outside,        \* a path that is not below the workspace root
  Globstar,       \* the ** of a pattern
  EnvSegments     \* the segments that *.env matches

DefaultDenyPatterns ==
  {<<Globstar, EnvSegments>>, <<Globstar, {"credentials"}, Globstar>>}

\* A policy file that could not be read counts as absent; one with another
\* version or with patterns that are not strings is malformed.
AbsentPolicy == [state |-> "absent", patterns |-> {}]
MalformedPolicy == [state |-> "malformed", patterns |-> {}]
LoadedPolicy(patterns) == [state |-> "loaded", patterns |-> patterns]

ParseGuardrailConfig(version, patternsAreStrings, patterns) ==
  IF version = 1 /\ patternsAreStrings THEN LoadedPolicy(patterns) ELSE MalformedPolicy

\* covered[i]: how many segments the first i elements of the pattern may cover.
\* A Globstar covers at least one at the end, elsewhere any number.
MatchDenyPattern(path, pattern) ==
  LET covered[i \in 0..Len(pattern)] ==
        IF i = 0 THEN {0}
        ELSE IF pattern[i] # Globstar
        THEN {n + 1 : n \in {m \in covered[i-1] : m < Len(path) /\ path[m + 1] \in pattern[i]}}
        ELSE {n \in 0..Len(path) :
                \E m \in covered[i-1] : m < n \/ (m = n /\ i # Len(pattern))}
  IN Len(path) \in covered[Len(pattern)]

\* The verdict comes from the path alone, whatever the action and its reason.
EvaluateGuardrail(path, policy) ==
  IF \/ path = Outside
     \/ policy.state = "malformed"
     \/ \E pattern \in DefaultDenyPatterns \cup policy.patterns :
          MatchDenyPattern(path, pattern)
  THEN "block" ELSE "allow"

\* Exit code 2 tells a malformed policy from a blocked path.
AssertPathAllowed(path, policy) ==
  IF EvaluateGuardrail(path, policy) = "allow" THEN 0
  ELSE IF policy.state = "malformed" THEN 2 ELSE 1
=============================================================================
