------------------------------ MODULE CacheKey ------------------------------
(***************************************************************************)
(* The key that the service keeps a result under: operation, rule or       *)
(* question, version and value, joined with NUL (cacheKey of               *)
(* internal/validation/service.go).  The SHA-256 of that text is taken to  *)
(* tell any two texts apart.                                               *)
(***************************************************************************)
EXTENDS Sequences

CONSTANTS
  Char,       \* the characters of a text
  NUL,        \* the one that cacheKey joins with
  Validate,   \* the operation of ValidateBatch's items and of Validate
  Check       \* the operation of Check

Text == Seq(Char)

\* validText and TrimSpace let NUL pass.
NulFree(t) == \A i \in DOMAIN t : t[i] # NUL

ASSUME CharAssumption ==
  /\ NUL \in Char
  /\ Validate \in Text /\ Check \in Text /\ Check # Validate
  /\ NulFree(Validate) /\ NulFree(Check)

\* What Validate and Check evaluate.  The IDs of rules are those of the built-in
\* catalog, versions are numbers in decimal; questions and values are the
\* client's.
Evaluation ==
  {s \in [operation : {Validate, Check}, subject : Text, version : Text, value : Text] :
     /\ NulFree(s.version)
     /\ s.operation = Validate => NulFree(s.subject)}

Join(a, b) == a \o <<NUL>> \o b

\* Mutant: the rule or question is forgotten.
ValueKey(s) == Join(s.operation, Join(s.version, s.value))

cacheKey(s) == Join(s.operation, Join(s.subject, Join(s.version, s.value)))

\* No other evaluation has the key of s (UniqueKey of CacheKeyProofs): a rule
\* is validated, or a question is asked of a value and neither holds a NUL.
Unmistakable(s) == s.operation = Validate \/ (NulFree(s.subject) /\ NulFree(s.value))
=============================================================================
