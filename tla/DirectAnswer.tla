---------------------------- MODULE DirectAnswer ----------------------------
(***************************************************************************)
(* How the direct clients of the four SDKs, and the server, read an answer *)
(* of Jev: a choice and a confidence, or failing that the probability of   *)
(* the choice.                                                             *)
(*                                                                         *)
(* Scores are in hundredths, from -1 up; what is no number is below.       *)
(***************************************************************************)
EXTENDS Integers

Missing == -2  \* no such member
Null == -3     \* null; for the probability: no object to look it up in
Text == -4     \* a string

\* Scores at the threshold and at the ends of the range.
Number == {-1, 0, 79, 80, 100, 101}

\* An answer; one that has no choice, or is no JSON at all, has another one.
Document ==
  [choice : {"true", "false", "other"},
   confidence : Number \cup {Missing, Null, Text},
   probability : Number \cup {Missing, Null, Text}]

InRange(score) == score \in Number /\ 0 <= score /\ score <= 100

\* Mutant: the threshold itself is uncertain.
JudgeAbove(choice, score) ==
  IF choice \notin {"true", "false"} \/ ~ InRange(score) THEN "invalid_response"
  ELSE IF score <= 80 THEN "uncertain"
  ELSE choice

\* The end that the four have in common: "true" and "false" stand for the
\* statuses valid and invalid.
Judge(choice, score) ==
  IF choice \notin {"true", "false"} \/ ~ InRange(score) THEN "invalid_response"
  ELSE IF score < 80 THEN "uncertain"
  ELSE choice

\* A member of the wrong type spoils the whole document, also one not needed;
\* null is a member that is absent.
GoReads(d) ==
  IF Text \in {d.confidence, d.probability} THEN "invalid_response"
  ELSE Judge(d.choice, IF d.confidence \in Number THEN d.confidence ELSE d.probability)

\* The probability stands in for any confidence that is no number.
TypeScriptReads(d) ==
  Judge(d.choice, IF d.confidence \in Number THEN d.confidence ELSE d.probability)

\* Only for one that is absent.
JavaReads(d) ==
  Judge(d.choice, IF d.confidence = Missing THEN d.probability ELSE d.confidence)

\* Likewise, but the probability is looked up in any case.
PythonReads(d) ==
  IF d.probability = Null THEN "invalid_response"
  ELSE Judge(d.choice, IF d.confidence = Missing THEN d.probability ELSE d.confidence)

\* The server of the repository, asked for the same: a member that is no number
\* counts as absent.  Of a document without the choice it takes whatever boolean
\* and score it finds elsewhere.
ServerReads(d) ==
  IF d.choice = "other" THEN {"true", "false", "uncertain", "invalid_response"}
  ELSE {Judge(d.choice, IF d.confidence \in Number THEN d.confidence ELSE d.probability)}

Read(sdk, d) ==
  CASE sdk = "go"         -> GoReads(d)
    [] sdk = "typescript" -> TypeScriptReads(d)
    [] sdk = "java"       -> JavaReads(d)
    [] sdk = "python"     -> PythonReads(d)

\* The documents of the tests: a choice with a confidence, or with
\* probabilities, in range.
Regular(d) ==
  /\ d.choice \in {"true", "false"}
  /\ \/ InRange(d.confidence) /\ d.probability \in Number \cup {Missing}
     \/ d.confidence = Missing /\ InRange(d.probability)

\* The score that a regular document gives its choice.
Score(d) == IF d.confidence = Missing THEN d.probability ELSE d.confidence
=============================================================================
