------------------------- MODULE ConformanceGrading -------------------------
(***************************************************************************)
(* Grading a run of the A2A-MCP crossing corpus (a2a-mcp-crossing-v2,       *)
(* runner/run.py and runner/verify_submission.py).  A result starts as the  *)
(* reference run over fixtures; an adapter then executes lanes against real *)
(* transports, and its recorder may write wrong rows; the result is         *)
(* submitted and a summary derived, possibly "green".                       *)
(*                                                                          *)
(* A mutation stands for every case whose bundle was altered once, and its  *)
(* reason for the one the corpus expects.  The schemas and the bytes of the *)
(* artifacts are not modelled, only which of them must agree.               *)
(***************************************************************************)
EXTENDS Integers, Sequences, FiniteSets, SequencesExt

CONSTANTS
  Controls, Mutations, Replay,  \* the cases of the corpus
  Misreports,   \* attempts a faulty recorder may write
  MaxFaults,    \* bound: lanes that are written wrong
  None          \* no grade confirmed, no summary yet

Cases == Controls \union Mutations \union {Replay}
Lanes == {"native", "bound"}
Measurements == {"not_measured", "fixture_observed", "externally_observed"}
Grades == <<"reference_fixture", "transport_real", "implementation_independent",
            "operator_independent">>
GradeOrder(g) == CHOOSE i \in DOMAIN Grades : Grades[i] = g
IndependentGrades == {"implementation_independent", "operator_independent"}

(* What a recorder may write of an attempt, consistent or not.              *)
Attempts == [outcome : {"succeed", "reject", "non_comparable"},
             reason : {"accepted", "mismatch", "nonce_replay", "adapter_non_comparable"},
             before : Int, after : Int]

AttemptsOf(c) == IF c = Replay THEN 2 ELSE 1

(* The decision the corpus expects of the last attempt of a case.           *)
Expected(c) ==
  CASE c \in Controls -> [outcome |-> "succeed", reason |-> "accepted"]
    [] c \in Mutations -> [outcome |-> "reject", reason |-> "mismatch"]
    [] c = Replay -> [outcome |-> "reject", reason |-> "nonce_replay"]

Accepted == Expected(CHOOSE c \in Controls : TRUE)
RejectReasons == {"mismatch", "nonce_replay"}

(* The rows of a lane whose attempts were decided so: a success takes one   *)
(* effect, and the counter runs on over the attempts.                       *)
Rows(decisions) ==
  LET Effects(n) == Cardinality({i \in 1..n : decisions[i].outcome = "succeed"})
  IN [i \in DOMAIN decisions |->
        [outcome |-> decisions[i].outcome, reason |-> decisions[i].reason,
         before |-> Effects(i - 1), after |-> Effects(i)]]

(* attempt_rows: the verifier decides; only the first replay is accepted.   *)
BoundRows(c) ==
  Rows([i \in 1..AttemptsOf(c) |-> IF i = AttemptsOf(c) THEN Expected(c) ELSE Accepted])

(* The native lane binds nothing, and every attempt takes effect (external). *)
NativeRows(c) == Rows([i \in 1..AttemptsOf(c) |-> Accepted])

Lane(measurement, attempts) == [measurement |-> measurement, attempts |-> attempts]
Unmeasured == Lane("not_measured", <<>>)

VARIABLES
  rows,     \* the result: for every case and lane, what was measured
  grade,    \* the grade the submitter claims
  faults,   \* lanes written wrong so far
  summary   \* what the last submission was told, or None

vars == <<rows, grade, faults, summary>>

TypeOK ==
  /\ rows \in [Cases -> [Lanes -> [measurement : Measurements, attempts : Seq(Attempts)]]]
  /\ grade \in ToSet(Grades)
  /\ faults \in 0..MaxFaults

(* run(): the fixtures, with no native lane.                                *)
Init ==
  /\ rows = [c \in Cases |-> [l \in Lanes |->
               IF l = "native" THEN Unmeasured
                               ELSE Lane("fixture_observed", BoundRows(c))]]
  /\ grade = "reference_fixture"
  /\ faults = 0
  /\ summary = None

(* The adapter executes one lane of one case, or its recorder writes        *)
(* something else, in place of what the result said before (external).      *)
Execute(c, l) ==
  /\ rows' = [rows EXCEPT ![c][l] = Lane("externally_observed",
                                         IF l = "bound" THEN BoundRows(c)
                                                        ELSE NativeRows(c))]
  /\ summary' = None
  /\ UNCHANGED <<grade, faults>>

Misrecord(c, l, lane) ==
  /\ faults < MaxFaults
  /\ faults' = faults + 1
  /\ rows' = [rows EXCEPT ![c][l] = lane]
  /\ summary' = None
  /\ UNCHANGED grade

Claim(g) ==
  /\ grade' = g
  /\ summary' = None
  /\ UNCHANGED <<rows, faults>>

-----------------------------------------------------------------------------
(* _validate_attempts.                                                      *)

(* Mutation: the counter need not start at nought.                          *)
ContinuousOnly(attempts) ==
  \A i \in DOMAIN attempts : i > 1 => attempts[i].before = attempts[i - 1].after

(* The counter starts at nought and runs on over the attempts.              *)
Continuous(attempts) ==
  \A i \in DOMAIN attempts :
    attempts[i].before = (IF i = 1 THEN 0 ELSE attempts[i - 1].after)

(* Outcome, reason and effect of one attempt say the same thing.            *)
Consistent(a) ==
  LET delta == a.after - a.before IN
  \/ a.outcome = "succeed" /\ a.reason = "accepted" /\ delta = 1
  \/ a.outcome = "reject" /\ a.reason \in RejectReasons /\ delta = 0
  \/ a.outcome = "non_comparable" /\ a.reason = "adapter_non_comparable" /\ delta = 0

ValidLane(c, l, lane) ==
  IF lane.measurement = "not_measured" THEN lane.attempts = <<>>
  ELSE /\ Len(lane.attempts) = AttemptsOf(c)
       /\ Continuous(lane.attempts)
       /\ \A i \in DOMAIN lane.attempts : Consistent(lane.attempts[i])
       /\ l = "bound" /\ c = Replay => lane.attempts = BoundRows(Replay)
       /\ c \in Controls => lane.attempts[1] = NativeRows(c)[1]

(* validate_result: every lane of every case.                               *)
ValidResult == \A c \in Cases, l \in Lanes : ValidLane(c, l, rows[c][l])

-----------------------------------------------------------------------------
(* derive_summary.                                                          *)

External(c, l) == rows[c][l].measurement = "externally_observed"
LastOf(c, l) == rows[c][l].attempts[Len(rows[c][l].attempts)]
Decision(a) == [outcome |-> a.outcome, reason |-> a.reason]

(* Cases the native lane let through and the bound lane stopped.            *)
Discriminating ==
  {c \in Cases \ Controls :
     /\ \A l \in Lanes : External(c, l)
     /\ LastOf(c, "native").outcome = "succeed"
     /\ LastOf(c, "bound").outcome = "reject"}

ExpectationsMatch ==
  \A c \in Cases : External(c, "bound") /\ Decision(LastOf(c, "bound")) = Expected(c)

CompleteExternalExecution == \A c \in Cases, l \in Lanes : External(c, l)

(* valid_both is what complete execution and validation leave to check.     *)
Green(confirmed) ==
  /\ confirmed \in IndependentGrades
  /\ CompleteExternalExecution
  /\ Discriminating # {}
  /\ ExpectationsMatch

(* verify_submission with the grade intake confirmed: an invalid result, or *)
(* a confirmation above the claim, raises and derives nothing.              *)
VerifySubmission(confirmed) ==
  /\ ValidResult
  /\ confirmed # None => GradeOrder(confirmed) <= GradeOrder(grade)
  /\ summary' = [confirmed |-> confirmed, green |-> Green(confirmed),
                 discriminating |-> Discriminating]
  /\ UNCHANGED <<rows, grade, faults>>

Next ==
  \/ \E c \in Cases, l \in Lanes :
       \/ Execute(c, l)
       \/ \E measurement \in Measurements,
             attempts \in UNION {[1..n -> Misreports] : n \in 0..2} :
            Misrecord(c, l, Lane(measurement, attempts))
  \/ \E g \in ToSet(Grades) : Claim(g)
  \/ \E confirmed \in ToSet(Grades) \union {None} : VerifySubmission(confirmed)

Spec == Init /\ [][Next]_vars

-----------------------------------------------------------------------------
(* A green summary means containment, whatever the recorder got wrong and   *)
(* in whatever order lanes were run again: by the counters of the result,   *)
(* which nothing compares with a case's total, the bound lane took effect   *)
(* exactly once in every control and in the replay and never elsewhere; the *)
(* native lane really took each control's effect and some altered one's;    *)
(* and both claim and confirmation are of an independent grade.             *)
GreenMeansContained ==
  summary # None /\ summary.green =>
    /\ \A c \in Cases :
         /\ rows[c]["bound"].measurement = "externally_observed"
         /\ LastOf(c, "bound").after = IF c \in Mutations THEN 0 ELSE 1
    /\ \A c \in Controls :
         /\ rows[c]["native"].measurement = "externally_observed"
         /\ LastOf(c, "native").after = 1
    /\ \E c \in Cases \ Controls : LastOf(c, "native").after > 0
    /\ summary.confirmed \in IndependentGrades
    /\ grade \in IndependentGrades
=============================================================================
