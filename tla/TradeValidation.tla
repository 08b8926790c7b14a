--------------------------- MODULE TradeValidation ---------------------------
(***************************************************************************)
(* The validation of a trade candidate (validation/engine.py), and what    *)
(* the gateway makes of the verdict (gateway.py): scores are brought to    *)
(* one scale, a card of checks is filled in, every check that fails is a   *)
(* reason, and points are given for some of them.                          *)
(*                                                                         *)
(* A score that a candidate does not carry is Absent; a flag that it does  *)
(* not carry is "unset".  Scores are integers, chop is the chop of the     *)
(* market on the scale of ten, lively whether it moves enough, ratio the   *)
(* reward for two units of risk.                                           *)
(***************************************************************************)
EXTENDS Integers, FiniteSetsExt

CONSTANTS RawScores,   \* the scores a candidate may carry, on either scale
          Chops,       \* how choppy the market may be
          Ratios,      \* rewards for two units of risk
          MaxFlaws     \* bound: how many marks of a candidate may be other than perfect

ASSUME MarksAssumption == RawScores \subseteq Int /\ Chops \subseteq Int /\ Ratios \subseteq Int

VARIABLE setup   \* the candidate

Absent == -1
ScoreMarks == {"zone", "freshness", "moveAway", "base", "retest", "rejection", "structure"}
FlagMarks == {"vwap", "trend", "volatility", "chopOk", "confirmed"}

Perfect ==
  [mark \in ScoreMarks \cup FlagMarks \cup {"touched", "chop", "lively", "ratio", "readable"} |->
     CASE mark \in ScoreMarks -> 100
       [] mark \in FlagMarks -> "unset"
       [] mark = "chop" -> 0
       [] mark = "ratio" -> 4
       [] mark = "touched" -> FALSE
       [] OTHER -> TRUE]

May(mark) == CASE mark \in ScoreMarks -> RawScores
               [] mark \in FlagMarks -> {"yes", "no", "unset"}
               [] mark = "chop" -> Chops
               [] mark = "ratio" -> Ratios
               [] OTHER -> BOOLEAN

Flaws(candidate) == {mark \in DOMAIN Perfect : candidate[mark] # Perfect[mark]}

-----------------------------------------------------------------------------
(* The card. *)

Given(raw, otherwise) == IF raw = Absent THEN otherwise ELSE raw
Told(flag, otherwise) == CASE flag = "yes" -> TRUE [] flag = "no" -> FALSE [] flag = "unset" -> otherwise

\* Mutant: a ten counts on the scale of a hundred.
NormalizeBelowTen(raw) == Max({0, Min({IF raw < 10 THEN 10 * raw ELSE raw, 100})})

\* Up to ten it is a score of ten, above ten one of a hundred.
NormalizeComponentScore(raw) == Max({0, Min({IF raw <= 10 THEN 10 * raw ELSE raw, 100})})

Scores(candidate) ==
  LET zone == NormalizeComponentScore(Given(candidate.zone, 0))
  IN  [ zone |-> zone,
        freshness |-> NormalizeComponentScore(Given(candidate.freshness, IF candidate.touched THEN 60 ELSE 100)),
        moveAway |-> NormalizeComponentScore(Given(candidate.moveAway, 0)),
        base |-> NormalizeComponentScore(Given(candidate.base, zone)),
        retest |-> NormalizeComponentScore(Given(candidate.retest, 0)),
        rejection |-> NormalizeComponentScore(Given(candidate.rejection, 0)),
        structure |-> NormalizeComponentScore(Given(candidate.structure, Max({0, 10 - candidate.chop}))) ]

Scorecard(candidate) ==
  LET score == Scores(candidate)
      confirmed == Told(candidate.confirmed, score.retest >= 60)
  IN  [ vwap |-> Told(candidate.vwap, TRUE), trend |-> Told(candidate.trend, TRUE),
        volatility |-> Told(candidate.volatility, candidate.lively),
        chop |-> Told(candidate.chopOk, candidate.chop <= 6),
        fresh |-> score.freshness >= 60, moveAway |-> score.moveAway >= 50, base |-> score.base >= 45,
        confirmed |-> confirmed, retest |-> score.retest >= 60 /\ confirmed,
        rejection |-> score.rejection >= 45, structure |-> score.structure >= 50,
        zone |-> score.zone >= 50, ratio |-> candidate.ratio >= 4 ]

Points == [fresh |-> 2, moveAway |-> 2, base |-> 2, retest |-> 2, rejection |-> 1, structure |-> 1]
StrictPoints(card) ==
  LET Earned(check) == IF card[check] THEN Points[check] ELSE 0
  IN  Earned("fresh") + Earned("moveAway") + Earned("base") + Earned("retest") + Earned("rejection") + Earned("structure")

\* In hundredths of the weights: the zone counts most, the base not at all.
SetupQuality(candidate) ==
  LET score == Scores(candidate)
      card == Scorecard(candidate)
      Part(flag, weight) == IF flag THEN 100 * weight ELSE 0
  IN  (18 * score.zone
        + 12 * (score.freshness + score.moveAway + score.rejection + score.structure)
        + Part(card.confirmed, 10) + Part(card.vwap, 8) + Part(card.trend, 6)
        + Part(card.volatility, 5) + Part(card.chop, 5)) \div 100

-----------------------------------------------------------------------------
(* The verdict. *)

\* Every check that failed, and too few points.
RejectionReasons(candidate) ==
  LET card == Scorecard(candidate)
  IN  {check \in DOMAIN card : ~card[check]} \cup (IF StrictPoints(card) < 7 THEN {"score"} ELSE {})

\* Scores are in tenths.
ValidateTrade(candidate) ==
  IF ~candidate.readable THEN [decision |-> "FAIL", score |-> 0, strict |-> 0, reasons |-> {"invalid_input"}]
  ELSE LET strict == StrictPoints(Scorecard(candidate))
           score == Max({10 * strict, SetupQuality(candidate)})
           reasons == RejectionReasons(candidate)
       IN  [decision |-> IF reasons = {} /\ score >= 70 THEN "PASS" ELSE "FAIL",
            score |-> score, strict |-> strict, reasons |-> reasons]

\* What the gateway writes into the candidate.
ExecutionAllowed(verdict) == verdict.decision = "PASS" /\ verdict.reasons = {}

-----------------------------------------------------------------------------
(* The candidates one after another, each one mark apart from the last. *)

ValidationInit == setup = Perfect
ValidationNext ==
  \E mark \in DOMAIN Perfect : \E value \in May(mark) :
    /\ setup' = [setup EXCEPT ![mark] = value]
    /\ setup' # setup /\ Cardinality(Flaws(setup')) <= MaxFlaws

ValidationSpec == ValidationInit /\ [][ValidationNext]_setup

-----------------------------------------------------------------------------
(* Properties. *)

\* The points never decide, and neither does the quality: whoever passes has
\* all ten points, because every check that is worth points is a reason of its
\* own, and the gateway allows exactly who passed.
PassIsPerfect ==
  LET verdict == ValidateTrade(setup)
  IN  /\ verdict.decision = "PASS" => verdict.strict = 10 /\ verdict.score = 100
      /\ ExecutionAllowed(verdict) <=> verdict.reasons = {}

\* More is never worse, as long as it is said on one scale: a score that rises
\* within ten, or above ten, never makes a candidate fail that passed, nor
\* takes points from it.  Across the scales it may: ten is a hundred of a
\* hundred, and eleven is eleven.  A candidate without a score of its base has
\* the one of its zone, which is brought to the scale twice: a zone of one of
\* ten makes a base of a hundred, which a better zone takes back.
MoreIsNoWorse ==
  [][ \A mark \in ScoreMarks :
        LET before == setup[mark]
            after == setup'[mark]
        IN  ( /\ setup.readable /\ before # Absent /\ before < after /\ (after <= 10 \/ before > 10)
              /\ setup' = [setup EXCEPT ![mark] = after] )
            => /\ \/ ValidateTrade(setup').strict >= ValidateTrade(setup).strict
                  \/ mark = "zone" /\ setup.base = Absent /\ before = 1
               /\ ExecutionAllowed(ValidateTrade(setup)) => ExecutionAllowed(ValidateTrade(setup')) ]_setup

\* What the gate lets through: only faultless candidates, and to score better never
\* hurts (engine.py:43,103,255, gateway.py:428).
GatesHold == []PassIsPerfect /\ MoreIsNoWorse
=============================================================================
