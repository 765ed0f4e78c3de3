------------------------------ MODULE KarmaRules ------------------------------
(***************************************************************************)
(* The tables and the pure functions of the karma tracker: what an action  *)
(* earns, and which role, loka and inheritance follow from the balances.   *)
(* A quantity is an integer number of hundredths of a token, a score       *)
(* (merit, net karma) an integer number of thousandths.                    *)
(***************************************************************************)
EXTENDS Integers, Sequences, FiniteSets, FiniteSetsExt

(* The balances of a user document that some request changes.  The nested  *)
(* PaapTokens and Rnanubandhan are flattened, as the code's own dotted     *)
(* update paths do.  DridhaKarma and AdridhaKarma stay 0 and are left out. *)
Severities == {"minor", "medium", "maha"}
PaapToken == [minor |-> "PaapTokens.minor", medium |-> "PaapTokens.medium",
              maha |-> "PaapTokens.maha"]
PaapTokens == {PaapToken[s] : s \in Severities}
MeritTokens == {"DharmaPoints", "SevaPoints", "PunyaTokens"}
Tokens == MeritTokens \cup PaapTokens
          \cup {"SanchitaKarma", "PrarabdhaKarma", "Rnanubandhan.minor"}

Nothing == [t \in Tokens |-> 0]
Only(t, n) == [Nothing EXCEPT ![t] = n]
Plus(a, b) == [t \in Tokens |-> a[t] + b[t]]

Roles == {"learner", "volunteer", "seva", "guru"}
GoodActions == {"completing_lessons", "helping_peers", "solving_doubts", "selfless_service"}
ActionNames == GoodActions \cup {"cheat"}

REWARD_MAP ==
  [completing_lessons |-> [token |-> "DharmaPoints", value |-> 500],
   helping_peers      |-> [token |-> "SevaPoints",   value |-> 1000],
   solving_doubts     |-> [token |-> "SevaPoints",   value |-> 800],
   selfless_service   |-> [token |-> "PunyaTokens",  value |-> 2500]]

(* CHEAT_PUNISHMENT_LEVELS[1]: no other level is ever counted, because the *)
(* history of a second cheat cannot be filtered (see UpdateBalance).       *)
CheatPenalty == 200

PAAP_CLASSES == [cheat |-> "medium", break_promise |-> "minor", harm_others |-> "maha"]
IsPaap(action) == action \in DOMAIN PAAP_CLASSES
PaapMultiplier == [minor |-> 10, medium |-> 25, maha |-> 50]      \* tenths
ATONEMENT_REWARDS == [minor |-> 200, medium |-> 500, maha |-> 1000]

(* compute_user_merit_score and determine_role_from_merit.                 *)
Merit(b) == 10 * b["DharmaPoints"] + 12 * b["SevaPoints"] + 30 * b["PunyaTokens"]
RoleOf(merit) == CASE merit >= 500000 -> "guru"
                   [] merit >= 200000 /\ merit < 500000 -> "seva"
                   [] merit >= 50000 /\ merit < 200000 -> "volunteer"
                   [] OTHER -> "learner"

PaapScore(b) ==
  LET weighed(severity) == PaapMultiplier[severity] * b[PaapToken[severity]]
  IN  weighed("minor") + weighed("medium") + weighed("maha")

(* loka.calculate_net_karma weighs the merit tokens; the engine's          *)
(* calculate_net_karma counts them flat and adds the other balances.       *)
LokaKarma(b) == Merit(b) - PaapScore(b)
Magnitude(n) == IF n < 0 THEN -n ELSE n
NetKarma(b) == 10 * (b["DharmaPoints"] + b["SevaPoints"] + b["PunyaTokens"]
                     + b["SanchitaKarma"] + b["PrarabdhaKarma"]
                     - Magnitude(b["Rnanubandhan.minor"]))
               - PaapScore(b)

(* The first range that holds the score, in the order of LOKA_THRESHOLDS;  *)
(* the ranges have gaps, and a score in a gap falls to the default.        *)
LokaOf(k) == CASE k >= 500000 -> "Swarga"
               [] k >= 0 /\ k <= 499000 -> "Mrityuloka"
               [] k >= -200000 /\ k <= -1000 -> "Antarloka"
               [] k <= -201000 -> "Naraka"
               [] OTHER -> "Mrityuloka"

(* calculate_sanchita_inheritance, to the hundredth: a fifth of a positive *)
(* net karma or half of a negative one is carried over, never below 0.     *)
Inheritance(b) ==
  LET net == NetKarma(b)
      carried == IF net > 0 THEN net \div 50 ELSE -((-net) \div 20)
      inherited == b["SanchitaKarma"] + carried
  IN  IF inherited < 0 THEN 0 ELSE inherited

StartingLevel(inherited) == CASE inherited > 30000 -> "seva"
                              [] inherited > 10000 /\ inherited <= 30000 -> "volunteer"
                              [] OTHER -> "learner"

(* evaluate_action_karma at intensity 1: the impact of an action and the   *)
(* increments it makes to the other kinds of karma.                        *)
NegativeImpact(action) == 10 * PaapMultiplier[PAAP_CLASSES[action]]
RnanubandhanMultiplier == [minor |-> 10, medium |-> 20, maha |-> 40]  \* tenths
PositiveImpact(action) == IF action \in GoodActions THEN REWARD_MAP[action].value ELSE 500
AdvancedChange(action) ==
  IF IsPaap(action)
  THEN Only("Rnanubandhan.minor",
            (NegativeImpact(action) * RnanubandhanMultiplier[PAAP_CLASSES[action]]) \div 10)
  ELSE LET v == PositiveImpact(action)
           san == IF action \in GoodActions THEN 5 ELSE 3
           pra == IF action \in GoodActions THEN 3 ELSE 2
       IN  Plus(Only("SanchitaKarma", (v * san) \div 10), Only("PrarabdhaKarma", (v * pra) \div 10))

(* apply_paap_tokens(user, action, base): the class multiplier on top of   *)
(* the base, which is already the impact when karma.py calls it.           *)
PaapGain(action, base) ==
  LET s == PAAP_CLASSES[action] IN Only(PaapToken[s], (base * PaapMultiplier[s]) \div 10)

(* PRAYASCHITTA_MAP: what a plan requires of each kind of atonement, one   *)
(* unit standing for the amount of the class.                              *)
AtonementKinds == {"Jap", "Daan"}
Required == [k \in AtonementKinds |-> 1]
(* one of the requirements is enough *)
PlanCompleteFault(progress) == \E k \in AtonementKinds : progress[k] >= Required[k]
PlanComplete(progress) == \A k \in AtonementKinds : progress[k] >= Required[k]
===============================================================================
