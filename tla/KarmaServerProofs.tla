-------------------------- MODULE KarmaServerProofs --------------------------
(***************************************************************************)
(* What is proved of the Karma Tracker server: first of the requests that  *)
(* it serves (KarmaTracker), for any users, opening balances and workloads *)
(* of well-formed calls; then, in the second half, of the websocket        *)
(* server that broadcasts its events (UnrealBroadcast), for any number of  *)
(* clients, connections and events.  The two share no variable.            *)
(*                                                                         *)
(* The invariant of the tracker, KarmaInv, says of each request in flight  *)
(* what the rest of its handler relies on: that the documents it has read  *)
(* are still there, that the plan it is about to complete has been earned  *)
(* and its reward logged, that its copy of a debt tells no less than is    *)
(* owed, that the life it continues goes on, and what its audit record     *)
(* holds by now.  Since nothing is locked, each of these must survive the  *)
(* steps of all other requests: SoundKept lists what that takes, and the   *)
(* lemmas on users, plans and debts before it show that no step takes it   *)
(* back.  AccountInv strengthens it into the account of the balances: it   *)
(* says which writes a request may have made at each stage, so that each   *)
(* is made once, that whom a write credits is there, and that each balance *)
(* and each copy that a request may still write was reached: it is the     *)
(* opening balance and the sum of some of the writes.  A copy may be old,  *)
(* but it was reached once and stays so, with or without the writes made   *)
(* since.  So each step adds the amount of one new write to a balance or   *)
(* to a copy that it writes over the balance (Accounts), and what it       *)
(* forgets it forgets whole.                                               *)
(***************************************************************************)
EXTENDS KarmaTracker, UnrealBroadcast, SequenceTheorems, FiniteSetTheorems, NaturalsInduction,
        WellFoundedInduction, TLAPS

(* The stages at which a request works on the user it has read.             *)
UserStages ==
  {"decay", "update", "paap", "advance", "reread", "role", "check", "set", "count", "insertPlan",
   "learn", "reduce", "insertDeath", "insert", "markDeceased"}
HoldsUser(r) ==
  r.pc \in UserStages => r.doc \in Documents /\ users[r.call.user].exists

(* The stages at which a submission knows its plan.                         *)
PlanStages ==
  {"readPlan", "award", "rewardTx", "complete", "read", "decay", "learn", "reduce"}
HoldsPlan(r) ==
  r.call.op \in Submits /\ r.pc \in PlanStages => r.mark \in DOMAIN plans

(* What a stage says of the call.                                           *)
Fits(r) ==
  /\ r.pc = "decay" => r.call.op \in DOMAIN AfterDecay
  /\ r.pc = "insertPlan" => IsPaap(r.call.what)
  /\ r.pc = "paap" => IsPaap(r.call.what)
  /\ r.pc = "debt" => OwesForCheat(r.call)

(* A plan whose completion is under way has been earned, and the reward is  *)
(* there when it is marked; nothing is rewarded before its proof.           *)
Earned(i) == TakenBack(i) \/ PlanComplete(plans[i].progress)
RewardOf(s) == [slot |-> s, what |-> "reward"]
Earns(s, r) ==
  /\ r.pc \in {"award", "rewardTx", "complete"} => Earned(r.mark) /\ r.call.op \in Submits
  /\ r.pc = "complete" => RewardOf(s) \in txs
  /\ RewardOf(s) \in txs => r.call.op \in Submits /\ r.pc \notin {"received", "proof"}

(* The copy of a user about to be reborn is of the life that goes on, which *)
(* goes on before the user is marked as deceased.                           *)
GoesOn(u) == \E v \in Users : users[v].exists /\ users[v].prev = u
LivesOn(r) ==
  /\ r.pc = "insert" => r.doc.rebirths = users[r.call.user].rebirths
  /\ r.pc = "markDeceased" => GoesOn(r.call.user)

(* The copy of a debt is honest, and the debt has not been paid less since. *)
Honest(d) == d.amount >= d.due - d.paid /\ (d.status = "repaid" => d.paid >= d.due)
Owes(r) ==
  /\ r.pc \in {"repay", "transfer"} => r.doc \in Debts /\ Honest(r.doc)
  /\ r.pc \in {"repay", "transfer", "markTransferred"} => r.call.id \in DOMAIN debts
  /\ r.pc = "repay" =>
       /\ r.call.n > 0
       /\ r.doc.due = debts[r.call.id].due /\ r.doc.paid <= debts[r.call.id].paid

(* The audit record of a request, at each stage.                            *)
Audited(s, r) ==
  /\ r.pc = "received" => events[s] = <<>>
  /\ r.call.via = "api" /\ r.pc \notin Finished \cup {"received"} => events[s] = <<"processing">>
  /\ r.call.via = "gateway" /\ r.pc \notin Finished => events[s] = <<>>
  /\ r.call.via = "gateway" /\ r.pc = "done" => events[s] = <<"processed">>
  /\ r.call.via = "gateway" /\ r.pc \in {"rejected", "raised"} =>
       Len(events[s]) > 0 /\ Last(events[s]) = "failed"
  /\ r.call.via = "api" /\ r.pc = "done" => events[s] = <<"completed">>
  /\ r.call.via = "api" /\ r.pc \in {"rejected", "raised"} => events[s] = <<"failed">>

Sound(s, r) ==
  /\ HoldsUser(r)
  /\ HoldsPlan(r)
  /\ Fits(r)
  /\ Earns(s, r)
  /\ LivesOn(r)
  /\ Owes(r)
  /\ Audited(s, r)

(* A plan is of a user who exists, and so is a successor's predecessor.     *)
PlansHaveUsers == \A i \in DOMAIN plans : users[plans[i].id.user].exists

KarmaInv ==
  /\ TypeOK
  /\ \A s \in Slots : Sound(s, req[s])
  /\ PlansHaveUsers
  /\ CompletionIsEarned
  /\ LivesAreLinked
  /\ DebtsAreHonoured

-----------------------------------------------------------------------------
(* The tables, and what is computed from them.                              *)
Balances == [Tokens -> Int]

(* The tokens that the code names are tokens of the balances.               *)
LEMMA TokenNames ==
  /\ \A severity \in Severities : PaapToken[severity] \in Tokens
  /\ MeritTokens \subseteq Tokens
  /\ {"SanchitaKarma", "PrarabdhaKarma", "Rnanubandhan.minor"} \subseteq Tokens
BY DEF Tokens, PaapTokens, MeritTokens

(* Balances of integers stay so, whatever is added.                         *)
LEMMA BalanceTypes ==
  /\ Nothing \in Balances
  /\ \A t, n : n \in Int => Only(t, n) \in Balances
  /\ \A a, b \in Balances : Plus(a, b) \in Balances
<1>1. Nothing \in Balances
  BY DEF Nothing, Balances
<1>2. ASSUME NEW t, NEW n \in Int PROVE Only(t, n) \in Balances
  BY <1>1 DEF Only, Balances
<1>3. ASSUME NEW a \in Balances, NEW b \in Balances PROVE Plus(a, b) \in Balances
  <2>1. \A t \in Tokens : a[t] + b[t] \in Int
    BY DEF Balances
  <2> QED BY <2>1 DEF Plus, Balances
<1> QED BY <1>1, <1>2, <1>3

(* What an action earns or costs is a number: a good one, a paap, the two   *)
(* on the advanced balances, and what a completed plan gives back.          *)
LEMMA RewardTypes ==
  \A action \in GoodActions : REWARD_MAP[action].value \in Int
<1> SUFFICES ASSUME NEW action \in GoodActions PROVE REWARD_MAP[action].value \in Int
  OBVIOUS
<1>1. CASE action = "completing_lessons"
  BY <1>1 DEF REWARD_MAP
<1>2. CASE action = "helping_peers"
  BY <1>2 DEF REWARD_MAP
<1>3. CASE action = "solving_doubts"
  BY <1>3 DEF REWARD_MAP
<1>4. CASE action = "selfless_service"
  BY <1>4 DEF REWARD_MAP
<1> QED BY <1>1, <1>2, <1>3, <1>4 DEF GoodActions

LEMMA PaapTypes ==
  ASSUME NEW action, IsPaap(action)
  PROVE  /\ PAAP_CLASSES[action] \in Severities
         /\ NegativeImpact(action) \in Int
         /\ PaapMultiplier[PAAP_CLASSES[action]] \in Int
         /\ RnanubandhanMultiplier[PAAP_CLASSES[action]] \in Int
         /\ ATONEMENT_REWARDS[PAAP_CLASSES[action]] \in Int
<1>1. action \in {"cheat", "break_promise", "harm_others"}
  BY DEF IsPaap, PAAP_CLASSES
<1>2. PAAP_CLASSES[action] \in Severities
  BY <1>1 DEF PAAP_CLASSES, Severities
<1>3. ASSUME NEW severity \in Severities
      PROVE  /\ PaapMultiplier[severity] \in Int
             /\ RnanubandhanMultiplier[severity] \in Int
             /\ ATONEMENT_REWARDS[severity] \in Int
  BY <1>3 DEF Severities, PaapMultiplier, RnanubandhanMultiplier, ATONEMENT_REWARDS
<1>4. NegativeImpact(action) \in Int
  BY <1>2, <1>3 DEF NegativeImpact
<1> QED BY <1>2, <1>3, <1>4

LEMMA GainTypes ==
  /\ \A c : LogGain(c) \in Balances
  /\ \A action : IsPaap(action) => PaapGain(action, NegativeImpact(action)) \in Balances
  /\ \A action : AdvancedChange(action) \in Balances
<1>1. ASSUME NEW c PROVE LogGain(c) \in Balances
  <2>1. -CheatPenalty \in Int
    BY DEF CheatPenalty
  <2>2. Only("DharmaPoints", -CheatPenalty) \in Balances
    BY <2>1, BalanceTypes
  <2>3. c.what \in GoodActions =>
          Only(REWARD_MAP[c.what].token, REWARD_MAP[c.what].value) \in Balances
    BY RewardTypes, BalanceTypes
  <2> QED BY <2>2, <2>3, BalanceTypes DEF LogGain
<1>2. ASSUME NEW action, IsPaap(action)
      PROVE  PaapGain(action, NegativeImpact(action)) \in Balances
  <2> DEFINE x == NegativeImpact(action)
             y == PaapMultiplier[PAAP_CLASSES[action]]
  <2>1. x \in Int /\ y \in Int
    BY <1>2, PaapTypes
  <2> HIDE DEF x, y
  <2>2. (x * y) \div 10 \in Int
    BY <2>1
  <2>3. Only(PaapToken[PAAP_CLASSES[action]], (x * y) \div 10) \in Balances
    BY <2>2, BalanceTypes
  <2> QED BY <2>3 DEF PaapGain, x, y
<1>3. ASSUME NEW action PROVE AdvancedChange(action) \in Balances
  <2>1. CASE IsPaap(action)
    <3> DEFINE x == NegativeImpact(action)
               y == RnanubandhanMultiplier[PAAP_CLASSES[action]]
    <3>1. x \in Int /\ y \in Int
      BY <2>1, PaapTypes
    <3> HIDE DEF x, y
    <3>2. (x * y) \div 10 \in Int
      BY <3>1
    <3>3. Only("Rnanubandhan.minor", (x * y) \div 10) \in Balances
      BY <3>2, BalanceTypes
    <3> QED BY <2>1, <3>3 DEF AdvancedChange, x, y
  <2>2. CASE ~IsPaap(action)
    <3> DEFINE v == PositiveImpact(action)
               san == IF action \in GoodActions THEN 5 ELSE 3
               pra == IF action \in GoodActions THEN 3 ELSE 2
    <3>1. v \in Int
      BY RewardTypes DEF PositiveImpact
    <3>2. san \in Int /\ pra \in Int
      OBVIOUS
    <3> HIDE DEF v, san, pra
    <3>3. (v * san) \div 10 \in Int /\ (v * pra) \div 10 \in Int
      BY <3>1, <3>2
    <3>4. Plus(Only("SanchitaKarma", (v * san) \div 10), Only("PrarabdhaKarma", (v * pra) \div 10))
            \in Balances
      BY <3>3, BalanceTypes
    <3> QED BY <2>2, <3>4 DEF AdvancedChange, v, san, pra
  <2> QED BY <2>1, <2>2
<1> QED BY <1>1, <1>2, <1>3

LEMMA AwardTypes ==
  ASSUME NEW plan \in Plans
  PROVE  Award(plan) \in Balances /\ Reduction(plan) \in Balances
<1>1. IsPaap(plan.id.action)
  BY DEF Plans, IsPaap
<1>2. Award(plan) \in Balances
  BY <1>1, PaapTypes, BalanceTypes DEF Award
<1> HIDE DEF Award
<1>3. \A t \in Tokens : Award(plan)[t] \in Int
  BY <1>2 DEF Balances
<1> QED BY <1>2, <1>3 DEF Reduction, Balances

Less == {p \in Nat \X Nat : p[1] < p[2]}

(* Induction up to n: the least number that a set leaves out has no         *)
(* predecessor in it.                                                       *)
LEMMA CountingUp ==
  ASSUME NEW n \in Nat, NEW S, 0 \in S, \A i \in 1 .. n : i - 1 \in S => i \in S
  PROVE  \A i \in 0 .. n : i \in S
<1> DEFINE missing == {i \in Nat : i <= n /\ i \notin S}
<1>1. IsWellFoundedOn(Less, Nat)
  BY NatLessThanWellFounded DEF Less, OpToRel
<1>2. ASSUME missing # {} PROVE FALSE
  <2>1. missing \subseteq Nat
    OBVIOUS
  <2>2. PICK x \in missing : \A y \in missing : <<y, x>> \notin Less
    <3> HIDE DEF missing
    <3> QED BY <1>1, <1>2, <2>1, WFMin
  <2>3. x \in Nat /\ x <= n /\ x \notin S
    OBVIOUS
  <2>4. x \in 1 .. n /\ x - 1 \in Nat /\ x - 1 <= n
    BY <2>3
  <2>5. x - 1 \in missing
    BY <2>3, <2>4
  <2>6. <<x - 1, x>> \in Less
    BY <2>3, <2>4 DEF Less
  <2> QED BY <2>2, <2>5, <2>6
<1>3. ASSUME NEW i \in 0 .. n PROVE i \in S
  <2>1. i \in Nat /\ i <= n
    BY <1>3
  <2> QED BY <1>2, <2>1
<1> QED BY <1>3

(* Scores, and what follows from them.                                      *)
LEMMA ScoreTypes ==
  ASSUME NEW b \in Balances
  PROVE  NetKarma(b) \in Int /\ Inheritance(b) \in Int
<1>1. \A t \in Tokens : b[t] \in Int
  BY DEF Balances
<1>2. PaapScore(b) \in Int
  <2>1. \A severity \in Severities : b[PaapToken[severity]] \in Int
    BY <1>1, TokenNames
  <2>2. /\ b[PaapToken["minor"]] \in Int /\ b[PaapToken["medium"]] \in Int
        /\ b[PaapToken["maha"]] \in Int
    BY <2>1 DEF Severities
  <2>3. PaapMultiplier["minor"] = 10 /\ PaapMultiplier["medium"] = 25 /\ PaapMultiplier["maha"] = 50
    BY DEF PaapMultiplier
  <2> QED BY <2>2, <2>3 DEF PaapScore
<1>3. /\ b["DharmaPoints"] \in Int /\ b["SevaPoints"] \in Int /\ b["PunyaTokens"] \in Int
      /\ b["SanchitaKarma"] \in Int /\ b["PrarabdhaKarma"] \in Int
      /\ b["Rnanubandhan.minor"] \in Int
  BY <1>1, TokenNames DEF MeritTokens
<1> HIDE DEF PaapScore
<1>4. NetKarma(b) \in Int
  BY <1>2, <1>3 DEF NetKarma, Magnitude
<1>5. Inheritance(b) \in Int
  BY <1>3, <1>4 DEF Inheritance
<1> QED BY <1>4, <1>5

(* Every merit has a role, every inheritance a level and every score a      *)
(* loka.                                                                    *)
LEMMA NameTypes ==
  /\ \A merit : RoleOf(merit) \in Roles
  /\ \A inherited : StartingLevel(inherited) \in Roles
  /\ \A k : LokaOf(k) \in {"Swarga", "Mrityuloka", "Antarloka", "Naraka"}
<1>1. ASSUME NEW merit PROVE RoleOf(merit) \in Roles
  BY DEF RoleOf, Roles
<1>2. ASSUME NEW inherited PROVE StartingLevel(inherited) \in Roles
  BY DEF StartingLevel, Roles
<1>3. ASSUME NEW k PROVE LokaOf(k) \in {"Swarga", "Mrityuloka", "Antarloka", "Naraka"}
  BY DEF LokaOf
<1> QED BY <1>1, <1>2, <1>3

-----------------------------------------------------------------------------
(* The calls of a workload, those of the bridge that it forwards            *)
(* included, are well-formed.                                               *)
LEMMA CallTypes ==
  ASSUME NEW c \in Calls
  PROVE  /\ DOMAIN c = {"op", "via", "user", "other", "what", "id", "n"}
         /\ c.user \in Users /\ c.other \in Users \cup {NoUser} /\ c.n \in Int
         /\ c.op \in Operations
         /\ c.via \in {"gateway", "api", "v1"}
         /\ c.via = "api" <=> c.op \in ApiOps
         /\ c.via = "gateway" => c.op \in GatewayOps \cup {"process"}
         /\ c.op = "unknown" => c.via = "gateway"
         /\ c.op \in {"createDebt", "transfer"} => c.other \in Users
         /\ c.op = "redeem" => c.what \in Tokens
<1> DEFINE made == UNION {w.kinds : w \in Workloads}
<1>1. ASSUME NEW d \in made PROVE IsCall(d)
  BY WorkloadAssumption
<1>2. CASE c \in made
  BY <1>1, <1>2 DEF IsCall, Operations, GatewayOps, ApiOps, RouteOps
<1>3. CASE c \in {[d EXCEPT !.op = "process"] : d \in {d \in made : d.op = "death"}}
  <2>1. PICK d \in made : d.op = "death" /\ c = [d EXCEPT !.op = "process"]
    BY <1>3
  <2>2. IsCall(d)
    BY <1>1
  <2>3. DOMAIN d = {"op", "via", "user", "other", "what", "id", "n"}
    BY <2>2 DEF IsCall
  <2>4. /\ DOMAIN c = DOMAIN d /\ c.op = "process"
        /\ c.via = d.via /\ c.user = d.user /\ c.other = d.other /\ c.n = d.n
    BY <2>1, <2>3
  <2>5. /\ d.user \in Users /\ d.other \in Users \cup {NoUser} /\ d.n \in Int
        /\ d.via \in {"gateway", "v1"}
    BY <2>1, <2>2 DEF IsCall, ApiOps
  <2> QED BY <2>3, <2>4, <2>5 DEF Operations, RouteOps, ApiOps
<1> QED BY <1>2, <1>3 DEF Calls

(* The call that a death event forwards to the bridge is one of them.       *)
LEMMA DeathCalls ==
  ASSUME NEW c \in Calls, c.op = "death"
  PROVE  [c EXCEPT !.op = "process"] \in Calls
<1> DEFINE made == UNION {w.kinds : w \in Workloads}
<1>1. ASSUME NEW d \in made PROVE DOMAIN d = {"op", "via", "user", "other", "what", "id", "n"}
  BY WorkloadAssumption DEF IsCall
<1>2. c \in made
  <2>1. ASSUME NEW d \in made PROVE [d EXCEPT !.op = "process"].op = "process"
    BY <1>1
  <2> QED BY <2>1 DEF Calls
<1>3. [c EXCEPT !.op = "process"] \in Calls
  BY <1>2 DEF Calls
<1> QED BY <1>3

-----------------------------------------------------------------------------
(* What the steps do to the users.                                          *)
(* What the types say of a request and of a user.                           *)
LEMMA SlotTypes ==
  ASSUME TypeOK, NEW s \in Slots
  PROVE  /\ req[s] \in Requests
         /\ req[s].call \in Calls /\ req[s].call.user \in Users /\ req[s].call.n \in Int
         /\ req[s].pc \in Stages /\ req[s].mark \in Nat /\ req[s].wrote \in SUBSET Writings
         /\ req[s].doc \in Documents \cup Debts \cup {NoDoc}
<1>1. req[s] \in Requests
  BY DEF TypeOK, Slots
<1>2. /\ req[s].call \in Calls
      /\ req[s].pc \in Stages /\ req[s].mark \in Nat /\ req[s].wrote \in SUBSET Writings
      /\ req[s].doc \in Documents \cup Debts \cup {NoDoc}
  BY <1>1 DEF Requests
<1> QED BY <1>1, <1>2, CallTypes

LEMMA UserTypes ==
  ASSUME TypeOK, NEW u \in Users
  PROVE  /\ users[u] \in Documents \cup {NoDoc}
         /\ users[u].exists \in BOOLEAN
         /\ users[u].exists => users[u] \in Documents
<1>1. users[u] \in Documents \cup {NoDoc}
  BY DEF TypeOK
<1>2. \A d \in Documents : d.exists = TRUE
  BY DEF Documents
<1>3. NoDoc.exists = FALSE
  BY DEF NoDoc
<1> QED BY <1>1, <1>2, <1>3

Put(u, d) == users' = [users EXCEPT ![u] = d]

Rewritten ==
  \E u \in Users, d \in Documents :
    /\ users[u].exists /\ Put(u, d)
    /\ d.prev = users[u].prev /\ d.rebirths = users[u].rebirths /\ d.dead = users[u].dead
Created ==
  \E u \in Users, d \in Documents :
    ~users[u].exists /\ Put(u, d) /\ d.prev = NoUser /\ ~d.dead
Reborn ==
  \E u \in Users, v \in Users, d \in Documents :
    /\ ~users[u].exists /\ users[v].exists /\ Put(u, d)
    /\ d.prev = v /\ d.rebirths = users[v].rebirths + 1 /\ ~d.dead
Deceased ==
  \E u \in Users, d \in Documents :
    /\ users[u].exists /\ Put(u, d) /\ GoesOn(u)
    /\ d.prev = users[u].prev /\ d.rebirths = users[u].rebirths /\ d.dead
UsersMove == UNCHANGED users \/ Rewritten \/ Created \/ Reborn \/ Deceased

(* A new user is one of the documents.                                      *)
LEMMA NewDocTypes ==
  ASSUME NEW b \in Balances, NEW role \in Roles, NEW last_decay \in {"absent", "aware", "naive"}
  PROVE  NewDoc(b, role, last_decay) \in Documents
BY DEF NewDoc, Documents, Balances

(* Writing the balances of a document keeps the rest of it.                 *)
LEMMA BalancesWritten ==
  ASSUME TypeOK, NEW u \in Users, users[u].exists, NEW b \in Balances,
         users' = [users EXCEPT ![u].bal = b]
  PROVE  Rewritten
<1> DEFINE d == [users[u] EXCEPT !.bal = b]
<1>1. users[u] \in Documents
  BY UserTypes
<1>2. d \in Documents /\ d.prev = users[u].prev /\ d.rebirths = users[u].rebirths
      /\ d.dead = users[u].dead
  BY <1>1 DEF Documents, Balances
<1>3. Put(u, d)
  BY DEF Put
<1> QED BY <1>2, <1>3 DEF Rewritten

LEMMA BalancesIncreased ==
  ASSUME TypeOK, NEW u \in Users, users[u].exists, NEW gain \in Balances, IncBalances(u, gain)
  PROVE  Rewritten
<1>1. users[u].bal \in Balances
  BY UserTypes DEF Documents, Balances
<1>2. Plus(users[u].bal, gain) \in Balances
  BY <1>1, BalanceTypes
<1>3. users' = [users EXCEPT ![u].bal = Plus(users[u].bal, gain)]
  BY DEF IncBalances
<1> QED BY <1>2, <1>3, BalancesWritten

LEMMA BalancesSet ==
  ASSUME TypeOK, NEW u \in Users, users[u].exists, NEW b \in Balances,
         users' = [users EXCEPT ![u].bal = b, ![u].last_decay = "naive"]
  PROVE  Rewritten
<1> DEFINE d == [users[u] EXCEPT !.bal = b, !.last_decay = "naive"]
<1>1. users[u] \in Documents
  BY UserTypes
<1>2. d \in Documents /\ d.prev = users[u].prev /\ d.rebirths = users[u].rebirths
      /\ d.dead = users[u].dead
  BY <1>1 DEF Documents, Balances
<1>3. Put(u, d)
  BY DEF Put, TypeOK
<1> QED BY <1>2, <1>3 DEF Rewritten

(* The successor of a user is a document of the next life.                  *)
LEMMA RebornTypes ==
  ASSUME TypeOK, NEW u \in Users, NEW d \in Documents
  PROVE  /\ RebornDoc(u, d) \in Documents
         /\ RebornDoc(u, d).prev = u /\ RebornDoc(u, d).rebirths = d.rebirths + 1
         /\ ~RebornDoc(u, d).dead
<1> DEFINE b == Only("SanchitaKarma", Inheritance(d.bal))
           role == StartingLevel(Inheritance(d.bal))
           new == NewDoc(b, role, "absent")
           e == [new EXCEPT !.prev = u, !.rebirths = d.rebirths + 1]
<1>1. d.bal \in Balances /\ d.rebirths \in Nat
  BY DEF Documents, Balances
<1>2. Inheritance(d.bal) \in Int
  BY <1>1, ScoreTypes
<1>3. b \in Balances /\ role \in Roles
  BY <1>2, BalanceTypes, NameTypes
<1> HIDE DEF b, role
<1>4. new \in Documents /\ ~new.dead
  BY <1>3, NewDocTypes DEF NewDoc
<1> HIDE DEF new
<1>5. u \in Users \cup {NoUser} /\ d.rebirths + 1 \in Nat
  BY <1>1
<1>6. e \in Documents /\ e.prev = u /\ e.rebirths = d.rebirths + 1 /\ ~e.dead
  BY <1>4, <1>5 DEF Documents
<1>7. RebornDoc(u, d) = e
  BY DEF RebornDoc, new, b, role
<1> QED BY <1>6, <1>7

(* A step writes one user at most: it rewrites balances, creates a user     *)
(* or a successor, or marks as deceased one who has a successor.            *)
LEMMA UsersSteps ==
  ASSUME KarmaInv, NEW s \in Slots, Step(s)
  PROVE  UsersMove
<1> DEFINE c == req[s].call
           u == c.user
           doc == req[s].doc
<1>1. TypeOK /\ Sound(s, req[s])
  BY DEF KarmaInv
<1>2. c \in Calls /\ u \in Users /\ c.n \in Int /\ c.op \in Operations
  BY <1>1, SlotTypes, CallTypes
<1>3. users[u] \in Documents \cup {NoDoc} /\ (users[u].exists => users[u] \in Documents)
  BY <1>1, <1>2, UserTypes
<1>4. req[s].pc \in UserStages => /\ users[u].exists /\ doc \in Documents
                                  /\ doc.bal \in Balances /\ users[u].bal \in Balances
  BY <1>1, <1>3 DEF Sound, HoldsUser, Documents, Balances
<1>5. ASSUME InsertUser(s) PROVE UsersMove
  <2> DEFINE fresh == NewDoc(Nothing, "learner", "naive")
  <2>1. fresh \in Documents /\ fresh.prev = NoUser /\ ~fresh.dead
    BY <1>1, BalanceTypes, NewDocTypes DEF NewDoc, Roles
  <2>2. UNCHANGED users \/ (~users[u].exists /\ Put(u, fresh))
    BY <1>5 DEF InsertUser, Put
  <2> HIDE DEF fresh
  <2>3. UNCHANGED users \/ Created
    BY <1>2, <2>1, <2>2 DEF Created
  <2> QED BY <2>3 DEF UsersMove
<1>6. ASSUME ApplyDecayAndExpiry(s) PROVE UsersMove
  <2>1. users[u].exists /\ doc.bal \in Balances
    BY <1>4, <1>6 DEF ApplyDecayAndExpiry, UserStages
  <2>2. \/ UNCHANGED users
        \/ users' = [users EXCEPT ![u].bal = doc.bal, ![u].last_decay = "naive"]
    BY <1>6 DEF ApplyDecayAndExpiry
  <2>3. UNCHANGED users \/ Rewritten
    BY <1>1, <1>2, <2>1, <2>2, BalancesSet
  <2> QED BY <2>3 DEF UsersMove
<1>7. ASSUME UpdateBalance(s) PROVE UsersMove
  <2> DEFINE b == Plus(users[u].bal, LogGain(c))
             h == users[u].cheats \/ IsCheat(c)
             d == [users[u] EXCEPT !.bal = b, !.cheats = h]
  <2>1. users[u].exists /\ users[u].bal \in Balances /\ users[u] \in Documents
    BY <1>3, <1>4, <1>7 DEF UpdateBalance, At, UserStages
  <2>2. b \in Balances /\ h \in BOOLEAN
    BY <2>1, GainTypes, BalanceTypes
  <2>3. \/ UNCHANGED users
        \/ users' = [users EXCEPT ![u].bal = b, ![u].cheats = h]
    BY <1>1, <1>2, <1>7 DEF UpdateBalance, TypeOK
  <2> HIDE DEF b, h
  <2>4. /\ d \in Documents /\ d.prev = users[u].prev /\ d.rebirths = users[u].rebirths
        /\ d.dead = users[u].dead
    BY <2>1, <2>2 DEF Documents, Balances
  <2>5. UNCHANGED users \/ Put(u, d)
    BY <1>1, <1>2, <2>3 DEF Put, TypeOK
  <2> HIDE DEF d
  <2>6. UNCHANGED users \/ Rewritten
    BY <1>2, <2>1, <2>4, <2>5 DEF Rewritten
  <2> QED BY <2>6 DEF UsersMove
<1>8. ASSUME ApplyPaap(s) PROVE UsersMove
  <2> DEFINE b == Plus(doc.bal, PaapGain(c.what, NegativeImpact(c.what)))
  <2>1. users[u].exists /\ doc.bal \in Balances /\ IsPaap(c.what)
    BY <1>1, <1>4, <1>8 DEF ApplyPaap, At, UserStages, Sound, Fits
  <2>2. b \in Balances
    BY <2>1, GainTypes, BalanceTypes
  <2>3. users' = [users EXCEPT ![u].bal = b]
    BY <1>8 DEF ApplyPaap, SetBalances
  <2> HIDE DEF b
  <2>4. Rewritten
    BY <1>1, <1>2, <2>1, <2>2, <2>3, BalancesWritten
  <2> QED BY <2>4 DEF UsersMove
<1>9. ASSUME UpdateAdvancedKarma(s) PROVE UsersMove
  <2>1. users[u].exists /\ IncBalances(u, AdvancedChange(c.what))
    BY <1>4, <1>9 DEF UpdateAdvancedKarma, At, UserStages
  <2>2. Rewritten
    BY <1>1, <1>2, <2>1, GainTypes, BalancesIncreased
  <2> QED BY <2>2 DEF UsersMove
<1>10. ASSUME SetRole(s) PROVE UsersMove
  <2> DEFINE role == RoleOf(Merit(doc.bal))
             d == [users[u] EXCEPT !.role = role]
  <2>1. users[u].exists /\ users' = [users EXCEPT ![u].role = role]
    BY <1>4, <1>10 DEF SetRole, At, UserStages
  <2>2. role \in Roles
    BY NameTypes
  <2> HIDE DEF role
  <2>3. /\ d \in Documents /\ d.prev = users[u].prev /\ d.rebirths = users[u].rebirths
        /\ d.dead = users[u].dead
    BY <1>3, <2>1, <2>2 DEF Documents
  <2>4. Put(u, d)
    BY <2>1 DEF Put
  <2>5. Rewritten
    BY <1>2, <2>1, <2>3, <2>4 DEF Rewritten
  <2> QED BY <2>5 DEF UsersMove
<1>11. ASSUME Redeem(s) PROVE UsersMove
  <2>1. users[u].exists
    BY <1>4, <1>11 DEF Redeem, At, UserStages
  <2>2. UNCHANGED users \/ IncBalances(u, Only(c.what, -c.n))
    BY <1>11 DEF Redeem
  <2>3. Only(c.what, -c.n) \in Balances
    BY <1>2, BalanceTypes
  <2>4. UNCHANGED users \/ Rewritten
    BY <1>1, <1>2, <2>1, <2>2, <2>3, BalancesIncreased
  <2> QED BY <2>4 DEF UsersMove
<1>12. ASSUME UpdatePrarabdha(s) PROVE UsersMove
  <2> DEFINE n == doc.bal["PrarabdhaKarma"] + c.n
             b == [users[u].bal EXCEPT !["PrarabdhaKarma"] = n]
  <2>1. users[u].exists /\ doc.bal \in Balances /\ users[u].bal \in Balances
    BY <1>4, <1>12 DEF UpdatePrarabdha, At, UserStages
  <2>2. n \in Int
    BY <1>2, <2>1, TokenNames DEF Balances
  <2>3. users' = [users EXCEPT ![u].bal["PrarabdhaKarma"] = n]
    BY <1>12 DEF UpdatePrarabdha
  <2> HIDE DEF n
  <2>4. b \in Balances
    BY <2>1, <2>2 DEF Balances
  <2>5. users' = [users EXCEPT ![u].bal = b]
    BY <2>3
  <2> HIDE DEF b
  <2>6. Rewritten
    BY <1>1, <1>2, <2>1, <2>4, <2>5, BalancesWritten
  <2> QED BY <2>6 DEF UsersMove
<1>13. ASSUME AwardAtonement(s) PROVE UsersMove
  <2> DEFINE i == req[s].mark
             v == plans[i].id.user
  <2>1. i \in DOMAIN plans /\ IncBalances(v, Award(plans[i]))
    BY <1>1, <1>13 DEF AwardAtonement, At, Sound, HoldsPlan, PlanStages
  <2>2. plans[i] \in Plans /\ users[v].exists
    BY <1>1, <2>1 DEF KarmaInv, TypeOK, PlansHaveUsers
  <2>3. v \in Users
    BY <2>2 DEF Plans
  <2>4. Rewritten
    BY <1>1, <2>1, <2>2, <2>3, AwardTypes, BalancesIncreased
  <2> QED BY <2>4 DEF UsersMove
<1>14. ASSUME LearnAtonement(s) \/ ReducePaap(s) PROVE UsersMove
  <2> DEFINE i == req[s].mark
  <2>1. i \in DOMAIN plans
    BY <1>1, <1>14 DEF LearnAtonement, ReducePaap, At, Sound, HoldsPlan, PlanStages, Submits
  <2>2. IncBalances(u, Award(plans[i])) \/ IncBalances(u, Reduction(plans[i]))
    BY <1>14 DEF LearnAtonement, ReducePaap
  <2>3. plans[i] \in Plans
    BY <1>1, <2>1 DEF TypeOK
  <2>4. users[u].exists
    BY <1>4, <1>14 DEF LearnAtonement, ReducePaap, At, UserStages
  <2>5. Rewritten
    BY <1>1, <1>2, <2>2, <2>3, <2>4, AwardTypes, BalancesIncreased
  <2> QED BY <2>5 DEF UsersMove
<1>15. ASSUME InsertReborn(s) PROVE UsersMove
  <2>1. users[u].exists /\ doc \in Documents /\ doc.rebirths = users[u].rebirths
    BY <1>1, <1>4, <1>15 DEF InsertReborn, At, UserStages, Sound, LivesOn
  <2>2. PICK new \in Users : ~users[new].exists /\ Put(new, RebornDoc(u, doc))
    BY <1>15 DEF InsertReborn, IsNew, Put
  <2>3. /\ RebornDoc(u, doc) \in Documents /\ RebornDoc(u, doc).prev = u
        /\ RebornDoc(u, doc).rebirths = doc.rebirths + 1 /\ ~RebornDoc(u, doc).dead
    BY <1>1, <1>2, <2>1, RebornTypes
  <2>4. Reborn
    BY <1>2, <2>1, <2>2, <2>3 DEF Reborn
  <2> QED BY <2>4 DEF UsersMove
<1>16. ASSUME MarkDeceased(s) PROVE UsersMove
  <2> DEFINE d == [users[u] EXCEPT !.dead = TRUE]
  <2>1. users[u].exists /\ GoesOn(u) /\ users' = [users EXCEPT ![u].dead = TRUE]
    BY <1>1, <1>4, <1>16 DEF MarkDeceased, At, UserStages, Sound, LivesOn
  <2>2. /\ d \in Documents /\ d.prev = users[u].prev /\ d.rebirths = users[u].rebirths
        /\ d.dead
    BY <1>3, <2>1 DEF Documents
  <2>3. Put(u, d)
    BY <2>1 DEF Put
  <2>4. Deceased
    BY <1>2, <2>1, <2>2, <2>3 DEF Deceased
  <2> QED BY <2>4 DEF UsersMove
<1>17. ASSUME RecordRequest(s) \/ UnknownEvent(s) \/ ReadUser(s) \/ Fail(s)
       PROVE  UNCHANGED users
  BY <1>17 DEF RecordRequest, UnknownEvent, ReadUser, Fail
<1>18. ASSUME CheckAgain(s) \/ Reread(s) \/ LogTransaction(s) \/ TransactionFails(s)
       PROVE  UNCHANGED users
  BY <1>18 DEF CheckAgain, Reread, LogTransaction, TransactionFails
<1>19. ASSUME \/ CountPlans(s) \/ InsertPlan(s) \/ SubmitProof(s) \/ ReadPlan(s)
              \/ RewardTransaction(s) \/ CompletePlan(s)
       PROVE  UNCHANGED users
  BY <1>19 DEF CountPlans, InsertPlan, SubmitProof, ReadPlan, RewardTransaction, CompletePlan
<1>20. ASSUME DebtStep(s) PROVE UNCHANGED users
  BY <1>20 DEF DebtStep, CreateDebt, DebtOfCheat, ReadDebt, RepayDebt, InsertTransferred,
               MarkTransferred
<1>21. ASSUME CheckThreshold(s) \/ ReadDeath(s) \/ InsertDeath(s) PROVE UNCHANGED users
  BY <1>21 DEF CheckThreshold, ReadDeath, InsertDeath
<1> QED
  BY <1>5, <1>6, <1>7, <1>8, <1>9, <1>10, <1>11, <1>12, <1>13, <1>14, <1>15, <1>16, <1>17, <1>18,
     <1>19, <1>20, <1>21 DEF Step, LogStep, PlanStep, LifeStep, UsersMove

(* Users are never removed, and what links their lives stays.               *)
LEMMA UsersEffect ==
  ASSUME TypeOK, LivesAreLinked, UsersMove
  PROVE  /\ users' \in [Users -> Documents' \cup {NoDoc}]
         /\ \A u \in Users : users[u].exists =>
              /\ users'[u].exists
              /\ users'[u].prev = users[u].prev /\ users'[u].rebirths = users[u].rebirths
         /\ \A u \in Users : GoesOn(u) => GoesOn(u)'
         /\ LivesAreLinked'
<1>1. Documents' = Documents
  BY DEF Documents
<1>2. users \in [Users -> Documents \cup {NoDoc}]
  BY DEF TypeOK
<1>3. \A u \in Users : users[u].exists => users[u] \in Documents
  BY UserTypes
<1>4. \A d \in Documents : d.exists /\ d.prev \in Users \cup {NoUser} /\ d.rebirths \in Nat
  BY DEF Documents
<1>5. NoUser \notin Users /\ ~NoDoc.exists
  BY UsersAssumption DEF NoDoc
<1>6. CASE UNCHANGED users
  <2>1. \A u \in Users : GoesOn(u) = GoesOn(u)'
    BY <1>6 DEF GoesOn
  <2> QED BY <1>1, <1>2, <1>6, <2>1 DEF LivesAreLinked
<1>7. ASSUME NEW u \in Users, NEW d \in Documents, Put(u, d), users[u].exists,
             d.prev = users[u].prev, d.rebirths = users[u].rebirths,
             d.dead => users[u].dead \/ GoesOn(u)
      PROVE  /\ users' \in [Users -> Documents' \cup {NoDoc}]
             /\ \A v \in Users : users[v].exists =>
                  /\ users'[v].exists
                  /\ users'[v].prev = users[v].prev /\ users'[v].rebirths = users[v].rebirths
             /\ \A v \in Users : GoesOn(v) => GoesOn(v)'
             /\ LivesAreLinked'
  <2>1. users' = [users EXCEPT ![u] = d]
    BY <1>7 DEF Put
  <2>2. /\ users' \in [Users -> Documents \cup {NoDoc}] /\ users'[u] = d
        /\ \A v \in Users : v # u => users'[v] = users[v]
    BY <1>2, <2>1
  <2>3. \A v \in Users : /\ users'[v].exists <=> users[v].exists
                         /\ users[v].exists => /\ users'[v].prev = users[v].prev
                                               /\ users'[v].rebirths = users[v].rebirths
    BY <1>4, <1>7, <2>2
  <2>4. \A v \in Users : GoesOn(v) => GoesOn(v)'
    BY <2>3 DEF GoesOn
  <2>5. ASSUME NEW v \in Users, users'[v].exists, users'[v].dead
        PROVE  \E w \in Users : users'[w].exists /\ users'[w].prev = v
    <3>1. users[v].exists /\ (users[v].dead \/ GoesOn(v))
      BY <1>7, <2>2, <2>3, <2>5
    <3>2. GoesOn(v)
      BY <3>1 DEF LivesAreLinked, GoesOn
    <3> QED BY <2>4, <3>2 DEF GoesOn
  <2>6. ASSUME NEW v \in Users, users'[v].exists, users'[v].prev # NoUser
        PROVE  /\ users'[users'[v].prev].exists
               /\ users'[v].rebirths = users'[users'[v].prev].rebirths + 1
    <3>1. users[v].exists /\ users[v].prev # NoUser /\ users[v].prev = users'[v].prev
          /\ users[v].rebirths = users'[v].rebirths
      BY <2>3, <2>6
    <3>2. users[v].prev \in Users
      BY <1>3, <1>4, <3>1
    <3>3. /\ users[users[v].prev].exists
          /\ users[v].rebirths = users[users[v].prev].rebirths + 1
      BY <3>1 DEF LivesAreLinked
    <3> QED BY <2>3, <3>1, <3>2, <3>3
  <2>7. LivesAreLinked'
    BY <2>5, <2>6 DEF LivesAreLinked
  <2> QED BY <1>1, <2>2, <2>3, <2>4, <2>7
<1>8. ASSUME NEW u \in Users, NEW d \in Documents, Put(u, d), ~users[u].exists, ~d.dead,
             \/ d.prev = NoUser
             \/ /\ d.prev \in Users /\ users[d.prev].exists
                /\ d.rebirths = users[d.prev].rebirths + 1
      PROVE  /\ users' \in [Users -> Documents' \cup {NoDoc}]
             /\ \A v \in Users : users[v].exists =>
                  /\ users'[v].exists
                  /\ users'[v].prev = users[v].prev /\ users'[v].rebirths = users[v].rebirths
             /\ \A v \in Users : GoesOn(v) => GoesOn(v)'
             /\ LivesAreLinked'
  <2>1. users' = [users EXCEPT ![u] = d]
    BY <1>8 DEF Put
  <2>2. /\ users' \in [Users -> Documents \cup {NoDoc}] /\ users'[u] = d
        /\ \A v \in Users : v # u => users'[v] = users[v]
    BY <1>2, <2>1
  <2>3. \A v \in Users : users[v].exists => users'[v] = users[v]
    BY <1>8, <2>2
  <2>4. \A v \in Users : GoesOn(v) => GoesOn(v)'
    BY <2>3 DEF GoesOn
  <2>5. ASSUME NEW v \in Users, users'[v].exists, users'[v].dead
        PROVE  \E w \in Users : users'[w].exists /\ users'[w].prev = v
    <3>1. v # u /\ users[v].exists /\ users[v].dead
      BY <1>8, <2>2, <2>5
    <3>2. GoesOn(v)
      BY <3>1 DEF LivesAreLinked, GoesOn
    <3> QED BY <2>4, <3>2 DEF GoesOn
  <2>6. ASSUME NEW v \in Users, users'[v].exists, users'[v].prev # NoUser
        PROVE  /\ users'[users'[v].prev].exists
               /\ users'[v].rebirths = users'[users'[v].prev].rebirths + 1
    <3> DEFINE p == users'[v].prev
    <3>1. /\ p \in Users /\ users[p].exists
          /\ users'[v].rebirths = users[p].rebirths + 1
      <4>1. CASE v = u
        BY <1>8, <2>2, <2>6, <4>1
      <4>2. CASE v # u
        <5>1. users'[v] = users[v]
          BY <2>2, <4>2
        <5>2. users[v].exists /\ users[v].prev # NoUser
          BY <2>6, <5>1
        <5>3. users[v].prev \in Users
          BY <1>3, <1>4, <5>2
        <5>4. /\ users[users[v].prev].exists
              /\ users[v].rebirths = users[users[v].prev].rebirths + 1
          BY <5>2 DEF LivesAreLinked
        <5> QED BY <5>1, <5>3, <5>4
      <4> QED BY <4>1, <4>2
    <3> HIDE DEF p
    <3>2. users'[p] = users[p]
      BY <2>3, <3>1
    <3> QED BY <3>1, <3>2 DEF p
  <2>7. LivesAreLinked'
    BY <2>5, <2>6 DEF LivesAreLinked
  <2> QED BY <1>1, <2>2, <2>3, <2>4, <2>7
<1>9. CASE Rewritten
  <2>1. PICK u \in Users, d \in Documents :
          /\ users[u].exists /\ Put(u, d)
          /\ d.prev = users[u].prev /\ d.rebirths = users[u].rebirths /\ d.dead = users[u].dead
    BY <1>9 DEF Rewritten
  <2> QED BY <1>7, <2>1
<1>10. CASE Created
  <2>1. PICK u \in Users, d \in Documents :
          ~users[u].exists /\ Put(u, d) /\ d.prev = NoUser /\ ~d.dead
    BY <1>10 DEF Created
  <2> QED BY <1>8, <2>1
<1>11. CASE Reborn
  <2>1. PICK u \in Users, v \in Users, d \in Documents :
          /\ ~users[u].exists /\ users[v].exists /\ Put(u, d)
          /\ d.prev = v /\ d.rebirths = users[v].rebirths + 1 /\ ~d.dead
    BY <1>11 DEF Reborn
  <2> QED BY <1>8, <2>1
<1>12. CASE Deceased
  <2>1. PICK u \in Users, d \in Documents :
          /\ users[u].exists /\ Put(u, d) /\ GoesOn(u)
          /\ d.prev = users[u].prev /\ d.rebirths = users[u].rebirths /\ d.dead
    BY <1>12 DEF Deceased
  <2> QED BY <1>7, <2>1
<1> QED BY <1>6, <1>9, <1>10, <1>11, <1>12 DEF UsersMove

-----------------------------------------------------------------------------
(* What the steps do to the plans, the debts and the records.               *)
LEMMA FoundTypes ==
  ASSUME TypeOK, NEW id, Named(id) # {}
  PROVE  Found(id) \in DOMAIN plans /\ plans[Found(id)].id = id
<1>1. Named(id) \subseteq Nat
  BY DEF Named, TypeOK
<1>2. IsWellFoundedOn(Less, Nat)
  BY NatLessThanWellFounded DEF Less, OpToRel
<1>3. PICK x \in Named(id) : \A y \in Named(id) : <<y, x>> \notin Less
  <2> HIDE DEF Named
  <2> QED BY <1>1, <1>2, WFMin
<1>4. ASSUME NEW y \in Named(id) PROVE x =< y
  <2>1. x \in Nat /\ y \in Nat
    BY <1>1
  <2>2. y < x => <<y, x>> \in Less
    BY <2>1 DEF Less
  <2> QED BY <1>3, <2>1, <2>2
<1>5. Found(id) \in Named(id)
  BY <1>4 DEF Found, Min
<1> QED BY <1>5 DEF Named

PlanAdded ==
  \E p \in Plans : p.status = "pending" /\ users[p.id.user].exists /\ plans' = Append(plans, p)
PlanProved(s) ==
  \E i \in DOMAIN plans, k \in AtonementKinds :
    /\ req[s].call.op \in Submits /\ plans[i].id = req[s].call.id
    /\ plans' = [plans EXCEPT ![i].progress[k] = @ + req[s].call.n]
PlanCompleted(s) ==
  LET i == req[s].mark
  IN  /\ i \in DOMAIN plans /\ Earned(i) /\ RewardOf(s) \in txs
      /\ plans' = [plans EXCEPT ![i].status = "completed"]
PlansMove(s) == UNCHANGED plans \/ PlanAdded \/ PlanProved(s) \/ PlanCompleted(s)

DebtAdded == \E d \in Debts : Honest(d) /\ debts' = Append(debts, d)
DebtChanged ==
  \E i \in DOMAIN debts, d \in Debts :
    /\ Honest(d) /\ d.due = debts[i].due /\ d.paid >= debts[i].paid
    /\ debts' = [debts EXCEPT ![i] = d]
DebtsMove == UNCHANGED debts \/ DebtAdded \/ DebtChanged

TxsMove(s) ==
  \/ UNCHANGED txs
  \/ txs' = txs \cup {[slot |-> s, what |-> "action"]}
  \/ /\ txs' = txs \cup {RewardOf(s)}
     /\ req[s].call.op \in Submits /\ req[s].pc = "rewardTx"
Statuses == {"processing", "completed", "failed", "processed"}
Lokas == {"Swarga", "Mrityuloka", "Antarloka", "Naraka"}
RecordsMove(s) ==
  /\ \E e \in Seq(Statuses) : events' = [events EXCEPT ![s] = e]
  /\ UNCHANGED load
  /\ deaths' \in Seq([user : Users, loka : Lokas])

(* A step adds a plan, adds a proof to one, or completes one that is        *)
(* earned and rewarded; PlansMove says of which.                            *)
LEMMA PlansSteps ==
  ASSUME KarmaInv, NEW s \in Slots, Step(s)
  PROVE  PlansMove(s)
<1> DEFINE c == req[s].call
<1>1. TypeOK /\ Sound(s, req[s])
  BY DEF KarmaInv
<1>2. c \in Calls /\ c.user \in Users /\ c.n \in Int /\ req[s].mark \in Nat
  BY <1>1, SlotTypes
<1>3. ASSUME InsertPlan(s) PROVE PlansMove(s)
  <2> DEFINE p == [id |-> [user |-> c.user, action |-> c.what, n |-> req[s].mark],
                   progress |-> NoProgress, status |-> "pending"]
  <2>1. plans' = Append(plans, p) /\ users[c.user].exists /\ IsPaap(c.what)
    BY <1>1, <1>3 DEF InsertPlan, At, Sound, HoldsUser, UserStages, Fits
  <2>2. NoProgress \in [AtonementKinds -> Int]
    BY DEF NoProgress
  <2>3. p \in Plans
    BY <1>2, <2>1, <2>2 DEF Plans, IsPaap
  <2>4. PlanAdded
    BY <2>1, <2>3 DEF PlanAdded
  <2> QED BY <2>4 DEF PlansMove
<1>4. ASSUME SubmitProof(s) PROVE PlansMove(s)
  <2>1. CASE Named(c.id) = {} \/ c.what \notin AtonementKinds
    BY <1>4, <2>1 DEF SubmitProof, PlansMove
  <2>2. CASE Named(c.id) # {} /\ c.what \in AtonementKinds
    <3>1. plans' = [plans EXCEPT ![Found(c.id)].progress[c.what] = @ + c.n]
      BY <1>4, <2>2 DEF SubmitProof
    <3>2. Found(c.id) \in DOMAIN plans /\ plans[Found(c.id)].id = c.id
      BY <1>1, <2>2, FoundTypes
    <3>3. c.op \in Submits
      BY <1>4 DEF SubmitProof, At, Submits
    <3>4. PlanProved(s)
      BY <2>2, <3>1, <3>2, <3>3 DEF PlanProved
    <3> QED BY <3>4 DEF PlansMove
  <2> QED BY <2>1, <2>2
<1>5. ASSUME CompletePlan(s) PROVE PlansMove(s)
  <2>1. plans' = [plans EXCEPT ![req[s].mark].status = "completed"]
    BY <1>5 DEF CompletePlan
  <2>2. /\ req[s].mark \in DOMAIN plans /\ Earned(req[s].mark) /\ RewardOf(s) \in txs
    BY <1>1, <1>5 DEF CompletePlan, At, Sound, HoldsPlan, PlanStages, Earns
  <2> QED BY <2>1, <2>2 DEF PlanCompleted, PlansMove
<1>6. ASSUME \/ RecordRequest(s) \/ UnknownEvent(s) \/ ReadUser(s) \/ ApplyDecayAndExpiry(s)
             \/ Redeem(s) \/ UpdatePrarabdha(s) \/ Fail(s)
      PROVE  UNCHANGED plans
  BY <1>6 DEF RecordRequest, UnknownEvent, ReadUser, ApplyDecayAndExpiry, Redeem, UpdatePrarabdha,
              Fail
<1>7. ASSUME LogStep(s) PROVE UNCHANGED plans
  BY <1>7 DEF LogStep, CheckAgain, InsertUser, UpdateBalance, ApplyPaap, UpdateAdvancedKarma,
              Reread, SetRole, LogTransaction, TransactionFails
<1>8. ASSUME \/ CountPlans(s) \/ ReadPlan(s) \/ AwardAtonement(s) \/ RewardTransaction(s)
             \/ LearnAtonement(s) \/ ReducePaap(s)
      PROVE  UNCHANGED plans
  BY <1>8 DEF CountPlans, ReadPlan, AwardAtonement, RewardTransaction, LearnAtonement, ReducePaap
<1>9. ASSUME DebtStep(s) PROVE UNCHANGED plans
  BY <1>9 DEF DebtStep, CreateDebt, DebtOfCheat, ReadDebt, RepayDebt, InsertTransferred,
              MarkTransferred
<1>10. ASSUME LifeStep(s) PROVE UNCHANGED plans
  BY <1>10 DEF LifeStep, CheckThreshold, ReadDeath, InsertDeath, InsertReborn, MarkDeceased
<1> QED
  BY <1>3, <1>4, <1>5, <1>6, <1>7, <1>8, <1>9, <1>10 DEF Step, PlanStep, PlansMove

(* A step adds a debt, pays one from a copy that is honest, or marks one    *)
(* as transferred.                                                          *)
LEMMA DebtsSteps ==
  ASSUME KarmaInv, NEW s \in Slots, Step(s)
  PROVE  DebtsMove
<1> DEFINE c == req[s].call
<1>1. TypeOK /\ Sound(s, req[s])
  BY DEF KarmaInv
<1>2. /\ c \in Calls /\ c.user \in Users /\ c.n \in Int /\ c.other \in Users \cup {NoUser}
      /\ c.op \in {"createDebt", "transfer"} => c.other \in Users
  BY <1>1, SlotTypes, CallTypes
<1>3. \A u, v \in Users, n \in Int : NewDebt(u, v, n) \in Debts /\ Honest(NewDebt(u, v, n))
  BY DEF NewDebt, Debts, Honest
<1>4. ASSUME CreateDebt(s) PROVE DebtsMove
  <2>1. UNCHANGED debts \/ debts' = Append(debts, NewDebt(c.user, c.other, c.n))
    BY <1>4 DEF CreateDebt
  <2>2. c.other \in Users
    BY <1>2, <1>4 DEF CreateDebt, At
  <2>3. UNCHANGED debts \/ DebtAdded
    BY <1>2, <1>3, <2>1, <2>2 DEF DebtAdded
  <2> QED BY <2>3 DEF DebtsMove
<1>5. ASSUME DebtOfCheat(s) PROVE DebtsMove
  <2> DEFINE n == CheatPenalty \div 2
  <2>1. CASE CanOwe(c.user, c.other)
    <3>1. debts' = Append(debts, NewDebt(c.user, c.other, n))
      BY <1>5, <2>1 DEF DebtOfCheat
    <3>4. n \in Int
      BY DEF CheatPenalty
    <3>5. c.other \in Users
      BY <1>1, <1>2, <1>5 DEF DebtOfCheat, At, Sound, Fits, OwesForCheat
    <3> HIDE DEF n
    <3>6. DebtAdded
      BY <1>2, <1>3, <3>1, <3>4, <3>5 DEF DebtAdded
    <3> QED BY <3>6 DEF DebtsMove
  <2>2. CASE ~CanOwe(c.user, c.other)
    BY <1>5, <2>2 DEF DebtOfCheat, DebtsMove
  <2> QED BY <2>1, <2>2
<1>6. ASSUME RepayDebt(s) PROVE DebtsMove
  <2> DEFINE seen == req[s].doc
             i == c.id
             d == Repaid(debts[i], seen, c.n)
  <2>1. /\ seen \in Debts /\ Honest(seen) /\ i \in DOMAIN debts /\ c.n > 0
        /\ seen.due = debts[i].due /\ seen.paid <= debts[i].paid
    BY <1>1, <1>6 DEF RepayDebt, At, Sound, Owes
  <2>2. debts[i] \in Debts /\ Honest(debts[i])
    BY <1>1, <2>1 DEF TypeOK, KarmaInv, DebtsAreHonoured, Honest
  <2>3. /\ seen.amount \in Int /\ seen.due \in Int /\ seen.paid \in Nat
        /\ debts[i].amount \in Int /\ debts[i].due \in Int /\ debts[i].paid \in Nat
        /\ debts[i].status \in {"active", "repaid", "transferred"}
    BY <2>1, <2>2 DEF Debts
  <2> DEFINE e == [debts[i] EXCEPT !.amount = seen.amount - c.n, !.paid = debts[i].paid + c.n,
                      !.status = IF seen.amount - c.n = 0 THEN "repaid" ELSE debts[i].status]
  <2>4. d = e
    BY DEF Repaid
  <2> DEFINE amount == seen.amount - c.n
             paid == debts[i].paid + c.n
             status == IF seen.amount - c.n = 0 THEN "repaid" ELSE debts[i].status
  <2>11. amount \in Int /\ paid \in Nat /\ status \in {"active", "repaid", "transferred"}
    BY <1>2, <2>1, <2>3
  <2>5. e \in Debts
    <3> HIDE DEF amount, paid, status
    <3>1. [debts[i] EXCEPT !.amount = amount, !.paid = paid, !.status = status] \in Debts
      BY <2>2, <2>11 DEF Debts
    <3> QED BY <3>1 DEF amount, paid, status
  <2>6. /\ e.due = debts[i].due /\ e.paid = debts[i].paid + c.n /\ e.amount = seen.amount - c.n
        /\ e.status = IF seen.amount - c.n = 0 THEN "repaid" ELSE debts[i].status
    BY <2>2 DEF Debts
  <2> HIDE DEF e, d
  <2>7. Honest(e)
    BY <1>2, <2>1, <2>2, <2>3, <2>6 DEF Honest
  <2>8. debts' = [debts EXCEPT ![i] = e]
    BY <1>6, <2>4 DEF RepayDebt, d
  <2>9. e.paid >= debts[i].paid
    BY <1>2, <2>1, <2>3, <2>6
  <2>10. DebtChanged
    BY <2>1, <2>5, <2>6, <2>7, <2>8, <2>9 DEF DebtChanged
  <2> QED BY <2>10 DEF DebtsMove
<1>7. ASSUME InsertTransferred(s) PROVE DebtsMove
  <2> DEFINE seen == req[s].doc
             d == [seen EXCEPT !.debtor = c.other, !.status = "active"]
  <2>1. seen \in Debts /\ Honest(seen) /\ c.other \in Users
    BY <1>1, <1>2, <1>7 DEF InsertTransferred, At, Sound, Owes
  <2>2. d \in Debts /\ d.amount = seen.amount /\ d.due = seen.due /\ d.paid = seen.paid
        /\ d.status = "active"
    BY <2>1 DEF Debts
  <2>3. Honest(d)
    BY <2>1, <2>2 DEF Honest
  <2>4. debts' = Append(debts, d)
    BY <1>7 DEF InsertTransferred
  <2> HIDE DEF d
  <2>5. DebtAdded
    BY <2>2, <2>3, <2>4 DEF DebtAdded
  <2> QED BY <2>5 DEF DebtsMove
<1>8. ASSUME MarkTransferred(s) PROVE DebtsMove
  <2> DEFINE i == c.id
             d == [debts[i] EXCEPT !.status = "transferred"]
  <2>1. i \in DOMAIN debts /\ debts' = [debts EXCEPT ![i].status = "transferred"]
    BY <1>1, <1>8 DEF MarkTransferred, At, Sound, Owes
  <2>2. debts[i] \in Debts /\ Honest(debts[i])
    <3>1. debts \in Seq(Debts)
      BY DEF TypeOK, KarmaInv
    <3>2. Honest(debts[i])
      BY <2>1 DEF KarmaInv, DebtsAreHonoured, Honest
    <3> QED BY <2>1, <3>1, <3>2
  <2>3. /\ d \in Debts /\ d.amount = debts[i].amount /\ d.due = debts[i].due
        /\ d.paid = debts[i].paid /\ d.status = "transferred" /\ d.paid \in Nat
    BY <2>2 DEF Debts
  <2>4. debts' = [debts EXCEPT ![i] = d]
    BY <2>1
  <2> HIDE DEF d
  <2>5. Honest(d) /\ d.paid >= debts[i].paid
    BY <2>2, <2>3 DEF Honest
  <2>6. DebtChanged
    BY <2>1, <2>3, <2>4, <2>5 DEF DebtChanged
  <2> QED BY <2>6 DEF DebtsMove
<1>9. ASSUME \/ RecordRequest(s) \/ UnknownEvent(s) \/ ReadUser(s) \/ ApplyDecayAndExpiry(s)
             \/ Redeem(s) \/ UpdatePrarabdha(s) \/ Fail(s) \/ ReadDebt(s)
      PROVE  UNCHANGED debts
  BY <1>9 DEF RecordRequest, UnknownEvent, ReadUser, ApplyDecayAndExpiry, Redeem, UpdatePrarabdha,
              Fail, ReadDebt
<1>10. ASSUME LogStep(s) PROVE UNCHANGED debts
  BY <1>10 DEF LogStep, CheckAgain, InsertUser, UpdateBalance, ApplyPaap, UpdateAdvancedKarma,
               Reread, SetRole, LogTransaction, TransactionFails
<1>11. ASSUME PlanStep(s) PROVE UNCHANGED debts
  BY <1>11 DEF PlanStep, CountPlans, InsertPlan, SubmitProof, ReadPlan, AwardAtonement,
               RewardTransaction, CompletePlan, LearnAtonement, ReducePaap
<1>12. ASSUME LifeStep(s) PROVE UNCHANGED debts
  BY <1>12 DEF LifeStep, CheckThreshold, ReadDeath, InsertDeath, InsertReborn, MarkDeceased
<1> QED
  BY <1>4, <1>5, <1>6, <1>7, <1>8, <1>9, <1>10, <1>11, <1>12 DEF Step, DebtStep, DebtsMove

-----------------------------------------------------------------------------
(* What follows for the collections and for the other requests.             *)
ReqMove(s, r) ==
  /\ r \in Requests /\ req' = [req EXCEPT ![s] = r]
  /\ r.call.id = req[s].call.id /\ r.call.n = req[s].call.n
  /\ r.call.op \in Submits <=> req[s].call.op \in Submits
  /\ RewardOf(s) \in txs => r.mark = req[s].mark

(* A step of a request changes no other request.                            *)
LEMMA ReqEffect ==
  ASSUME TypeOK, NEW s \in Slots, NEW r, ReqMove(s, r)
  PROVE  /\ req' \in Seq(Requests') /\ Len(req') = Len(req) /\ Slots' = Slots
         /\ req'[s] = r /\ \A t \in Slots : t # s => req'[t] = req[t]
         /\ \A t \in Slots : /\ req'[t].call.id = req[t].call.id
                             /\ req'[t].call.n = req[t].call.n
                             /\ req'[t].call.op \in Submits <=> req[t].call.op \in Submits
                             /\ RewardOf(t) \in txs => req'[t].mark = req[t].mark
<1>1. Requests' = Requests
  BY DEF Requests, Documents
<1>2. req \in Seq(Requests) /\ r \in Requests /\ req' = [req EXCEPT ![s] = r] /\ s \in DOMAIN req
  BY DEF TypeOK, ReqMove, Slots
<1>3. /\ req' \in Seq(Requests) /\ Len(req') = Len(req) /\ DOMAIN req' = DOMAIN req
      /\ req'[s] = r /\ \A t \in DOMAIN req : t # s => req'[t] = req[t]
  BY <1>2
<1>4. \A t \in Slots : /\ req'[t].call.id = req[t].call.id
                       /\ req'[t].call.n = req[t].call.n
                       /\ req'[t].call.op \in Submits <=> req[t].call.op \in Submits
                       /\ RewardOf(t) \in txs => req'[t].mark = req[t].mark
  BY <1>3 DEF ReqMove, Slots
<1> QED BY <1>1, <1>3, <1>4 DEF Slots

(* A plan whose progress has only grown is still earned.                    *)
LEMMA EarnedPlans ==
  ASSUME TypeOK, NEW i, NEW j \in Nat, NEW s \in Slots, NEW r, ReqMove(s, r),
         plans'[j].id = plans[i].id,
         \A k \in AtonementKinds : plans'[j].progress[k] >= plans[i].progress[k],
         \A k \in AtonementKinds : plans'[j].progress[k] \in Int /\ plans[i].progress[k] \in Int
  PROVE  Earned(i) => Earned(j)'
<1>1. ASSUME TakenBack(i) PROVE TakenBack(j)'
  BY <1>1, ReqEffect DEF TakenBack
<1>2. ASSUME PlanComplete(plans[i].progress) PROVE PlanComplete(plans'[j].progress)
  <2>1. \A k \in AtonementKinds : Required[k] \in Int
    BY DEF Required
  <2> QED BY <1>2, <2>1 DEF PlanComplete
<1> QED BY <1>1, <1>2 DEF Earned

(* Plans stay where they are and stay earned, and a completed one still     *)
(* has its reward, whichever step is taken.                                 *)
LEMMA PlansEffect ==
  ASSUME KarmaInv, NEW s \in Slots, NEW r, ReqMove(s, r), PlansMove(s),
         txs \subseteq txs', \A u \in Users : users[u].exists => users'[u].exists
  PROVE  /\ plans' \in Seq(Plans) /\ DOMAIN plans \subseteq DOMAIN plans'
         /\ \A i \in DOMAIN plans : /\ plans'[i].id = plans[i].id
                                    /\ Earned(i) => Earned(i)'
         /\ PlansHaveUsers' /\ CompletionIsEarned'
<1>1. TypeOK /\ plans \in Seq(Plans) /\ PlansHaveUsers /\ CompletionIsEarned
  BY DEF KarmaInv, TypeOK
<1>2. /\ Slots' = Slots
      /\ \A t \in Slots : RewardOf(t) \in txs => req'[t].mark = req[t].mark
  BY <1>1, ReqEffect
<1>3. \A p \in Plans : /\ p.id.user \in Users
                       /\ \A k \in AtonementKinds : p.progress[k] \in Int
                       /\ p.status \in {"pending", "completed"}
  BY DEF Plans
<1>4. \A i \in DOMAIN plans : i \in Nat /\ plans[i] \in Plans
  BY <1>1
(* the reward of a completed plan is still there                            *)
<1>5. ASSUME NEW i \in DOMAIN plans, \E t \in Slots : RewardOf(t) \in txs /\ req[t].mark = i
      PROVE  \E t \in Slots' : RewardOf(t)' \in txs' /\ req'[t].mark = i
  <2>1. PICK t \in Slots : RewardOf(t) \in txs /\ req[t].mark = i
    BY <1>5
  <2>2. RewardOf(t)' \in txs'
    BY <2>1 DEF RewardOf
  <2> QED BY <1>2, <2>1, <2>2
<1>6. ASSUME NEW i \in DOMAIN plans, plans[i].status = "completed"
      PROVE  Earned(i) /\ \E t \in Slots : RewardOf(t) \in txs /\ req[t].mark = i
  BY <1>1, <1>6 DEF CompletionIsEarned, Earned, PlanComplete, RewardOf
(* it is enough that each plan is one of before or a new one                *)
<1>7. ASSUME plans' \in Seq(Plans), DOMAIN plans \subseteq DOMAIN plans',
             \A i \in DOMAIN plans : plans'[i].id = plans[i].id /\ (Earned(i) => Earned(i)'),
             \A i \in DOMAIN plans' \ DOMAIN plans :
               users[plans'[i].id.user].exists /\ plans'[i].status = "pending",
             \A i \in DOMAIN plans : plans'[i].status = "completed" =>
               Earned(i) /\ \E t \in Slots : RewardOf(t) \in txs /\ req[t].mark = i
      PROVE  PlansHaveUsers' /\ CompletionIsEarned'
  <2>1. ASSUME NEW i \in DOMAIN plans' PROVE users'[plans'[i].id.user].exists
    <3>1. plans'[i] \in Plans
      BY <1>7
    <3>2. users[plans'[i].id.user].exists
      BY <1>1, <1>7 DEF PlansHaveUsers
    <3> QED BY <1>3, <3>1, <3>2
  <2>2. ASSUME NEW i \in DOMAIN plans', plans'[i].status = "completed"
        PROVE  Earned(i)' /\ \E t \in Slots' : RewardOf(t)' \in txs' /\ req'[t].mark = i
    <3>1. i \in DOMAIN plans
      BY <1>7, <2>2
    <3> QED BY <1>5, <1>7, <2>2, <3>1
  <2> QED BY <2>1, <2>2 DEF PlansHaveUsers, CompletionIsEarned, Earned, PlanComplete, RewardOf
<1>8. CASE UNCHANGED plans
  <2>1. \A i \in DOMAIN plans : Earned(i) => Earned(i)'
    <3>1. ASSUME NEW i \in DOMAIN plans PROVE Earned(i) => Earned(i)'
      BY <1>1, <1>3, <1>4, <1>8, EarnedPlans
    <3> QED BY <3>1
  <2> QED BY <1>1, <1>6, <1>7, <1>8, <2>1
<1>9. CASE PlanAdded
  <2>1. PICK p \in Plans :
          p.status = "pending" /\ users[p.id.user].exists /\ plans' = Append(plans, p)
    BY <1>9 DEF PlanAdded
  <2>2. /\ plans' \in Seq(Plans) /\ Len(plans') = Len(plans) + 1
        /\ plans'[Len(plans) + 1] = p
        /\ \A i \in DOMAIN plans : plans'[i] = plans[i]
        /\ DOMAIN plans' = DOMAIN plans \cup {Len(plans) + 1}
    BY <1>1, <2>1
  <2>3. ASSUME NEW i \in DOMAIN plans PROVE Earned(i) => Earned(i)'
    BY <1>1, <1>3, <1>4, <2>2, EarnedPlans
  <2> QED BY <1>6, <1>7, <2>1, <2>2, <2>3
<1>10. CASE PlanProved(s)
  <2> DEFINE n == req[s].call.n
  <2>1. PICK i \in DOMAIN plans, k \in AtonementKinds :
          /\ req[s].call.op \in Submits /\ plans[i].id = req[s].call.id
          /\ plans' = [plans EXCEPT ![i].progress[k] = plans[i].progress[k] + n]
    BY <1>10 DEF PlanProved
  <2> DEFINE progress == [plans[i].progress EXCEPT ![k] = plans[i].progress[k] + n]
             p == [plans[i] EXCEPT !.progress = progress]
  <2>2. n \in Int /\ plans[i] \in Plans /\ plans[i].progress[k] \in Int
    BY <1>1, <1>3, <1>4, SlotTypes
  <2>3. /\ progress \in [AtonementKinds -> Int]
        /\ n >= 0 => \A l \in AtonementKinds : progress[l] >= plans[i].progress[l]
    BY <2>2 DEF Plans
  <2>4. plans' = [plans EXCEPT ![i] = p]
    BY <2>1
  <2> HIDE DEF progress
  <2>5. p \in Plans /\ p.id = plans[i].id /\ p.progress = progress /\ p.status = plans[i].status
    BY <2>2, <2>3 DEF Plans
  <2> HIDE DEF p
  <2>6. /\ plans' \in Seq(Plans) /\ DOMAIN plans' = DOMAIN plans /\ plans'[i] = p
        /\ \A j \in DOMAIN plans : j # i => plans'[j] = plans[j]
    BY <1>1, <2>4, <2>5
  <2>7. ASSUME NEW j \in DOMAIN plans PROVE Earned(j) => Earned(j)'
    <3>1. CASE j # i \/ n >= 0
      <4>1. /\ plans'[j].id = plans[j].id
            /\ \A l \in AtonementKinds : plans'[j].progress[l] >= plans[j].progress[l]
            /\ \A l \in AtonementKinds : plans'[j].progress[l] \in Int
                                         /\ plans[j].progress[l] \in Int
        <5>1. CASE j # i
          BY <1>3, <1>4, <2>6, <5>1
        <5>2. CASE j = i
          BY <1>3, <1>4, <2>3, <2>5, <2>6, <3>1, <5>2
        <5> QED BY <5>1, <5>2
      <4> QED BY <1>1, <1>4, <4>1, EarnedPlans
    <3>2. CASE j = i /\ n < 0
      <4>1. /\ req'[s].call.op \in Submits /\ req'[s].call.n < 0
            /\ req'[s].call.id = plans'[j].id
        BY <1>1, <2>1, <2>5, <2>6, <3>2, ReqEffect
      <4> QED BY <1>2, <4>1 DEF Earned, TakenBack
    <3> QED BY <2>2, <3>1, <3>2
  <2>8. \A j \in DOMAIN plans : plans'[j].id = plans[j].id /\ plans'[j].status = plans[j].status
    BY <2>5, <2>6
  <2> QED BY <1>6, <1>7, <2>6, <2>7, <2>8
<1>11. CASE PlanCompleted(s)
  <2> DEFINE i == req[s].mark
             p == [plans[i] EXCEPT !.status = "completed"]
  <2>1. /\ i \in DOMAIN plans /\ Earned(i) /\ RewardOf(s) \in txs
        /\ plans' = [plans EXCEPT ![i] = p]
    BY <1>11 DEF PlanCompleted
  <2>2. plans[i] \in Plans
    BY <1>4, <2>1
  <2>3. p \in Plans /\ p.id = plans[i].id /\ p.progress = plans[i].progress
    BY <2>2 DEF Plans
  <2> HIDE DEF p
  <2>4. /\ plans' \in Seq(Plans) /\ DOMAIN plans' = DOMAIN plans /\ plans'[i] = p
        /\ \A j \in DOMAIN plans : j # i => plans'[j] = plans[j]
    BY <1>1, <2>1, <2>3
  <2>5. \A j \in DOMAIN plans :
          plans'[j].id = plans[j].id /\ plans'[j].progress = plans[j].progress
    BY <2>3, <2>4
  <2>6. ASSUME NEW j \in DOMAIN plans PROVE Earned(j) => Earned(j)'
    BY <1>1, <1>3, <1>4, <2>5, EarnedPlans
  <2>7. ASSUME NEW j \in DOMAIN plans, plans'[j].status = "completed"
        PROVE  Earned(j) /\ \E t \in Slots : RewardOf(t) \in txs /\ req[t].mark = j
    BY <1>6, <2>1, <2>4, <2>7
  <2> QED BY <1>7, <2>4, <2>5, <2>6, <2>7
<1> QED BY <1>1, <1>3, <1>4, <1>8, <1>9, <1>10, <1>11, <1>6, <1>7 DEF PlansMove

(* What is paid of a debt only grows, although each repayment is computed   *)
(* from a copy that may be stale.                                           *)
LEMMA DebtsEffect ==
  ASSUME KarmaInv, DebtsMove
  PROVE  /\ debts' \in Seq(Debts) /\ DOMAIN debts \subseteq DOMAIN debts'
         /\ \A i \in DOMAIN debts : /\ debts[i].paid \in Nat /\ debts'[i].paid \in Nat
                                    /\ debts'[i].due = debts[i].due
                                    /\ debts'[i].paid >= debts[i].paid
         /\ DebtsAreHonoured'
<1>1. debts \in Seq(Debts) /\ \A i \in DOMAIN debts : Honest(debts[i])
  BY DEF KarmaInv, TypeOK, DebtsAreHonoured, Honest
<1>2. \A d \in Debts : d.paid \in Nat
  BY DEF Debts
<1>3. \A i \in DOMAIN debts : debts[i] \in Debts
  BY <1>1
<1>4. CASE UNCHANGED debts
  BY <1>1, <1>2, <1>3, <1>4 DEF DebtsAreHonoured, Honest
<1>5. CASE DebtAdded
  <2>1. PICK d \in Debts : Honest(d) /\ debts' = Append(debts, d)
    BY <1>5 DEF DebtAdded
  <2>2. /\ debts' \in Seq(Debts) /\ debts'[Len(debts) + 1] = d
        /\ \A i \in DOMAIN debts : debts'[i] = debts[i]
        /\ DOMAIN debts' = DOMAIN debts \cup {Len(debts) + 1}
    BY <1>1, <2>1
  <2>3. \A i \in DOMAIN debts' : Honest(debts'[i])
    BY <1>1, <2>1, <2>2
  <2>4. DebtsAreHonoured'
    BY <2>3 DEF DebtsAreHonoured, Honest
  <2> QED BY <1>2, <1>3, <2>2, <2>4
<1>6. CASE DebtChanged
  <2>1. PICK i \in DOMAIN debts, d \in Debts :
          /\ Honest(d) /\ d.due = debts[i].due /\ d.paid >= debts[i].paid
          /\ debts' = [debts EXCEPT ![i] = d]
    BY <1>6 DEF DebtChanged
  <2>2. /\ debts' \in Seq(Debts) /\ debts'[i] = d /\ DOMAIN debts' = DOMAIN debts
        /\ \A j \in DOMAIN debts : j # i => debts'[j] = debts[j]
    BY <1>1, <2>1
  <2>3. \A j \in DOMAIN debts' : Honest(debts'[j])
    BY <1>1, <2>1, <2>2
  <2>4. DebtsAreHonoured'
    BY <2>3 DEF DebtsAreHonoured, Honest
  <2>5. \A j \in DOMAIN debts : /\ debts[j].paid \in Nat /\ debts'[j].paid \in Nat
                                /\ debts'[j].due = debts[j].due
                                /\ debts'[j].paid >= debts[j].paid
    BY <1>2, <1>3, <2>1, <2>2
  <2> QED BY <2>2, <2>4, <2>5
<1> QED BY <1>4, <1>5, <1>6 DEF DebtsMove

-----------------------------------------------------------------------------
(* What the steps do to their request.                                      *)
Steady(s, r) ==
  /\ HoldsUser(r) \/ HoldsUser(r)'
  /\ HoldsPlan(r) /\ Fits(r) /\ Owes(r)
  /\ r.pc \in {"award", "rewardTx", "complete"} => Earned(r.mark) /\ r.call.op \in Submits
  /\ r.pc = "complete" => RewardOf(s) \in txs'
  /\ RewardOf(s) \in txs' => r.call.op \in Submits /\ r.pc \notin {"received", "proof"}
  /\ r.pc = "insert" => HoldsUser(r) /\ r.doc.rebirths = users[r.call.user].rebirths
  /\ r.pc = "markDeceased" => GoesOn(r.call.user)'
  /\ Audited(s, r)'
Proceeds(s) == \E r : ReqMove(s, r) /\ Steady(s, r)

Became(s, r, pc, doc, mark) ==
  /\ r \in Requests /\ req' = [req EXCEPT ![s] = r]
  /\ r.call = req[s].call /\ r.pc = pc /\ r.doc = doc /\ r.mark = mark

(* How the stages of a request change it.                                   *)
LEMMA Moving ==
  ASSUME TypeOK, NEW s \in Slots, NEW pc \in Stages
  PROVE  /\ Goto(s, pc) => \E r : Became(s, r, pc, req[s].doc, req[s].mark)
         /\ \A doc \in Documents \cup Debts \cup {NoDoc} :
              Read(s, doc, pc) => \E r : Became(s, r, pc, doc, req[s].mark)
         /\ \A what \in Writings :
              Wrote(s, what, pc) => \E r : Became(s, r, pc, req[s].doc, req[s].mark)
<1>1. req[s] \in Requests /\ req[s].wrote \in SUBSET Writings
  BY SlotTypes
<1>2. ASSUME Goto(s, pc) PROVE \E r : Became(s, r, pc, req[s].doc, req[s].mark)
  <2> DEFINE r == [req[s] EXCEPT !.pc = pc]
  <2>1. r \in Requests /\ r.call = req[s].call /\ r.pc = pc /\ r.doc = req[s].doc
        /\ r.mark = req[s].mark
    BY <1>1 DEF Requests
  <2>2. req' = [req EXCEPT ![s] = r]
    BY <1>2 DEF Goto
  <2> QED BY <2>1, <2>2 DEF Became
<1>3. ASSUME NEW doc \in Documents \cup Debts \cup {NoDoc}, Read(s, doc, pc)
      PROVE  \E r : Became(s, r, pc, doc, req[s].mark)
  <2> DEFINE r == [req[s] EXCEPT !.doc = doc, !.pc = pc]
  <2>1. r \in Requests /\ r.call = req[s].call /\ r.pc = pc /\ r.doc = doc
        /\ r.mark = req[s].mark
    BY <1>1 DEF Requests
  <2>2. req' = [req EXCEPT ![s] = r]
    BY <1>3 DEF Read, TypeOK, Slots
  <2> QED BY <2>1, <2>2 DEF Became
<1>4. ASSUME NEW what \in Writings, Wrote(s, what, pc)
      PROVE  \E r : Became(s, r, pc, req[s].doc, req[s].mark)
  <2> DEFINE wrote == req[s].wrote \cup {what}
             r == [req[s] EXCEPT !.wrote = wrote, !.pc = pc]
  <2>1. wrote \in SUBSET Writings
    BY <1>1
  <2>2. req' = [req EXCEPT ![s] = r]
    BY <1>4 DEF Wrote, TypeOK, Slots
  <2> HIDE DEF wrote
  <2>3. r \in Requests /\ r.call = req[s].call /\ r.pc = pc /\ r.doc = req[s].doc
        /\ r.mark = req[s].mark
    BY <1>1, <2>1 DEF Requests
  <2> QED BY <2>2, <2>3 DEF Became
<1> QED BY <1>2, <1>3, <1>4

(* A step whose request goes on leaves its record, and one whose request    *)
(* ends leaves the record of that end.                                      *)
LEMMA StillOpen ==
  ASSUME KarmaInv, NEW s \in Slots, NEW r, r.call.via = req[s].call.via,
         req[s].pc \notin Finished, r.pc \notin Finished \cup {"received"},
         req[s].pc # "received" \/ req[s].call.via # "api", UNCHANGED events
  PROVE  Audited(s, r)'
<1>1. Audited(s, req[s])
  BY DEF KarmaInv, Sound
<1> QED BY <1>1 DEF Audited, Finished

(* A request that ends leaves the record of its end.                        *)
LEMMA Closing ==
  ASSUME KarmaInv, NEW s \in Slots, NEW how \in Finished, Finish(s, how),
         NEW r, r.call.via = req[s].call.via, r.pc = how,
         req[s].pc \notin Finished,
         req[s].pc # "received" \/ req[s].call.via # "api" \/ how = "failed"
  PROVE  Audited(s, r)'
<1>1. Audited(s, req[s]) /\ TypeOK
  BY DEF KarmaInv, Sound
<1>2. events \in Seq(Seq(Statuses)) /\ s \in DOMAIN events
  BY <1>1 DEF TypeOK, Statuses, Slots
<1>3. how \in {"done", "rejected", "raised", "failed"}
  BY DEF Finished
<1>4. CASE req[s].call.via = "gateway"
  <2> DEFINE status == IF how = "done" THEN "processed" ELSE "failed"
  <2>1. events[s] = <<>>
    BY <1>1, <1>4 DEF Audited
  <2>2. events' = [events EXCEPT ![s] = Append(events[s], status)]
    BY <1>4 DEF Finish
  <2> HIDE DEF status
  <2>3. events'[s] = <<status>>
    BY <1>2, <2>1, <2>2
  <2>4. Len(<<status>>) = 1 /\ Last(<<status>>) = status
    BY DEF Last
  <2> QED BY <1>3, <1>4, <2>3, <2>4 DEF Audited, Finished, status
<1>5. CASE req[s].call.via = "api"
  <2>1. CASE how = "failed"
    BY <1>5, <2>1 DEF Audited, Finished
  <2>2. CASE how # "failed"
    <3>1. events[s] = <<"processing">> /\ <<"processing">> # <<>>
      BY <1>1, <1>5, <2>2 DEF Audited
    <3>2. events' = [events EXCEPT ![s] = <<IF how = "done" THEN "completed" ELSE "failed">>]
      BY <1>5, <3>1 DEF Finish
    <3>3. events'[s] = <<IF how = "done" THEN "completed" ELSE "failed">>
      BY <1>2, <3>2
    <3> QED BY <1>3, <1>5, <2>2, <3>3 DEF Audited, Finished
  <2> QED BY <2>1, <2>2
<1>6. CASE req[s].call.via \notin {"gateway", "api"}
  BY <1>3, <1>6 DEF Audited
<1> QED BY <1>4, <1>5, <1>6

(* Nothing else has to be shown of a request that ends.                     *)
LEMMA Ending ==
  ASSUME KarmaInv, NEW s \in Slots, NEW how \in Finished, Finish(s, how),
         req[s].pc \notin Finished, RewardOf(s) \in txs' => RewardOf(s) \in txs,
         req[s].pc # "received" \/ req[s].call.via # "api" \/ how = "failed"
  PROVE  Proceeds(s)
<1>1. TypeOK /\ Sound(s, req[s]) /\ how \in Stages
  BY DEF KarmaInv, Stages
<1>2. PICK r : Became(s, r, how, req[s].doc, req[s].mark)
  BY <1>1, Moving DEF Finish
<1>3. Audited(s, r)'
  BY <1>2, Closing DEF Became
<1>4. how \in {"done", "rejected", "raised", "failed"} /\ r.pc = how /\ r.call = req[s].call
  BY <1>2 DEF Finished, Became
<1>5. /\ HoldsUser(r) /\ HoldsPlan(r) /\ Fits(r) /\ Owes(r)
  BY <1>4 DEF HoldsUser, UserStages, HoldsPlan, PlanStages, Fits, Owes
<1>6. RewardOf(s) \in txs' => r.call.op \in Submits
  BY <1>1, <1>4 DEF Sound, Earns
<1>7. Steady(s, r)
  BY <1>3, <1>4, <1>5, <1>6 DEF Steady
<1>8. ReqMove(s, r)
  BY <1>2 DEF ReqMove, Became
<1> QED BY <1>7, <1>8 DEF Proceeds

(* When a request goes on, what its next stage needs is to be shown.        *)
LEMMA GoingOn ==
  ASSUME KarmaInv, NEW s \in Slots, NEW pc \in Stages \ (Finished \cup {"received", "proof"}),
         NEW doc, NEW mark, NEW r, Became(s, r, pc, doc, mark),
         req[s].pc \notin Finished, UNCHANGED events,
         req[s].pc # "received" \/ req[s].call.via # "api",
         RewardOf(s) \in txs' => RewardOf(s) \in txs \/ req[s].call.op \in Submits,
         RewardOf(s) \in txs => mark = req[s].mark,
         HoldsUser(r) \/ HoldsUser(r)', HoldsPlan(r), Fits(r), Owes(r),
         pc \in {"award", "rewardTx", "complete"} => Earned(mark) /\ req[s].call.op \in Submits,
         pc = "complete" => RewardOf(s) \in txs',
         pc = "insert" => HoldsUser(r) /\ doc.rebirths = users[req[s].call.user].rebirths,
         NEW u, u = req[s].call.user, pc = "markDeceased" => GoesOn(u)'
  PROVE  Proceeds(s)
<1>1. Sound(s, req[s])
  BY DEF KarmaInv
<1>2. r.call = req[s].call /\ r.pc = pc /\ r.doc = doc /\ r.mark = mark
  BY DEF Became
<1>3. Audited(s, r)'
  BY <1>2, StillOpen
<1>4. RewardOf(s) \in txs' => r.call.op \in Submits
  BY <1>1, <1>2 DEF Sound, Earns
<1>5. Steady(s, r)
  BY <1>2, <1>3, <1>4 DEF Steady
<1>6. ReqMove(s, r)
  BY DEF ReqMove, Became
<1> QED BY <1>5, <1>6 DEF Proceeds

(* The steps that open and close the record, and what each step that        *)
(* reads or creates a user leaves its request with.                         *)
LEMMA RecordSteps ==
  ASSUME KarmaInv, NEW s \in Slots,
         RecordRequest(s) \/ UnknownEvent(s) \/ Fail(s)
  PROVE  Proceeds(s)
<1> DEFINE c == req[s].call
<1>1. TypeOK /\ Sound(s, req[s])
  BY DEF KarmaInv
<1>2. c \in Calls /\ (c.via = "api" <=> c.op \in ApiOps) /\ (c.op = "unknown" => c.via = "gateway")
  BY <1>1, SlotTypes, CallTypes
<1>3. events \in Seq(Seq(Statuses)) /\ s \in DOMAIN events
  BY <1>1 DEF TypeOK, Statuses, Slots
<1>4. CASE RecordRequest(s)
  <2> DEFINE pc == IF c.op = "apiSubmit" THEN "proof" ELSE "read"
  <2>1. /\ req[s].pc = "received" /\ c.op \in ApiOps /\ Goto(s, pc) /\ pc \in {"proof", "read"}
        /\ events' = [events EXCEPT ![s] = <<"processing">>] /\ UNCHANGED txs
        /\ c.op = "apiSubmit" => pc = "proof"
    BY <1>4 DEF RecordRequest, At
  <2>2. pc \in Stages
    BY <2>1 DEF Stages
  <2> HIDE DEF pc
  <2>3. PICK r : Became(s, r, pc, req[s].doc, req[s].mark)
    BY <1>1, <2>1, <2>2, Moving
  <2>4. events'[s] = <<"processing">>
    BY <1>3, <2>1
  <2>5. r.call = c /\ r.pc = pc /\ c.via = "api"
    BY <1>2, <2>1, <2>3 DEF Became
  <2>6. Audited(s, r)'
    BY <2>1, <2>4, <2>5 DEF Audited, Finished
  <2>7. HoldsUser(r) /\ HoldsPlan(r) /\ Fits(r) /\ Owes(r)
    BY <2>1, <2>5 DEF HoldsUser, UserStages, HoldsPlan, PlanStages, Submits, ApiOps, Fits, Owes
  <2>8. RewardOf(s) \notin txs'
    BY <1>1, <2>1 DEF Sound, Earns
  <2>9. Steady(s, r)
    BY <2>1, <2>5, <2>6, <2>7, <2>8 DEF Steady
  <2>10. ReqMove(s, r)
    BY <2>3 DEF ReqMove, Became
  <2> QED BY <2>9, <2>10 DEF Proceeds
<1>5. CASE UnknownEvent(s)
  <2>1. /\ req[s].pc = "received" /\ c.op = "unknown" /\ Goto(s, "rejected") /\ UNCHANGED txs
        /\ events' = [events EXCEPT ![s] = events[s] \o <<"failed", "failed">>]
    BY <1>5 DEF UnknownEvent, At
  <2>2. PICK r : Became(s, r, "rejected", req[s].doc, req[s].mark)
    BY <1>1, <2>1, Moving DEF Stages, Finished
  <2>3. events[s] = <<>>
    BY <1>1, <2>1 DEF Sound, Audited
  <2>4. events'[s] = <<"failed", "failed">>
    BY <1>3, <2>1, <2>3
  <2>5. Len(<<"failed", "failed">>) = 2 /\ Last(<<"failed", "failed">>) = "failed"
    BY DEF Last
  <2>6. r.call = c /\ r.pc = "rejected" /\ c.via = "gateway"
    BY <1>2, <2>1, <2>2 DEF Became
  <2>7. Audited(s, r)'
    BY <2>4, <2>5, <2>6 DEF Audited, Finished
  <2>8. HoldsUser(r) /\ HoldsPlan(r) /\ Fits(r) /\ Owes(r)
    BY <2>6 DEF HoldsUser, UserStages, HoldsPlan, PlanStages, Fits, Owes
  <2>9. RewardOf(s) \notin txs'
    BY <1>1, <2>1 DEF Sound, Earns
  <2>10. Steady(s, r)
    BY <2>6, <2>7, <2>8, <2>9 DEF Steady
  <2>11. ReqMove(s, r)
    BY <2>2 DEF ReqMove, Became
  <2> QED BY <2>10, <2>11 DEF Proceeds
<1>6. CASE Fail(s)
  <2>1. req[s].pc \notin Finished /\ UNCHANGED txs /\ "failed" \in Finished
    BY <1>6 DEF Fail, Finished
  <2>2. CASE Finish(s, "failed")
    BY <2>1, <2>2, Ending
  <2>3. CASE Goto(s, "failed")
    <3>1. PICK r : Became(s, r, "failed", req[s].doc, req[s].mark)
      BY <1>1, <2>3, Moving DEF Stages, Finished
    <3>2. r.call = c /\ r.pc = "failed"
      BY <3>1 DEF Became
    <3>3. Audited(s, r)'
      BY <3>2 DEF Audited, Finished
    <3>4. HoldsUser(r) /\ HoldsPlan(r) /\ Fits(r) /\ Owes(r)
      BY <3>2 DEF HoldsUser, UserStages, HoldsPlan, PlanStages, Fits, Owes
    <3>5. RewardOf(s) \in txs' => c.op \in Submits
      BY <1>1, <2>1 DEF Sound, Earns
    <3>6. Steady(s, r)
      BY <3>2, <3>3, <3>4, <3>5 DEF Steady
    <3>7. ReqMove(s, r)
      BY <3>1 DEF ReqMove, Became
    <3> QED BY <3>6, <3>7 DEF Proceeds
  <2> QED BY <1>6, <2>2, <2>3 DEF Fail
<1> QED BY <1>4, <1>5, <1>6

(* Which stage follows the reading of the user.                             *)
LEMMA AfterReadStages ==
  ASSUME NEW op \in Readers \cup ApiOps
  PROVE  \/ AfterRead[op] = "decay" /\ op \in DOMAIN AfterDecay
         \/ AfterRead[op] = "set" /\ op = "prarabdha"
         \/ AfterRead[op] = "count" /\ op = "appeal"
         \/ AfterRead[op] = "insert" /\ op = "rebirth"
<1>1. op \in {"log", "redeem", "view", "prarabdha", "appeal", "rebirth", "apiLog", "apiSubmit",
              "profile"}
  BY DEF Readers, ApiOps
<1>2. CASE op \in {"log", "redeem", "view"}
  BY <1>2 DEF AfterRead, AfterDecay
<1>3. CASE op \in {"apiLog", "apiSubmit", "profile"}
  BY <1>3 DEF AfterRead, AfterDecay
<1>4. CASE op \in {"prarabdha", "appeal", "rebirth"}
  BY <1>4 DEF AfterRead
<1> QED BY <1>1, <1>2, <1>3, <1>4

(* The steps that read or create a user.                                    *)
LEMMA ReadSteps ==
  ASSUME KarmaInv, NEW s \in Slots,
         ReadUser(s) \/ CheckAgain(s) \/ InsertUser(s) \/ Reread(s) \/ ReadDeath(s)
  PROVE  Proceeds(s)
<1> DEFINE c == req[s].call
           u == c.user
           doc == req[s].doc
           mark == req[s].mark
<1>1. TypeOK /\ Sound(s, req[s])
  BY DEF KarmaInv
<1>2. /\ c \in Calls /\ (c.via = "api" <=> c.op \in ApiOps) /\ u \in Users
      /\ (c.via = "gateway" => c.op \in GatewayOps \cup {"process"})
  BY <1>1, SlotTypes, CallTypes
<1>3. users[u].exists => users[u] \in Documents
  BY <1>1, <1>2, UserTypes
<1>4. CASE ReadUser(s)
  <2>1. /\ UNCHANGED txs
        /\ \/ req[s].pc = "received" /\ c.op \in Readers
           \/ req[s].pc = "read" /\ c.op \in ApiOps
    BY <1>4 DEF ReadUser, At
  <2>2. req[s].pc \notin Finished /\ (req[s].pc # "received" \/ c.via # "api")
    BY <1>2, <2>1 DEF Finished, Readers, ApiOps
  <2>3. CASE Finish(s, "rejected")
    BY <2>1, <2>2, <2>3, Ending DEF Finished
  <2>4. CASE Read(s, users[u], AfterRead[c.op]) /\ users[u].exists /\ UNCHANGED events
    <3> DEFINE pc == AfterRead[c.op]
    <3>1. \/ pc = "decay" /\ c.op \in DOMAIN AfterDecay
          \/ pc = "set" /\ c.op = "prarabdha"
          \/ pc = "count" /\ c.op = "appeal"
          \/ pc = "insert" /\ c.op = "rebirth"
      BY <2>1, AfterReadStages
    <3> HIDE DEF pc
    <3>2. pc \in Stages \ (Finished \cup {"received", "proof"})
      BY <3>1 DEF Stages, Finished
    <3>3. PICK r : Became(s, r, pc, users[u], mark)
      BY <1>1, <1>3, <2>4, <3>2, Moving DEF pc
    <3>4. r.call = c /\ r.pc = pc /\ r.doc = users[u] /\ r.mark = mark
      BY <3>3 DEF Became
    <3>5. HoldsUser(r)
      BY <1>3, <2>4, <3>4 DEF HoldsUser
    <3>6. HoldsPlan(r)
      BY <1>1, <2>1, <3>4 DEF HoldsPlan, PlanStages, Submits, Readers, ApiOps, Sound
    <3>7. Fits(r) /\ Owes(r)
      BY <3>1, <3>4 DEF Fits, Owes
    <3> QED BY <2>1, <2>2, <2>4, <3>1, <3>2, <3>3, <3>5, <3>6, <3>7, GoingOn
  <2>5. CASE Read(s, NoDoc, "create") /\ c.op \in Logs /\ UNCHANGED events
    <3>1. "create" \in Stages \ (Finished \cup {"received", "proof"})
      BY DEF Stages, Finished
    <3>2. PICK r : Became(s, r, "create", NoDoc, mark)
      BY <1>1, <2>5, <3>1, Moving
    <3>3. r.call = c /\ r.pc = "create"
      BY <3>2 DEF Became
    <3>4. HoldsUser(r) /\ HoldsPlan(r) /\ Fits(r) /\ Owes(r)
      BY <3>3 DEF HoldsUser, UserStages, HoldsPlan, PlanStages, Fits, Owes
    <3> QED BY <2>1, <2>2, <2>5, <3>1, <3>2, <3>4, GoingOn
  <2> QED BY <1>4, <2>3, <2>4, <2>5 DEF ReadUser
<1>5. CASE CheckAgain(s)
  <2>1. UNCHANGED <<txs, events>> /\ req[s].pc = "create" /\ c.op \in Logs
    BY <1>5 DEF CheckAgain, At
  <2>2. req[s].pc \notin Finished
    BY <2>1 DEF Finished
  <2>3. CASE Read(s, users[u], "decay") /\ users[u].exists
    <3>1. "decay" \in Stages \ (Finished \cup {"received", "proof"})
      BY DEF Stages, Finished
    <3>2. PICK r : Became(s, r, "decay", users[u], mark)
      BY <1>1, <1>3, <2>3, <3>1, Moving
    <3>3. r.call = c /\ r.pc = "decay" /\ r.doc = users[u]
      BY <3>2 DEF Became
    <3>4. HoldsUser(r) /\ HoldsPlan(r) /\ Fits(r) /\ Owes(r)
      BY <1>3, <2>1, <2>3, <3>3 DEF HoldsUser, HoldsPlan, Submits, Logs, Fits, AfterDecay, Owes
    <3> QED BY <2>1, <2>2, <3>1, <3>2, <3>4, GoingOn
  <2>4. CASE Goto(s, "insertUser")
    <3>1. "insertUser" \in Stages \ (Finished \cup {"received", "proof"})
      BY DEF Stages, Finished
    <3>2. PICK r : Became(s, r, "insertUser", doc, mark)
      BY <1>1, <2>4, <3>1, Moving
    <3>3. r.call = c /\ r.pc = "insertUser"
      BY <3>2 DEF Became
    <3>4. HoldsUser(r) /\ HoldsPlan(r) /\ Fits(r) /\ Owes(r)
      BY <3>3 DEF HoldsUser, UserStages, HoldsPlan, PlanStages, Fits, Owes
    <3> QED BY <2>1, <2>2, <3>1, <3>2, <3>4, GoingOn
  <2> QED BY <1>5, <2>3, <2>4 DEF CheckAgain
<1>6. CASE Reread(s)
  <2>1. /\ UNCHANGED <<txs, events>> /\ req[s].pc = "reread" /\ c.op \in {"log", "apiSubmit"}
        /\ Read(s, users[u], "role")
    BY <1>6 DEF Reread, At
  <2>2. users[u] \in Documents /\ users[u].exists
    BY <1>1, <1>3, <2>1 DEF Sound, HoldsUser, UserStages
  <2>3. "role" \in Stages \ (Finished \cup {"received", "proof"}) /\ req[s].pc \notin Finished
    BY <2>1 DEF Stages, Finished
  <2>4. PICK r : Became(s, r, "role", users[u], mark)
    BY <1>1, <2>1, <2>2, <2>3, Moving
  <2>5. r.call = c /\ r.pc = "role" /\ r.mark = mark /\ r.doc = users[u]
    BY <2>4 DEF Became
  <2>6. HoldsUser(r) /\ HoldsPlan(r) /\ Owes(r)
    BY <2>2, <2>5 DEF HoldsUser, HoldsPlan, PlanStages, Owes
  <2>7. Fits(r)
    BY <1>1, <2>1, <2>5 DEF Fits, Sound
  <2> QED BY <2>1, <2>3, <2>4, <2>6, <2>7, GoingOn
<1>7. CASE ReadDeath(s)
  <2>1. /\ UNCHANGED txs /\ req[s].pc \in {"readDeath", "received"} /\ c.op \in DeathOps
        /\ \/ Read(s, users[u], "insertDeath") /\ users[u].exists /\ UNCHANGED events
           \/ Finish(s, "rejected")
    BY <1>7 DEF ReadDeath, At
  <2>2. req[s].pc \notin Finished /\ c.via # "api"
    BY <1>2, <2>1 DEF Finished, DeathOps, ApiOps
  <2>3. CASE Finish(s, "rejected")
    BY <2>1, <2>2, <2>3, Ending DEF Finished
  <2>4. CASE Read(s, users[u], "insertDeath") /\ users[u].exists /\ UNCHANGED events
    <3>1. "insertDeath" \in Stages \ (Finished \cup {"received", "proof"})
      BY DEF Stages, Finished
    <3>2. PICK r : Became(s, r, "insertDeath", users[u], mark)
      BY <1>1, <1>3, <2>4, <3>1, Moving
    <3>3. r.call = c /\ r.pc = "insertDeath" /\ r.doc = users[u]
      BY <3>2 DEF Became
    <3>4. HoldsUser(r) /\ HoldsPlan(r) /\ Fits(r) /\ Owes(r)
      BY <1>3, <2>4, <3>3 DEF HoldsUser, HoldsPlan, PlanStages, Fits, Owes
    <3> QED BY <2>1, <2>2, <2>4, <3>1, <3>2, <3>4, GoingOn
  <2> QED BY <2>1, <2>3, <2>4
<1>8. CASE InsertUser(s)
  <2> DEFINE fresh == NewDoc(Nothing, "learner", "aware")
             stored == NewDoc(Nothing, "learner", "naive")
  <2>1. /\ UNCHANGED <<txs, events>> /\ req[s].pc = "insertUser" /\ c.op \in Logs
        /\ Read(s, fresh, "decay")
        /\ users' = IF users[u].exists THEN users ELSE [users EXCEPT ![u] = stored]
    BY <1>8 DEF InsertUser, At
  <2>2. fresh \in Documents /\ stored \in Documents
    BY <1>1, BalanceTypes, NewDocTypes DEF Roles
  <2> HIDE DEF fresh, stored
  <2>3. "decay" \in Stages \ (Finished \cup {"received", "proof"}) /\ req[s].pc \notin Finished
    BY <2>1 DEF Stages, Finished
  <2>4. PICK r : Became(s, r, "decay", fresh, mark)
    BY <1>1, <2>1, <2>2, <2>3, Moving
  <2>5. r.call = c /\ r.pc = "decay" /\ r.doc = fresh
    BY <2>4 DEF Became
  <2>6. HoldsPlan(r) /\ Fits(r) /\ Owes(r)
    BY <2>1, <2>5 DEF HoldsPlan, Submits, Logs, Fits, AfterDecay, Owes
  <2>7. users'[u].exists
    <3>1. stored.exists /\ users \in [Users -> Documents \cup {NoDoc}]
      BY <1>1, <2>2 DEF Documents, TypeOK
    <3> QED BY <1>2, <2>1, <3>1
  <2>8. HoldsUser(r)'
    <3>1. Documents' = Documents
      BY <1>8 DEF InsertUser, Documents
    <3> QED BY <2>2, <2>5, <2>7, <3>1 DEF HoldsUser
  <2> QED BY <2>1, <2>3, <2>4, <2>6, <2>8, GoingOn
<1> QED BY <1>4, <1>5, <1>6, <1>7, <1>8

(* The steps that write balances, or a role.                                *)
LEMMA BalanceSteps ==
  ASSUME KarmaInv, NEW s \in Slots,
         \/ ApplyDecayAndExpiry(s) \/ UpdateBalance(s) \/ ApplyPaap(s) \/ UpdateAdvancedKarma(s)
         \/ SetRole(s) \/ Redeem(s) \/ UpdatePrarabdha(s)
  PROVE  Proceeds(s)
<1> DEFINE c == req[s].call
           u == c.user
           doc == req[s].doc
           mark == req[s].mark
<1>1. TypeOK /\ Sound(s, req[s]) /\ req[s] \in Requests
  BY SlotTypes DEF KarmaInv
<1>2. /\ c \in Calls /\ (c.via = "api" <=> c.op \in ApiOps) /\ u \in Users /\ c.n \in Int
      /\ (c.via = "gateway" => c.op \in GatewayOps \cup {"process"})
      /\ req[s].wrote \in SUBSET Writings
  BY <1>1, SlotTypes, CallTypes
<1>3. req[s].pc \in UserStages => /\ users[u].exists /\ doc \in Documents /\ doc.bal \in Balances
  BY <1>1 DEF Sound, HoldsUser, Documents, Balances
<1>4. CASE ApplyDecayAndExpiry(s)
  <2> DEFINE pc == AfterDecay[c.op]
             aware == [doc EXCEPT !.last_decay = "aware"]
  <2>1. /\ req[s].pc = "decay" /\ UNCHANGED txs
        /\ \/ Finish(s, "raised") \/ GoOn(s, doc) \/ GoOn(s, aware)
    BY <1>4 DEF ApplyDecayAndExpiry
  <2>2. c.op \in {"log", "apiLog", "redeem", "view", "profile", "apiSubmit"}
    BY <1>1, <2>1 DEF Sound, Fits, AfterDecay
  <2>3. \/ pc = "done" \/ pc = "update"
        \/ pc = "check" /\ c.op = "redeem"
        \/ pc = "learn" /\ c.op = "apiSubmit"
    <3>1. CASE c.op \in {"log", "apiLog", "redeem"}
      BY <3>1 DEF AfterDecay
    <3>2. CASE c.op \in {"view", "profile", "apiSubmit"}
      BY <3>2 DEF AfterDecay
    <3> QED BY <2>2, <3>1, <3>2
  <2>4. users[u].exists /\ doc \in Documents
    BY <1>1, <1>3, <2>1 DEF UserStages
  <2>5. aware \in Documents
    BY <2>4 DEF Documents
  <2>6. \/ Finish(s, "raised") \/ (pc = "done" /\ Finish(s, "done"))
        \/ /\ pc # "done" /\ UNCHANGED events
           /\ \E d \in {doc, aware} : Read(s, d, pc)
    BY <2>1 DEF GoOn
  <2> HIDE DEF pc, aware
  <2>7. req[s].pc \notin Finished /\ req[s].pc # "received"
    BY <2>1 DEF Finished
  <2>8. CASE Finish(s, "raised") \/ Finish(s, "done")
    BY <2>1, <2>7, <2>8, Ending DEF Finished
  <2>9. ASSUME NEW d \in {doc, aware}, Read(s, d, pc), pc # "done", UNCHANGED events
        PROVE  Proceeds(s)
    <3>1. pc \in Stages \ (Finished \cup {"received", "proof"}) /\ pc \in {"update", "check", "learn"}
      BY <2>3, <2>9 DEF Stages, Finished
    <3>2. d \in Documents
      BY <2>4, <2>5
    <3>3. PICK r : Became(s, r, pc, d, mark)
      BY <1>1, <2>9, <3>1, <3>2, Moving
    <3>4. r.call = c /\ r.pc = pc /\ r.doc = d /\ r.mark = mark
      BY <3>3 DEF Became
    <3>5. HoldsUser(r)
      BY <2>4, <3>2, <3>4 DEF HoldsUser
    <3>6. HoldsPlan(r)
      BY <1>1, <2>1, <3>4 DEF HoldsPlan, PlanStages, Sound
    <3>7. Fits(r) /\ Owes(r)
      BY <3>1, <3>4 DEF Fits, Owes
    <3> QED BY <2>1, <2>7, <2>9, <3>1, <3>3, <3>5, <3>6, <3>7, GoingOn
  <2> QED BY <2>6, <2>8, <2>9
<1>5. CASE UpdateBalance(s)
  <2> DEFINE b == Plus(doc.bal, LogGain(c))
             d == [doc EXCEPT !.bal = b]
             wrote == req[s].wrote \cup {"update"}
             pc == IF c.op = "log" THEN "reread" ELSE IF IsPaap(c.what) THEN "paap" ELSE "advance"
             r == [req[s] EXCEPT !.doc = d, !.wrote = wrote, !.pc = pc]
  <2>1. /\ req[s].pc = "update" /\ c.op \in Logs /\ UNCHANGED txs
        /\ \/ Finish(s, "raised")
           \/ /\ UNCHANGED events
              /\ req' = [req EXCEPT ![s].doc.bal = b, ![s].wrote = wrote, ![s].pc = pc]
    BY <1>1, <1>5 DEF UpdateBalance, At, TypeOK, Slots
  <2>2. users[u].exists /\ doc \in Documents /\ doc.bal \in Balances
    BY <1>3, <2>1 DEF UserStages
  <2>3. req[s].pc \notin Finished /\ RewardOf(s) \notin txs
    BY <1>1, <2>1 DEF Finished, Sound, Earns, Submits, Logs
  <2>4. CASE Finish(s, "raised")
    BY <2>1, <2>3, <2>4, Ending DEF Finished
  <2>5. CASE /\ UNCHANGED events
             /\ req' = [req EXCEPT ![s].doc.bal = b, ![s].wrote = wrote, ![s].pc = pc]
    <3>1. b \in Balances
      BY <2>2, GainTypes, BalanceTypes
    <3>2. wrote \in SUBSET Writings
      BY <1>2 DEF Writings
    <3>3. /\ pc \in Stages \ (Finished \cup {"received", "proof"})
          /\ pc \in {"reread", "paap", "advance"} /\ (pc = "paap" => IsPaap(c.what))
      BY DEF Stages, Finished
    <3>4. req' = [req EXCEPT ![s] = r]
      BY <1>1, <2>5 DEF TypeOK, Slots
    <3> HIDE DEF b, wrote, pc
    <3>5. d \in Documents
      BY <2>2, <3>1 DEF Documents, Balances
    <3> HIDE DEF d
    <3>6. r \in Requests /\ r.call = c /\ r.pc = pc /\ r.doc = d /\ r.mark = mark
      BY <1>1, <3>2, <3>3, <3>5 DEF Requests
    <3> HIDE DEF r
    <3>7. Became(s, r, pc, d, mark)
      BY <3>4, <3>6 DEF Became
    <3>8. HoldsUser(r) /\ HoldsPlan(r) /\ Owes(r) /\ Fits(r)
      BY <2>1, <2>2, <3>3, <3>5, <3>6 DEF HoldsUser, HoldsPlan, Submits, Logs, Owes, Fits
    <3> QED BY <2>1, <2>3, <2>5, <3>3, <3>7, <3>8, GoingOn
  <2> QED BY <2>1, <2>4, <2>5
<1>6. CASE ApplyPaap(s)
  <2> DEFINE b == Plus(doc.bal, PaapGain(c.what, NegativeImpact(c.what)))
             d == [doc EXCEPT !.bal = b]
             wrote == req[s].wrote \cup {"paap"}
             r == [req[s] EXCEPT !.doc = d, !.wrote = wrote, !.pc = "advance"]
  <2>1. /\ req[s].pc = "paap" /\ c.op = "apiLog" /\ UNCHANGED <<txs, events>>
        /\ req' = [req EXCEPT ![s].doc.bal = b, ![s].wrote = wrote, ![s].pc = "advance"]
    BY <1>1, <1>6 DEF ApplyPaap, At, TypeOK, Slots
  <2>2. users[u].exists /\ doc \in Documents /\ doc.bal \in Balances /\ IsPaap(c.what)
    BY <1>1, <1>3, <2>1 DEF UserStages, Sound, Fits
  <2>3. b \in Balances
    BY <2>2, GainTypes, BalanceTypes
  <2>4. wrote \in SUBSET Writings
    BY <1>2 DEF Writings
  <2>5. "advance" \in Stages \ (Finished \cup {"received", "proof"})
    BY DEF Stages, Finished
  <2>6. req' = [req EXCEPT ![s] = r]
    BY <1>1, <2>1 DEF TypeOK, Slots
  <2> HIDE DEF b, wrote
  <2>7. d \in Documents
    BY <2>2, <2>3 DEF Documents, Balances
  <2> HIDE DEF d
  <2>8. /\ r \in Requests /\ r.call = c /\ r.pc = "advance" /\ r.doc = d /\ r.mark = mark
    BY <1>1, <2>4, <2>5, <2>7 DEF Requests
  <2> HIDE DEF r
  <2>9. Became(s, r, "advance", d, mark)
    BY <2>6, <2>8 DEF Became
  <2>10. HoldsUser(r) /\ HoldsPlan(r) /\ Fits(r) /\ Owes(r)
    BY <2>2, <2>7, <2>8 DEF HoldsUser, HoldsPlan, PlanStages, Fits, Owes
  <2>11. req[s].pc \notin Finished
    BY <2>1 DEF Finished
  <2> QED BY <2>1, <2>5, <2>9, <2>10, <2>11, GoingOn
<1>7. CASE UpdateAdvancedKarma(s)
  <2>1. /\ req[s].pc = "advance" /\ c.op = "apiLog" /\ UNCHANGED <<txs, events>>
        /\ Wrote(s, "advance", "role")
    BY <1>7 DEF UpdateAdvancedKarma, At
  <2>2. /\ "role" \in Stages \ (Finished \cup {"received", "proof"}) /\ "advance" \in Writings
        /\ req[s].pc \notin Finished
    BY <2>1 DEF Stages, Finished, Writings
  <2>3. PICK r : Became(s, r, "role", doc, mark)
    BY <1>1, <2>1, <2>2, Moving
  <2>4. r.call = c /\ r.pc = "role" /\ r.doc = doc
    BY <2>3 DEF Became
  <2>5. users[u].exists /\ doc \in Documents
    BY <1>3, <2>1 DEF UserStages
  <2>6. HoldsUser(r) /\ HoldsPlan(r) /\ Fits(r) /\ Owes(r)
    BY <2>1, <2>4, <2>5 DEF HoldsUser, HoldsPlan, PlanStages, Fits, Owes
  <2> QED BY <2>1, <2>2, <2>3, <2>6, GoingOn
<1>8. CASE SetRole(s)
  <2>1. /\ req[s].pc = "role" /\ UNCHANGED <<txs, events>> /\ Wrote(s, "role", "transaction")
    BY <1>8 DEF SetRole, At
  <2>2. /\ "transaction" \in Stages \ (Finished \cup {"received", "proof"}) /\ "role" \in Writings
        /\ req[s].pc \notin Finished
    BY <2>1 DEF Stages, Finished, Writings
  <2>3. PICK r : Became(s, r, "transaction", doc, mark)
    BY <1>1, <2>1, <2>2, Moving
  <2>4. r.call = c /\ r.pc = "transaction" /\ r.mark = mark
    BY <2>3 DEF Became
  <2>5. HoldsUser(r) /\ HoldsPlan(r) /\ Owes(r)
    BY <2>4 DEF HoldsUser, UserStages, HoldsPlan, PlanStages, Owes
  <2>6. Fits(r)
    BY <1>1, <2>1, <2>4 DEF Fits, Sound
  <2> QED BY <2>1, <2>2, <2>3, <2>5, <2>6, GoingOn
<1>9. CASE Redeem(s)
  <2>1. /\ req[s].pc = "check" /\ c.op = "redeem" /\ UNCHANGED txs
        /\ \/ Wrote(s, "redeem", "transaction") /\ UNCHANGED events
           \/ Finish(s, "rejected")
    BY <1>9 DEF Redeem, At
  <2>2. /\ "transaction" \in Stages \ (Finished \cup {"received", "proof"})
        /\ "redeem" \in Writings /\ req[s].pc \notin Finished /\ req[s].pc # "received"
    BY <2>1 DEF Stages, Finished, Writings
  <2>3. CASE Finish(s, "rejected")
    BY <2>1, <2>2, <2>3, Ending DEF Finished
  <2>4. CASE Wrote(s, "redeem", "transaction") /\ UNCHANGED events
    <3>1. PICK r : Became(s, r, "transaction", doc, mark)
      BY <1>1, <2>2, <2>4, Moving
    <3>2. r.call = c /\ r.pc = "transaction"
      BY <3>1 DEF Became
    <3>3. HoldsUser(r) /\ HoldsPlan(r) /\ Fits(r) /\ Owes(r)
      BY <2>1, <3>2 DEF HoldsUser, UserStages, HoldsPlan, PlanStages, Fits, Owes
    <3> QED BY <2>1, <2>2, <2>4, <3>1, <3>3, GoingOn
  <2> QED BY <2>1, <2>3, <2>4
<1>10. CASE UpdatePrarabdha(s)
  <2> DEFINE wrote == req[s].wrote \cup {"set"}
             q == [req[s] EXCEPT !.wrote = wrote, !.pc = "done"]
  <2>1. /\ req[s].pc = "set" /\ c.op = "prarabdha" /\ UNCHANGED <<txs, events>>
        /\ req' = [req EXCEPT ![s].wrote = wrote, ![s].pc = "done"]
    BY <1>1, <1>10 DEF UpdatePrarabdha, At, TypeOK, Slots
  <2>2. wrote \in SUBSET Writings
    BY <1>2 DEF Writings
  <2>11. req' = [req EXCEPT ![s] = q]
    BY <1>1, <2>1 DEF TypeOK, Slots
  <2> HIDE DEF wrote
  <2>12. /\ q \in Requests /\ q.call = c /\ q.pc = "done" /\ q.mark = mark
    BY <1>1, <2>2 DEF Requests, Stages, Finished
  <2> HIDE DEF q
  <2>3. PICK r : r = q
    OBVIOUS
  <2>4. /\ r \in Requests /\ r.call = c /\ r.pc = "done" /\ r.mark = mark
        /\ req' = [req EXCEPT ![s] = r]
    BY <2>3, <2>11, <2>12
  <2>5. c.via \notin {"gateway", "api"}
    BY <1>2, <2>1 DEF GatewayOps, ApiOps
  <2>6. Audited(s, r)'
    BY <2>4, <2>5 DEF Audited, Finished
  <2>7. HoldsUser(r) /\ HoldsPlan(r) /\ Fits(r) /\ Owes(r)
    BY <2>4 DEF HoldsUser, UserStages, HoldsPlan, PlanStages, Fits, Owes
  <2>8. RewardOf(s) \notin txs'
    BY <1>1, <2>1 DEF Sound, Earns, Submits
  <2>9. Steady(s, r)
    BY <2>4, <2>6, <2>7, <2>8 DEF Steady
  <2>10. ReqMove(s, r)
    BY <2>4 DEF ReqMove
  <2> QED BY <2>9, <2>10 DEF Proceeds
<1> QED BY <1>4, <1>5, <1>6, <1>7, <1>8, <1>9, <1>10

(* The steps that log a transaction, for an action or for a reward.         *)
LEMMA TransactionSteps ==
  ASSUME KarmaInv, NEW s \in Slots, LogTransaction(s) \/ TransactionFails(s)
  PROVE  Proceeds(s)
<1> DEFINE c == req[s].call
           doc == req[s].doc
           mark == req[s].mark
<1>1. TypeOK /\ Sound(s, req[s])
  BY DEF KarmaInv
<1>2. /\ c \in Calls /\ (c.via = "api" <=> c.op \in ApiOps)
  BY <1>1, SlotTypes, CallTypes
<1>3. /\ req[s].pc = "transaction" /\ req[s].pc \notin Finished
      /\ "debt" \in Stages \ (Finished \cup {"received", "proof"})
      /\ "noTx" \in Writings /\ "done" \in Stages
  BY DEF LogTransaction, TransactionFails, At, Finished, Stages, Writings
<1>4. RewardOf(s) \in txs' => RewardOf(s) \in txs
  BY DEF LogTransaction, TransactionFails, RewardOf
<1>5. ASSUME NEW r, Became(s, r, "debt", doc, mark), OwesForCheat(c), UNCHANGED events
      PROVE  Proceeds(s)
  <2>1. r.call = c /\ r.pc = "debt" /\ r.mark = mark /\ c.op = "log"
    BY <1>5 DEF Became, OwesForCheat, IsCheat
  <2>2. HoldsUser(r) /\ HoldsPlan(r) /\ Owes(r)
    BY <2>1 DEF HoldsUser, UserStages, HoldsPlan, PlanStages, Owes
  <2>3. Fits(r)
    BY <1>1, <1>3, <1>5, <2>1 DEF Fits, Sound
  <2> QED BY <1>3, <1>4, <1>5, <2>2, <2>3, GoingOn
<1>6. CASE LogTransaction(s)
  <2>1. CASE OwesForCheat(c)
    <3>1. Goto(s, "debt") /\ UNCHANGED events
      BY <1>6, <2>1 DEF LogTransaction, AfterTransaction
    <3>2. \E r : Became(s, r, "debt", doc, mark)
      BY <1>1, <1>3, <3>1, Moving
    <3> QED BY <1>5, <2>1, <3>1, <3>2
  <2>2. CASE ~OwesForCheat(c)
    <3>1. Finish(s, "done")
      BY <1>6, <2>2 DEF LogTransaction, AfterTransaction
    <3> QED BY <1>3, <1>4, <3>1, Ending DEF Finished
  <2> QED BY <2>1, <2>2
<1>7. CASE TransactionFails(s)
  <2>1. CASE OwesForCheat(c)
    <3>1. Wrote(s, "noTx", "debt") /\ UNCHANGED events
      BY <1>7, <2>1 DEF TransactionFails
    <3>2. \E r : Became(s, r, "debt", doc, mark)
      BY <1>1, <1>3, <3>1, Moving
    <3> QED BY <1>5, <2>1, <3>1, <3>2
  <2>2. CASE ~OwesForCheat(c)
    <3>1. /\ Wrote(s, "noTx", "done") /\ c.op = "log"
          /\ events' = IF c.via = "gateway"
                         THEN [events EXCEPT ![s] = Append(events[s], "processed")]
                         ELSE events
      BY <1>7, <2>2 DEF TransactionFails, At
    <3>2. PICK r : Became(s, r, "done", doc, mark)
      BY <1>1, <1>3, <3>1, Moving
    <3>3. r.call = c /\ r.pc = "done" /\ c.via # "api"
      BY <1>2, <3>1, <3>2 DEF Became, ApiOps
    <3>4. c.via = "gateway" => events'[s] = <<"processed">>
      <4>1. SUFFICES ASSUME c.via = "gateway" PROVE events'[s] = <<"processed">>
        OBVIOUS
      <4>2. events[s] = <<>>
        BY <1>1, <1>3, <4>1 DEF Sound, Audited
      <4>3. events \in Seq(Seq(Statuses)) /\ s \in DOMAIN events
        BY <1>1 DEF TypeOK, Statuses, Slots
      <4> QED BY <3>1, <4>1, <4>2, <4>3
    <3>5. Audited(s, r)'
      BY <3>3, <3>4 DEF Audited, Finished
    <3>6. HoldsUser(r) /\ HoldsPlan(r) /\ Fits(r) /\ Owes(r)
      BY <3>3 DEF HoldsUser, UserStages, HoldsPlan, PlanStages, Fits, Owes
    <3>7. RewardOf(s) \in txs' => r.call.op \in Submits
      BY <1>1, <1>4, <3>3 DEF Sound, Earns
    <3>8. Steady(s, r)
      BY <3>3, <3>5, <3>6, <3>7 DEF Steady
    <3>9. ReqMove(s, r)
      BY <3>2 DEF ReqMove, Became
    <3> QED BY <3>8, <3>9 DEF Proceeds
  <2> QED BY <2>1, <2>2
<1> QED BY <1>6, <1>7

(* The steps of a plan: it is named, proved, rewarded and completed.        *)
LEMMA PlanRequests ==
  ASSUME KarmaInv, NEW s \in Slots, PlanStep(s)
  PROVE  Proceeds(s)
<1> DEFINE c == req[s].call
           doc == req[s].doc
           mark == req[s].mark
<1>1. TypeOK /\ Sound(s, req[s]) /\ req[s] \in Requests /\ mark \in Nat
  BY SlotTypes DEF KarmaInv
<1>2. /\ c \in Calls /\ (c.via = "api" <=> c.op \in ApiOps) /\ c.user \in Users
  BY <1>1, SlotTypes, CallTypes
<1>3. req[s].pc \in UserStages => users[c.user].exists /\ doc \in Documents
  BY <1>1 DEF Sound, HoldsUser
<1>4. c.op \in Submits /\ req[s].pc \in PlanStages => mark \in DOMAIN plans
  BY <1>1 DEF Sound, HoldsPlan
(* what follows a proof, or the completion of a plan                        *)
<1>5. ASSUME AfterProof(s), c.op \in Submits, req[s].pc \in {"readPlan", "complete"},
             UNCHANGED txs
      PROVE  Proceeds(s)
  <2>1. req[s].pc \notin Finished /\ req[s].pc # "received"
    BY <1>5 DEF Finished
  <2>2. CASE Finish(s, "done")
    BY <1>5, <2>1, <2>2, Ending DEF Finished
  <2>3. CASE Goto(s, "read") /\ UNCHANGED events
    <3>1. "read" \in Stages \ (Finished \cup {"received", "proof"})
      BY DEF Stages, Finished
    <3>2. PICK r : Became(s, r, "read", doc, mark)
      BY <1>1, <2>3, <3>1, Moving
    <3>3. r.call = c /\ r.pc = "read" /\ r.mark = mark
      BY <3>2 DEF Became
    <3>4. mark \in DOMAIN plans
      BY <1>4, <1>5 DEF PlanStages
    <3>5. HoldsUser(r) /\ HoldsPlan(r) /\ Fits(r) /\ Owes(r)
      BY <3>3, <3>4 DEF HoldsUser, UserStages, HoldsPlan, Fits, Owes
    <3> QED BY <1>5, <2>1, <2>3, <3>1, <3>2, <3>5, GoingOn
  <2> QED BY <1>5, <2>2, <2>3 DEF AfterProof
<1>6. CASE CountPlans(s)
  <2> DEFINE n == Cardinality(PlansOf(c.user))
             r == [req[s] EXCEPT !.mark = n, !.pc = "insertPlan"]
  <2>1. /\ req[s].pc = "count" /\ c.op = "appeal" /\ UNCHANGED txs
        /\ \/ /\ IsPaap(c.what) /\ UNCHANGED events
              /\ req' = [req EXCEPT ![s].mark = n, ![s].pc = "insertPlan"]
           \/ Finish(s, "rejected")
    BY <1>6 DEF CountPlans, At
  <2>2. req[s].pc \notin Finished /\ req[s].pc # "received"
    BY <2>1 DEF Finished
  <2>3. CASE Finish(s, "rejected")
    BY <2>1, <2>2, <2>3, Ending DEF Finished
  <2>4. CASE /\ IsPaap(c.what) /\ UNCHANGED events
             /\ req' = [req EXCEPT ![s].mark = n, ![s].pc = "insertPlan"]
    <3>1. n \in Nat
      <4>1. PlansOf(c.user) \subseteq 1 .. Len(plans) /\ Len(plans) \in Nat
        BY <1>1 DEF PlansOf, TypeOK
      <4>2. IsFiniteSet(1 .. Len(plans))
        BY <4>1, FS_Interval
      <4>3. IsFiniteSet(PlansOf(c.user))
        BY <4>1, <4>2, FS_Subset
      <4> QED BY <4>3, FS_CardinalityType
    <3>2. req' = [req EXCEPT ![s] = r]
      BY <1>1, <2>4 DEF TypeOK, Slots
    <3> HIDE DEF n
    <3>3. "insertPlan" \in Stages \ (Finished \cup {"received", "proof"})
      BY DEF Stages, Finished
    <3>4. /\ r \in Requests /\ r.call = c /\ r.pc = "insertPlan" /\ r.doc = doc /\ r.mark = n
      BY <1>1, <3>1, <3>3 DEF Requests
    <3> HIDE DEF r
    <3>5. Became(s, r, "insertPlan", doc, n)
      BY <3>2, <3>4 DEF Became
    <3>6. users[c.user].exists /\ doc \in Documents
      BY <1>3, <2>1 DEF UserStages
    <3>7. HoldsUser(r) /\ HoldsPlan(r) /\ Fits(r) /\ Owes(r)
      BY <2>4, <3>4, <3>6 DEF HoldsUser, HoldsPlan, PlanStages, Fits, Owes
    <3>8. RewardOf(s) \notin txs
      BY <1>1, <2>1 DEF Sound, Earns, Submits
    <3> QED BY <2>1, <2>2, <2>4, <3>3, <3>5, <3>7, <3>8, GoingOn
  <2> QED BY <2>1, <2>3, <2>4
<1>7. CASE InsertPlan(s)
  <2>1. /\ req[s].pc = "insertPlan" /\ UNCHANGED txs /\ Finish(s, "done")
    BY <1>7 DEF InsertPlan, At
  <2>2. req[s].pc \notin Finished /\ req[s].pc # "received"
    BY <2>1 DEF Finished
  <2> QED BY <2>1, <2>2, Ending DEF Finished
<1>8. CASE SubmitProof(s)
  <2> DEFINE n == Found(c.id)
             r == [req[s] EXCEPT !.mark = n, !.pc = "readPlan"]
  <2>1. /\ \/ req[s].pc = "received" /\ c.op = "submit"
           \/ req[s].pc = "proof" /\ c.op = "apiSubmit"
        /\ UNCHANGED txs
    BY <1>8 DEF SubmitProof, At
  <2>2. req[s].pc \notin Finished /\ (req[s].pc # "received" \/ c.via # "api")
    BY <1>2, <2>1 DEF Finished, ApiOps
  <2>3. CASE Finish(s, "rejected")
    BY <2>1, <2>2, <2>3, Ending DEF Finished
  <2>4. CASE Named(c.id) # {} /\ ~Finish(s, "rejected")
    <3>1. /\ UNCHANGED events /\ req' = [req EXCEPT ![s].mark = n, ![s].pc = "readPlan"]
          /\ n \in DOMAIN plans
      BY <1>1, <1>8, <2>4, FoundTypes DEF SubmitProof
    <3>2. n \in Nat
      BY <1>1, <3>1 DEF TypeOK
    <3>3. req' = [req EXCEPT ![s] = r]
      BY <1>1, <3>1 DEF TypeOK, Slots
    <3> HIDE DEF n
    <3>4. "readPlan" \in Stages \ (Finished \cup {"received", "proof"})
      BY DEF Stages, Finished
    <3>5. /\ r \in Requests /\ r.call = c /\ r.pc = "readPlan" /\ r.doc = doc /\ r.mark = n
      BY <1>1, <3>2, <3>4 DEF Requests
    <3> HIDE DEF r
    <3>6. Became(s, r, "readPlan", doc, n)
      BY <3>3, <3>5 DEF Became
    <3>7. HoldsUser(r) /\ HoldsPlan(r) /\ Fits(r) /\ Owes(r)
      BY <3>1, <3>5 DEF HoldsUser, UserStages, HoldsPlan, Fits, Owes
    <3>8. RewardOf(s) \notin txs
      BY <1>1, <2>1 DEF Sound, Earns
    <3> QED BY <2>1, <2>2, <3>1, <3>4, <3>6, <3>7, <3>8, GoingOn
  <2> QED BY <1>8, <2>3, <2>4 DEF SubmitProof
<1>9. CASE ReadPlan(s)
  <2>1. req[s].pc = "readPlan" /\ c.op \in Submits /\ UNCHANGED txs
    BY <1>9 DEF ReadPlan, At
  <2>2. CASE PlanComplete(plans[mark].progress)
    <3>1. Goto(s, "award") /\ UNCHANGED events
      BY <1>9, <2>2 DEF ReadPlan
    <3>2. "award" \in Stages \ (Finished \cup {"received", "proof"}) /\ req[s].pc \notin Finished
      BY <2>1 DEF Stages, Finished
    <3>3. PICK r : Became(s, r, "award", doc, mark)
      BY <1>1, <3>1, <3>2, Moving
    <3>4. r.call = c /\ r.pc = "award" /\ r.mark = mark /\ mark \in DOMAIN plans
      BY <1>4, <2>1, <3>3 DEF Became, PlanStages
    <3>5. HoldsUser(r) /\ HoldsPlan(r) /\ Fits(r) /\ Owes(r)
      BY <3>4 DEF HoldsUser, UserStages, HoldsPlan, Fits, Owes
    <3>6. Earned(mark)
      BY <2>2 DEF Earned
    <3> QED BY <2>1, <3>1, <3>2, <3>3, <3>5, <3>6, GoingOn
  <2>3. CASE ~PlanComplete(plans[mark].progress)
    BY <1>5, <1>9, <2>1, <2>3 DEF ReadPlan
  <2> QED BY <2>2, <2>3
<1>10. CASE AwardAtonement(s)
  <2>1. /\ req[s].pc = "award" /\ c.op \in Submits /\ UNCHANGED <<txs, events>>
        /\ Wrote(s, "award", "rewardTx")
    BY <1>10 DEF AwardAtonement, At
  <2>2. /\ "rewardTx" \in Stages \ (Finished \cup {"received", "proof"}) /\ "award" \in Writings
        /\ req[s].pc \notin Finished
    BY <2>1 DEF Stages, Finished, Writings
  <2>3. PICK r : Became(s, r, "rewardTx", doc, mark)
    BY <1>1, <2>1, <2>2, Moving
  <2>4. r.call = c /\ r.pc = "rewardTx" /\ r.mark = mark /\ mark \in DOMAIN plans
    BY <1>4, <2>1, <2>3 DEF Became, PlanStages
  <2>5. HoldsUser(r) /\ HoldsPlan(r) /\ Fits(r) /\ Owes(r)
    BY <2>4 DEF HoldsUser, UserStages, HoldsPlan, Fits, Owes
  <2>6. Earned(mark)
    BY <1>1, <2>1 DEF Sound, Earns
  <2> QED BY <2>1, <2>2, <2>3, <2>5, <2>6, GoingOn
<1>11. CASE RewardTransaction(s)
  <2>1. /\ req[s].pc = "rewardTx" /\ c.op \in Submits /\ UNCHANGED events
        /\ Goto(s, "complete") /\ txs' = txs \cup {RewardOf(s)}
    BY <1>11 DEF RewardTransaction, At, RewardOf
  <2>2. /\ "complete" \in Stages \ (Finished \cup {"received", "proof"})
        /\ req[s].pc \notin Finished
    BY <2>1 DEF Stages, Finished
  <2>3. PICK r : Became(s, r, "complete", doc, mark)
    BY <1>1, <2>1, <2>2, Moving
  <2>4. r.call = c /\ r.pc = "complete" /\ r.mark = mark /\ mark \in DOMAIN plans
    BY <1>4, <2>1, <2>3 DEF Became, PlanStages
  <2>5. HoldsUser(r) /\ HoldsPlan(r) /\ Fits(r) /\ Owes(r)
    BY <2>4 DEF HoldsUser, UserStages, HoldsPlan, Fits, Owes
  <2>6. Earned(mark) /\ RewardOf(s) \in txs'
    BY <1>1, <2>1 DEF Sound, Earns
  <2> QED BY <2>1, <2>2, <2>3, <2>5, <2>6, GoingOn
<1>12. CASE CompletePlan(s)
  <2>1. req[s].pc = "complete" /\ c.op \in Submits /\ UNCHANGED txs /\ AfterProof(s)
    BY <1>12 DEF CompletePlan, At
  <2> QED BY <1>5, <2>1
<1>13. CASE LearnAtonement(s)
  <2>1. /\ req[s].pc = "learn" /\ c.op = "apiSubmit" /\ UNCHANGED <<txs, events>>
        /\ Wrote(s, "learn", "reduce")
    BY <1>13 DEF LearnAtonement, At
  <2>2. /\ "reduce" \in Stages \ (Finished \cup {"received", "proof"}) /\ "learn" \in Writings
        /\ req[s].pc \notin Finished
    BY <2>1 DEF Stages, Finished, Writings
  <2>3. PICK r : Became(s, r, "reduce", doc, mark)
    BY <1>1, <2>1, <2>2, Moving
  <2>4. /\ r.call = c /\ r.pc = "reduce" /\ r.mark = mark /\ mark \in DOMAIN plans /\ r.doc = doc
        /\ users[c.user].exists /\ doc \in Documents
    BY <1>3, <1>4, <2>1, <2>3 DEF Became, PlanStages, UserStages, Submits
  <2>5. HoldsUser(r) /\ HoldsPlan(r) /\ Fits(r) /\ Owes(r)
    BY <2>4 DEF HoldsUser, HoldsPlan, Fits, Owes
  <2> QED BY <2>1, <2>2, <2>3, <2>5, GoingOn
<1>14. CASE ReducePaap(s)
  <2>1. /\ req[s].pc = "reduce" /\ c.op = "apiSubmit" /\ UNCHANGED <<txs, events>>
        /\ Wrote(s, "reduce", "reread")
    BY <1>14 DEF ReducePaap, At
  <2>2. /\ "reread" \in Stages \ (Finished \cup {"received", "proof"}) /\ "reduce" \in Writings
        /\ req[s].pc \notin Finished
    BY <2>1 DEF Stages, Finished, Writings
  <2>3. PICK r : Became(s, r, "reread", doc, mark)
    BY <1>1, <2>1, <2>2, Moving
  <2>4. /\ r.call = c /\ r.pc = "reread" /\ r.doc = doc
        /\ users[c.user].exists /\ doc \in Documents
    BY <1>3, <2>1, <2>3 DEF Became, UserStages
  <2>5. HoldsUser(r) /\ HoldsPlan(r) /\ Fits(r) /\ Owes(r)
    BY <2>1, <2>4 DEF HoldsUser, HoldsPlan, PlanStages, Fits, Owes
  <2> QED BY <2>1, <2>2, <2>3, <2>5, GoingOn
<1> QED
  BY <1>6, <1>7, <1>8, <1>9, <1>10, <1>11, <1>12, <1>13, <1>14 DEF PlanStep

(* The steps of a debt: it is created, repaid and transferred.              *)
LEMMA DebtRequests ==
  ASSUME KarmaInv, NEW s \in Slots, DebtStep(s)
  PROVE  Proceeds(s)
<1> DEFINE c == req[s].call
           doc == req[s].doc
           mark == req[s].mark
<1>1. TypeOK /\ Sound(s, req[s])
  BY DEF KarmaInv
<1>2. /\ c \in Calls /\ (c.via = "api" <=> c.op \in ApiOps)
  BY <1>1, SlotTypes, CallTypes
<1>3. CASE CreateDebt(s) \/ DebtOfCheat(s) \/ RepayDebt(s) \/ MarkTransferred(s)
  <2>1. /\ UNCHANGED txs /\ req[s].pc \in {"received", "debt", "repay", "markTransferred"}
        /\ c.op \in {"createDebt", "log", "repay", "transfer"}
        /\ Finish(s, "done") \/ Finish(s, "rejected")
    BY <1>3 DEF CreateDebt, DebtOfCheat, RepayDebt, MarkTransferred, At
  <2>2. req[s].pc \notin Finished /\ c.via # "api"
    BY <1>2, <2>1 DEF Finished, ApiOps
  <2> QED BY <2>1, <2>2, Ending DEF Finished
<1>4. CASE ReadDebt(s)
  <2>1. req[s].pc = "received" /\ c.op \in {"repay", "transfer"} /\ UNCHANGED txs
    BY <1>4 DEF ReadDebt, At, DebtOps
  <2>2. req[s].pc \notin Finished /\ c.via # "api"
    BY <1>2, <2>1 DEF Finished, ApiOps
  <2>3. CASE Finish(s, "rejected")
    BY <2>1, <2>2, <2>3, Ending DEF Finished
  <2>4. CASE ~Finish(s, "rejected")
    <3> DEFINE d == debts[c.id]
               pc == c.op
    <3>1. /\ Read(s, d, pc) /\ UNCHANGED events /\ c.id \in DOMAIN debts
          /\ c.op = "repay" => c.n > 0
      BY <1>4, <2>4 DEF ReadDebt, Payable
    <3>2. d \in Debts /\ Honest(d)
      BY <1>1, <3>1 DEF TypeOK, KarmaInv, DebtsAreHonoured, Honest
    <3>3. d.paid \in Nat /\ d.paid <= d.paid
      BY <3>2 DEF Debts
    <3>4. pc \in Stages \ (Finished \cup {"received", "proof"}) /\ pc \in {"repay", "transfer"}
      BY <2>1 DEF Stages, Finished
    <3> HIDE DEF d, pc
    <3>5. PICK r : Became(s, r, pc, d, mark)
      BY <1>1, <3>1, <3>2, <3>4, Moving
    <3>6. r.call = c /\ r.pc = pc /\ r.doc = d
      BY <3>5 DEF Became
    <3>7. HoldsUser(r) /\ HoldsPlan(r) /\ Fits(r)
      BY <3>4, <3>6 DEF HoldsUser, UserStages, HoldsPlan, PlanStages, Fits
    <3>8. Owes(r)
      BY <3>1, <3>2, <3>3, <3>4, <3>6 DEF Owes, d, pc
    <3> QED BY <2>1, <2>2, <3>1, <3>4, <3>5, <3>7, <3>8, GoingOn
  <2> QED BY <2>3, <2>4
<1>5. CASE InsertTransferred(s)
  <2>1. /\ req[s].pc = "transfer" /\ UNCHANGED <<txs, events>> /\ Goto(s, "markTransferred")
    BY <1>5 DEF InsertTransferred, At
  <2>2. /\ "markTransferred" \in Stages \ (Finished \cup {"received", "proof"})
        /\ req[s].pc \notin Finished
    BY <2>1 DEF Stages, Finished
  <2>3. PICK r : Became(s, r, "markTransferred", doc, mark)
    BY <1>1, <2>1, <2>2, Moving
  <2>4. r.call = c /\ r.pc = "markTransferred" /\ c.id \in DOMAIN debts
    BY <1>1, <2>1, <2>3 DEF Became, Sound, Owes
  <2>5. HoldsUser(r) /\ HoldsPlan(r) /\ Fits(r) /\ Owes(r)
    BY <2>4 DEF HoldsUser, UserStages, HoldsPlan, PlanStages, Fits, Owes
  <2> QED BY <2>1, <2>2, <2>3, <2>5, GoingOn
<1> QED BY <1>3, <1>4, <1>5 DEF DebtStep

(* The steps of a death and of a rebirth.                                   *)
LEMMA LifeRequests ==
  ASSUME KarmaInv, NEW s \in Slots,
         CheckThreshold(s) \/ InsertDeath(s) \/ InsertReborn(s) \/ MarkDeceased(s)
  PROVE  Proceeds(s)
<1> DEFINE c == req[s].call
           u == c.user
           doc == req[s].doc
           mark == req[s].mark
<1>1. TypeOK /\ Sound(s, req[s]) /\ req[s] \in Requests
  BY SlotTypes DEF KarmaInv
<1>2. /\ c \in Calls /\ (c.via = "api" <=> c.op \in ApiOps) /\ u \in Users
      /\ DOMAIN c = {"op", "via", "user", "other", "what", "id", "n"}
  BY <1>1, SlotTypes, CallTypes
<1>3. CASE CheckThreshold(s)
  <2>1. req[s].pc = "received" /\ c.op = "death" /\ c.via = "gateway" /\ UNCHANGED txs
    BY <1>3 DEF CheckThreshold, At
  <2>2. req[s].pc \notin Finished
    BY <2>1 DEF Finished
  <2>3. CASE Finish(s, "rejected")
    BY <2>1, <2>2, <2>3, Ending DEF Finished
  <2>4. CASE ~Finish(s, "rejected")
    <3> DEFINE call == IF users[u].bal["PrarabdhaKarma"] <= DeathThreshold
                       THEN [c EXCEPT !.op = "process"] ELSE c
               q == [req[s] EXCEPT !.pc = "readDeath", !.call = call]
    <3>1. UNCHANGED events /\ req' = [req EXCEPT ![s] = q]
      BY <1>1, <1>3, <2>4 DEF CheckThreshold, TypeOK, Slots
    <3>2. [c EXCEPT !.op = "process"] \in Calls
      BY <1>2, <2>1, DeathCalls
    <3>3. /\ call \in Calls /\ call.via = c.via /\ call.op \in DeathOps /\ call.id = c.id
          /\ call.n = c.n
      BY <1>2, <2>1, <3>2 DEF DeathOps
    <3> HIDE DEF call
    <3>11. /\ q \in Requests /\ q.call = call /\ q.pc = "readDeath" /\ q.mark = mark
      BY <1>1, <3>3 DEF Requests, Stages
    <3> HIDE DEF q
    <3>12. PICK r : r = q
      OBVIOUS
    <3>4. /\ r \in Requests /\ r.call = call /\ r.pc = "readDeath" /\ r.mark = mark
          /\ req' = [req EXCEPT ![s] = r]
      BY <3>1, <3>11, <3>12
    <3>5. r.call.via = req[s].call.via /\ r.pc \notin Finished \cup {"received"}
          /\ req[s].call.via # "api"
      BY <2>1, <3>3, <3>4 DEF Finished
    <3>6. Audited(s, r)'
      BY <2>2, <3>1, <3>5, StillOpen
    <3>7. HoldsUser(r) /\ HoldsPlan(r) /\ Fits(r) /\ Owes(r)
      BY <3>4 DEF HoldsUser, UserStages, HoldsPlan, PlanStages, Fits, Owes
    <3>8. RewardOf(s) \notin txs'
      BY <1>1, <2>1 DEF Sound, Earns
    <3>9. Steady(s, r)
      BY <3>4, <3>6, <3>7, <3>8 DEF Steady
    <3>10. ReqMove(s, r)
      BY <2>1, <3>3, <3>4, <3>8 DEF ReqMove, DeathOps, Submits
    <3> QED BY <3>9, <3>10 DEF Proceeds
  <2> QED BY <2>3, <2>4
<1>4. CASE InsertDeath(s) \/ MarkDeceased(s)
  <2>1. /\ req[s].pc \in {"insertDeath", "markDeceased"} /\ UNCHANGED txs /\ Finish(s, "done")
    BY <1>4 DEF InsertDeath, MarkDeceased, At
  <2>2. req[s].pc \notin Finished /\ req[s].pc # "received"
    BY <2>1 DEF Finished
  <2> QED BY <2>1, <2>2, Ending DEF Finished
<1>5. CASE InsertReborn(s)
  <2>1. /\ req[s].pc = "insert" /\ UNCHANGED <<txs, events>> /\ Goto(s, "markDeceased")
    BY <1>5 DEF InsertReborn, At
  <2>2. /\ "markDeceased" \in Stages \ (Finished \cup {"received", "proof"})
        /\ req[s].pc \notin Finished
    BY <2>1 DEF Stages, Finished
  <2>3. PICK r : Became(s, r, "markDeceased", doc, mark)
    BY <1>1, <2>1, <2>2, Moving
  <2>4. r.call = c /\ r.pc = "markDeceased" /\ r.doc = doc
    BY <2>3 DEF Became
  <2>5. users[u].exists /\ doc \in Documents
    BY <1>1, <2>1 DEF Sound, HoldsUser, UserStages
  <2>6. HoldsUser(r) /\ HoldsPlan(r) /\ Fits(r) /\ Owes(r)
    BY <2>4, <2>5 DEF HoldsUser, HoldsPlan, PlanStages, Fits, Owes
  <2>7. PICK new \in Users : users' = [users EXCEPT ![new] = RebornDoc(u, doc)]
    BY <1>5 DEF InsertReborn
  <2>8. RebornDoc(u, doc).exists /\ RebornDoc(u, doc).prev = u
    <3>1. RebornDoc(u, doc) \in Documents /\ RebornDoc(u, doc).prev = u
      BY <1>1, <1>2, <2>5, RebornTypes
    <3>2. \A d \in Documents : d.exists
      BY DEF Documents
    <3> QED BY <3>1, <3>2
  <2>9. users'[new] = RebornDoc(u, doc)
    BY <1>1, <2>7 DEF TypeOK
  <2>10. ASSUME NEW v, v = u PROVE GoesOn(v)'
    BY <2>8, <2>9, <2>10 DEF GoesOn
  <2> QED BY <2>1, <2>2, <2>3, <2>6, <2>10, GoingOn
<1> QED BY <1>3, <1>4, <1>5

-----------------------------------------------------------------------------
(* What the steps do to the records of the server.                          *)
(* A step writes no audit record but that of its own request.               *)
LEMMA EventsSteps ==
  ASSUME KarmaInv, NEW s \in Slots, Step(s)
  PROVE  \E e \in Seq(Statuses) : events' = [events EXCEPT ![s] = e]
<1> DEFINE Recorded == \E e \in Seq(Statuses) : events' = [events EXCEPT ![s] = e]
<1>1. events \in Seq(Seq(Statuses)) /\ s \in DOMAIN events
  BY DEF KarmaInv, TypeOK, Statuses, Slots
<1>2. events[s] \in Seq(Statuses)
  BY <1>1
<1>3. ASSUME UNCHANGED events PROVE Recorded
  <2>1. events' = [events EXCEPT ![s] = events[s]]
    BY <1>1, <1>3
  <2> QED BY <1>2, <2>1
<1>4. /\ \A e \in Statuses : <<e>> \in Seq(Statuses) /\ Append(events[s], e) \in Seq(Statuses)
      /\ {"processing", "completed", "failed", "processed"} \subseteq Statuses
  BY <1>2 DEF Statuses
<1>5. ASSUME NEW how, Finish(s, how) PROVE Recorded
  <2> DEFINE last == IF how = "done" THEN "processed" ELSE "failed"
             only == IF how = "done" THEN "completed" ELSE "failed"
  <2>1. /\ Append(events[s], last) \in Seq(Statuses) /\ <<only>> \in Seq(Statuses)
    BY <1>4
  <2>2. \/ events' = [events EXCEPT ![s] = Append(events[s], last)]
        \/ UNCHANGED events
        \/ events' = [events EXCEPT ![s] = <<only>>]
    BY <1>5 DEF Finish
  <2> HIDE DEF last, only
  <2> QED BY <1>3, <2>1, <2>2
<1> HIDE DEF Recorded
<1>6. ASSUME RecordRequest(s) \/ UnknownEvent(s) \/ TransactionFails(s) PROVE Recorded
  <2>1. /\ <<"processing">> \in Seq(Statuses) /\ Append(events[s], "processed") \in Seq(Statuses)
        /\ events[s] \o <<"failed", "failed">> \in Seq(Statuses)
    BY <1>2, <1>4
  <2>2. \/ events' = [events EXCEPT ![s] = <<"processing">>]
        \/ events' = [events EXCEPT ![s] = events[s] \o <<"failed", "failed">>]
        \/ events' = [events EXCEPT ![s] = Append(events[s], "processed")]
        \/ UNCHANGED events
    BY <1>6 DEF RecordRequest, UnknownEvent, TransactionFails
  <2> QED BY <1>3, <2>1, <2>2 DEF Recorded
<1>7. ASSUME ReadUser(s) \/ ApplyDecayAndExpiry(s) \/ Redeem(s) \/ UpdatePrarabdha(s) \/ Fail(s)
      PROVE  Recorded
  <2>1. UNCHANGED events \/ \E how : Finish(s, how)
    BY <1>7 DEF ReadUser, ApplyDecayAndExpiry, GoOn, Redeem, UpdatePrarabdha, Fail
  <2> QED BY <1>3, <1>5, <2>1
<1>8. ASSUME \/ CheckAgain(s) \/ InsertUser(s) \/ UpdateBalance(s) \/ ApplyPaap(s)
             \/ UpdateAdvancedKarma(s) \/ Reread(s) \/ SetRole(s) \/ LogTransaction(s)
      PROVE  Recorded
  <2>1. UNCHANGED events \/ \E how : Finish(s, how)
    BY <1>8 DEF CheckAgain, InsertUser, UpdateBalance, ApplyPaap, UpdateAdvancedKarma, Reread,
                SetRole, LogTransaction, AfterTransaction
  <2> QED BY <1>3, <1>5, <2>1
<1>9. ASSUME PlanStep(s) PROVE Recorded
  <2>1. UNCHANGED events \/ \E how : Finish(s, how)
    BY <1>9 DEF PlanStep, CountPlans, InsertPlan, SubmitProof, ReadPlan, AwardAtonement,
                RewardTransaction, CompletePlan, LearnAtonement, ReducePaap, AfterProof
  <2> QED BY <1>3, <1>5, <2>1
<1>10. ASSUME DebtStep(s) PROVE Recorded
  <2>1. UNCHANGED events \/ \E how : Finish(s, how)
    BY <1>10 DEF DebtStep, CreateDebt, DebtOfCheat, ReadDebt, RepayDebt, InsertTransferred,
                 MarkTransferred
  <2> QED BY <1>3, <1>5, <2>1
<1>11. ASSUME LifeStep(s) PROVE Recorded
  <2>1. UNCHANGED events \/ \E how : Finish(s, how)
    BY <1>11 DEF LifeStep, CheckThreshold, ReadDeath, InsertDeath, InsertReborn, MarkDeceased
  <2> QED BY <1>3, <1>5, <2>1
<1>12. Recorded
  BY <1>6, <1>7, <1>8, <1>9, <1>10, <1>11 DEF Step, LogStep
<1> QED BY <1>12 DEF Recorded

(* Transactions and deaths are only added; the workload does not change.    *)
LEMMA RecordsSteps ==
  ASSUME KarmaInv, NEW s \in Slots, Step(s)
  PROVE  RecordsMove(s) /\ TxsMove(s)
<1> DEFINE u == req[s].call.user
           Still == UNCHANGED <<txs, deaths, load>>
           Kept == UNCHANGED load /\ TxsMove(s)
                   /\ deaths' \in Seq([user : Users, loka : Lokas])
<1>1. TypeOK /\ Sound(s, req[s]) /\ u \in Users
      /\ deaths \in Seq([user : Users, loka : Lokas])
  BY SlotTypes DEF KarmaInv, TypeOK, Lokas
<1>2. ASSUME Still PROVE Kept
  BY <1>1, <1>2 DEF TxsMove
<1>3. ASSUME \/ ApplyDecayAndExpiry(s) \/ ApplyPaap(s) \/ UpdatePrarabdha(s)
      PROVE  Still
  BY <1>3 DEF ApplyDecayAndExpiry, ApplyPaap, UpdatePrarabdha
<1>4. ASSUME LogTransaction(s) PROVE Kept
  <2>1. /\ UNCHANGED <<deaths, load>>
        /\ txs' = txs \cup {[slot |-> s, what |-> "action"]}
    BY <1>4 DEF LogTransaction
  <2> QED BY <1>1, <2>1 DEF TxsMove
<1>5. ASSUME RewardTransaction(s) PROVE Kept
  <2>1. /\ UNCHANGED <<deaths, load>> /\ txs' = txs \cup {RewardOf(s)}
        /\ req[s].call.op \in Submits /\ req[s].pc = "rewardTx"
    BY <1>5 DEF RewardTransaction, RewardOf, At
  <2> QED BY <1>1, <2>1 DEF TxsMove
<1>6. ASSUME InsertDeath(s) PROVE Kept
  <2>1. UNCHANGED <<txs, load>>
    BY <1>6 DEF InsertDeath
  <2>2. PICK loka \in Lokas : deaths' = Append(deaths, [user |-> u, loka |-> loka])
    <3>1. PICK k : deaths' = Append(deaths, [user |-> u, loka |-> LokaOf(k)])
      BY <1>6 DEF InsertDeath
    <3>2. LokaOf(k) \in Lokas
      BY NameTypes DEF Lokas
    <3> QED BY <3>1, <3>2
  <2>3. deaths' \in Seq([user : Users, loka : Lokas])
    BY <1>1, <2>2
  <2> QED BY <1>1, <2>1, <2>3 DEF TxsMove
<1>7. ASSUME RecordRequest(s) \/ UnknownEvent(s) \/ ReadUser(s) \/ Redeem(s) \/ Fail(s) PROVE Still
  BY <1>7 DEF RecordRequest, UnknownEvent, ReadUser, Redeem, Fail
<1>8. ASSUME \/ CheckAgain(s) \/ InsertUser(s) \/ UpdateBalance(s) \/ UpdateAdvancedKarma(s)
             \/ Reread(s) \/ SetRole(s) \/ TransactionFails(s)
      PROVE  Still
  BY <1>8 DEF CheckAgain, InsertUser, UpdateBalance, UpdateAdvancedKarma, Reread, SetRole,
              TransactionFails
<1>9. ASSUME \/ CountPlans(s) \/ InsertPlan(s) \/ SubmitProof(s) \/ ReadPlan(s)
             \/ AwardAtonement(s) \/ CompletePlan(s) \/ LearnAtonement(s) \/ ReducePaap(s)
      PROVE  Still
  BY <1>9 DEF CountPlans, InsertPlan, SubmitProof, ReadPlan, AwardAtonement, CompletePlan,
              LearnAtonement, ReducePaap
<1>10. ASSUME DebtStep(s) PROVE Still
  BY <1>10 DEF DebtStep, CreateDebt, DebtOfCheat, ReadDebt, RepayDebt, InsertTransferred,
               MarkTransferred
<1>11. ASSUME CheckThreshold(s) \/ ReadDeath(s) \/ InsertReborn(s) \/ MarkDeceased(s)
       PROVE  Still
  BY <1>11 DEF CheckThreshold, ReadDeath, InsertReborn, MarkDeceased
<1> HIDE DEF Still, Kept
<1>12. Kept
  BY <1>2, <1>3, <1>4, <1>5, <1>6, <1>7, <1>8, <1>9, <1>10, <1>11
     DEF Step, LogStep, PlanStep, LifeStep
<1>13. \E e \in Seq(Statuses) : events' = [events EXCEPT ![s] = e]
  BY EventsSteps
<1> QED BY <1>12, <1>13 DEF Kept, RecordsMove

(* Every step leaves its own request with what its next stage needs.        *)
LEMMA RequestsSteps ==
  ASSUME KarmaInv, NEW s \in Slots, Step(s)
  PROVE  Proceeds(s)
BY RecordSteps, ReadSteps, BalanceSteps, TransactionSteps, PlanRequests, DebtRequests, LifeRequests
   DEF Step, LogStep, LifeStep

-----------------------------------------------------------------------------
(* The invariant.                                                           *)

(* What a request relies on is not taken back by a step of another one.     *)
LEMMA SoundKept ==
  ASSUME KarmaInv, NEW t \in Slots, NEW r, r \in Requests,
         \A u \in Users : users[u].exists =>
           users'[u].exists /\ users'[u].rebirths = users[u].rebirths,
         \A u \in Users : GoesOn(u) => GoesOn(u)',
         DOMAIN plans \subseteq DOMAIN plans', \A i \in DOMAIN plans : Earned(i) => Earned(i)',
         DOMAIN debts \subseteq DOMAIN debts',
         \A i \in DOMAIN debts : /\ debts[i].paid \in Nat /\ debts'[i].paid \in Nat
                                 /\ debts'[i].due = debts[i].due
                                 /\ debts'[i].paid >= debts[i].paid,
         HoldsUser(r) \/ HoldsUser(r)', HoldsPlan(r), Fits(r), Owes(r),
         r.pc \in {"award", "rewardTx", "complete"} => Earned(r.mark) /\ r.call.op \in Submits,
         r.pc = "complete" => RewardOf(t) \in txs',
         RewardOf(t) \in txs' => r.call.op \in Submits /\ r.pc \notin {"received", "proof"},
         r.pc = "insert" => HoldsUser(r) /\ r.doc.rebirths = users[r.call.user].rebirths,
         r.pc = "markDeceased" => GoesOn(r.call.user)',
         Audited(t, r)'
  PROVE  Sound(t, r)'
<1>1. r.call.user \in Users
  BY CallTypes DEF Requests
<1>2. Documents' = Documents /\ Debts' = Debts
  BY DEF Documents, Debts
<1>3. HoldsUser(r)'
  BY <1>1, <1>2 DEF HoldsUser
<1>4. HoldsPlan(r)'
  BY DEF HoldsPlan
<1>5. Fits(r)'
  BY DEF Fits
<1>6. Earns(t, r)'
  <2>1. r.pc \in {"award", "rewardTx", "complete"} => r.mark \in DOMAIN plans
    BY DEF HoldsPlan, PlanStages
  <2>2. RewardOf(t)' = RewardOf(t)
    BY DEF RewardOf
  <2>3. r.pc \in {"award", "rewardTx", "complete"} => Earned(r.mark)'
    BY <2>1
  <2> QED BY <2>2, <2>3 DEF Earns
<1>7. LivesOn(r)'
  <2>1. r.pc = "insert" => users[r.call.user].exists
    BY DEF HoldsUser, UserStages
  <2> QED BY <1>1, <2>1 DEF LivesOn
<1>8. Owes(r)'
  <2>1. r.pc \in {"repay", "transfer"} => r.doc \in Debts /\ Honest(r.doc)
    BY DEF Owes
  <2>2. \A d \in Debts : d.paid \in Nat
    BY DEF Debts
  <2>3. r.pc \in {"repay", "transfer", "markTransferred"} => r.call.id \in DOMAIN debts'
    BY DEF Owes
  <2>4. ASSUME r.pc = "repay"
        PROVE  /\ r.call.n > 0
               /\ r.doc.due = debts'[r.call.id].due /\ r.doc.paid <= debts'[r.call.id].paid
    <3>1. /\ r.call.n > 0 /\ r.call.id \in DOMAIN debts /\ r.doc.paid \in Nat
          /\ r.doc.due = debts[r.call.id].due /\ r.doc.paid <= debts[r.call.id].paid
      BY <2>1, <2>2, <2>4 DEF Owes
    <3> QED BY <3>1
  <2>5. \A d : Honest(d)' = Honest(d)
    BY DEF Honest
  <2> QED BY <1>2, <2>1, <2>3, <2>4 DEF Owes, Honest
<1> QED BY <1>3, <1>4, <1>5, <1>6, <1>7, <1>8 DEF Sound

(* What is sound of the request's record is sound of the request.           *)
LEMMA SoundNow ==
  ASSUME NEW t, NEW r, r = req'[t], Sound(t, r)'
  PROVE  Sound(t, req[t])'
<1>1. HoldsUser(req[t])'
  BY DEF Sound, HoldsUser
<1>2. HoldsPlan(req[t])'
  BY DEF Sound, HoldsPlan
<1>3. Fits(req[t])'
  BY DEF Sound, Fits
<1>4. Earns(t, req[t])'
  BY DEF Sound, Earns
<1>5. LivesOn(req[t])'
  BY DEF Sound, LivesOn
<1>6. Owes(req[t])'
  BY DEF Sound, Owes
<1>7. Audited(t, req[t])'
  BY DEF Sound, Audited
<1> QED BY <1>1, <1>2, <1>3, <1>4, <1>5, <1>6, <1>7 DEF Sound

(* The invariant is kept by the steps of requests, by a new call and by a   *)
(* stutter.                                                                 *)
LEMMA StepKeeps ==
  ASSUME KarmaInv, NEW s \in Slots, Step(s)
  PROVE  KarmaInv'
<1>1. TypeOK /\ LivesAreLinked /\ \A t \in Slots : Sound(t, req[t])
  BY DEF KarmaInv
<1>2. RecordsMove(s) /\ TxsMove(s)
  BY RecordsSteps
<1>3. PICK r : ReqMove(s, r) /\ Steady(s, r)
  BY RequestsSteps DEF Proceeds
<1>4. UNCHANGED load /\ txs \subseteq txs'
  BY <1>2 DEF RecordsMove, TxsMove
<1>5. /\ req' \in Seq(Requests') /\ Len(req') = Len(req) /\ Slots' = Slots
      /\ req'[s] = r /\ \A t \in Slots : t # s => req'[t] = req[t]
  BY <1>1, <1>3, <1>4, ReqEffect
<1>6. UsersMove /\ PlansMove(s) /\ DebtsMove
  BY UsersSteps, PlansSteps, DebtsSteps
<1>7. /\ users' \in [Users -> Documents' \cup {NoDoc}] /\ LivesAreLinked'
      /\ \A u \in Users : users[u].exists =>
           users'[u].exists /\ users'[u].rebirths = users[u].rebirths
      /\ \A u \in Users : GoesOn(u) => GoesOn(u)'
  BY <1>1, <1>4, <1>6, UsersEffect
<1>8. /\ plans' \in Seq(Plans) /\ DOMAIN plans \subseteq DOMAIN plans'
      /\ \A i \in DOMAIN plans : Earned(i) => Earned(i)'
      /\ PlansHaveUsers' /\ CompletionIsEarned'
  BY <1>3, <1>4, <1>6, <1>7, PlansEffect
<1>9. /\ debts' \in Seq(Debts) /\ DOMAIN debts \subseteq DOMAIN debts' /\ DebtsAreHonoured'
      /\ \A i \in DOMAIN debts : /\ debts[i].paid \in Nat /\ debts'[i].paid \in Nat
                                 /\ debts'[i].due = debts[i].due
                                 /\ debts'[i].paid >= debts[i].paid
  BY <1>6, DebtsEffect
<1>10. ASSUME NEW t \in Slots PROVE Sound(t, req[t])'
  <2>1. CASE t = s
    <3>1. Sound(t, r)'
      BY <1>3, <1>4, <1>7, <1>8, <1>9, <2>1, SoundKept DEF Steady, ReqMove
    <3> QED BY <1>5, <2>1, <3>1, SoundNow
  <2>2. CASE t # s
    <3>1. PICK q : q = req[t]
      OBVIOUS
    <3>2. q \in Requests /\ q = req'[t] /\ Sound(t, q)
      BY <1>1, <1>5, <2>2, <3>1, SlotTypes
    <3>3. q.call.user \in Users
      BY <3>2, CallTypes DEF Requests
    <3>4. /\ HoldsUser(q) /\ HoldsPlan(q) /\ Fits(q) /\ Owes(q)
          /\ Earns(t, q) /\ LivesOn(q) /\ Audited(t, q)
      BY <3>2 DEF Sound
    <3>5. RewardOf(t) \in txs' <=> RewardOf(t) \in txs
      <4>1. /\ RewardOf(t) # RewardOf(s)
            /\ RewardOf(t) # [slot |-> s, what |-> "action"]
        BY <2>2 DEF RewardOf
      <4> QED BY <1>2, <4>1 DEF TxsMove
    <3>6. events'[t] = events[t]
      <4>1. PICK e : events' = [events EXCEPT ![s] = e]
        BY <1>2 DEF RecordsMove
      <4>2. t \in DOMAIN events
        BY <1>1 DEF TypeOK, Slots
      <4> QED BY <2>2, <4>1, <4>2
    <3>7. Audited(t, q)'
      BY <3>4, <3>6 DEF Audited
    <3>8. /\ q.pc \in {"award", "rewardTx", "complete"} => Earned(q.mark) /\ q.call.op \in Submits
          /\ q.pc = "complete" => RewardOf(t) \in txs'
          /\ RewardOf(t) \in txs' => q.call.op \in Submits /\ q.pc \notin {"received", "proof"}
      BY <3>4, <3>5 DEF Earns
    <3>9. /\ q.pc = "insert" => q.doc.rebirths = users[q.call.user].rebirths
          /\ q.pc = "markDeceased" => GoesOn(q.call.user)'
      BY <1>7, <3>3, <3>4 DEF LivesOn
    <3>10. Sound(t, q)'
      BY <1>4, <1>7, <1>8, <1>9, <3>2, <3>4, <3>7, <3>8, <3>9, SoundKept
    <3> QED BY <3>2, <3>10, SoundNow
  <2> QED BY <2>1, <2>2
<1>11. TypeOK'
  <2>1. PICK e \in Seq(Statuses) : events' = [events EXCEPT ![s] = e]
    BY <1>2 DEF RecordsMove
  <2>2. events \in Seq(Seq(Statuses)) /\ Len(events) = Len(req)
        /\ load \in Workloads /\ txs \subseteq [slot : Slots, what : {"action", "reward"}]
    BY <1>1 DEF TypeOK, Statuses
  <2>3. events' \in Seq(Seq(Statuses)) /\ Len(events') = Len(req')
    <3> DEFINE S == Seq(Statuses)
    <3>1. e \in S /\ events \in Seq(S) /\ s \in 1 .. Len(events)
      BY <1>1, <2>1, <2>2 DEF TypeOK, Slots
    <3> HIDE DEF S
    <3>2. events' \in Seq(S) /\ Len(events') = Len(events)
      BY <2>1, <3>1
    <3> QED BY <1>5, <2>2, <3>2 DEF S
  <2>4. txs' \subseteq [slot : Slots', what : {"action", "reward"}]
    BY <1>2, <1>5, <2>2 DEF TxsMove, RewardOf
  <2>5. /\ deaths' \in Seq([user : Users, loka : {"Swarga", "Mrityuloka", "Antarloka", "Naraka"}])
    BY <1>2 DEF RecordsMove, Lokas
  <2>6. Plans' = Plans /\ Debts' = Debts
    BY DEF Plans, Debts
  <2> QED BY <1>4, <1>5, <1>7, <1>8, <1>9, <2>2, <2>3, <2>4, <2>5, <2>6 DEF TypeOK, Statuses
<1>12. (\A t \in Slots : Sound(t, req[t]))'
  BY <1>5, <1>10
<1> QED BY <1>7, <1>8, <1>9, <1>11, <1>12 DEF KarmaInv

LEMMA CallKeeps ==
  ASSUME KarmaInv, Call
  PROVE  KarmaInv'
<1>1. PICK c : (\E w \in Workloads : c \in w.kinds) /\ req' = Append(req, NewRequest(c))
  BY DEF Call, KarmaInv, TypeOK
<1>2. /\ events' = Append(events, <<>>)
      /\ UNCHANGED <<users, plans, debts, txs, deaths, load>>
  BY DEF Call
<1>3. TypeOK
  BY DEF KarmaInv
<1>20. PICK n : n = Len(req) + 1
  OBVIOUS
<1>4. /\ req \in Seq(Requests) /\ events \in Seq(Seq(Statuses)) /\ Len(events) = Len(req)
      /\ Slots = 1 .. Len(req) /\ n = Len(req) + 1 /\ Len(req) \in Nat
  BY <1>3, <1>20 DEF TypeOK, Statuses, Slots
<1>5. c \in Calls
  BY <1>1 DEF Calls
<1>6. NewRequest(c) \in Requests
  BY <1>5 DEF NewRequest, Requests, Stages
<1>7. /\ req' \in Seq(Requests) /\ Len(req') = n /\ req'[n] = NewRequest(c)
      /\ \A t \in Slots : req'[t] = req[t]
  BY <1>1, <1>4, <1>6
<1>8. /\ events' \in Seq(Seq(Statuses)) /\ Len(events') = n /\ events'[n] = <<>>
      /\ \A t \in Slots : events'[t] = events[t]
  <2> DEFINE S == Seq(Statuses)
  <2>1. <<>> \in S /\ events \in Seq(S)
    BY <1>4
  <2> HIDE DEF S
  <2>2. /\ events' \in Seq(S) /\ Len(events') = n /\ events'[n] = <<>>
        /\ \A t \in 1 .. Len(events) : events'[t] = events[t]
    BY <1>2, <1>4, <2>1
  <2> QED BY <1>4, <2>2 DEF S
<1>9. Slots' = Slots \cup {n} /\ n \notin Slots
  BY <1>4, <1>7 DEF Slots
<1>10. Requests' = Requests /\ Documents' = Documents /\ Debts' = Debts /\ Plans' = Plans
  BY <1>2 DEF Requests, Documents, Debts, Plans
<1>11. TypeOK'
  <2>1. txs' \subseteq [slot : Slots', what : {"action", "reward"}]
    BY <1>2, <1>3, <1>9 DEF TypeOK
  <2> QED BY <1>2, <1>3, <1>7, <1>8, <1>10, <2>1 DEF TypeOK, Statuses
<1>12. \A i : Earned(i) => Earned(i)'
  <2>1. \A i : TakenBack(i) => TakenBack(i)'
    BY <1>2, <1>7, <1>9 DEF TakenBack
  <2> QED BY <1>2, <2>1 DEF Earned
<1>13. \A u : GoesOn(u) = GoesOn(u)'
  BY <1>2 DEF GoesOn
<1>14. ASSUME NEW t \in Slots PROVE Sound(t, req[t])'
  <2>1. PICK q : q = req[t]
    OBVIOUS
  <2>2. q \in Requests /\ q = req'[t] /\ Sound(t, q)
    BY <1>3, <1>7, <2>1, SlotTypes DEF KarmaInv
  <2>3. /\ HoldsUser(q) /\ HoldsPlan(q) /\ Fits(q) /\ Owes(q)
        /\ Earns(t, q) /\ LivesOn(q) /\ Audited(t, q)
    BY <2>2 DEF Sound
  <2>4. HoldsUser(q)' /\ HoldsPlan(q)' /\ Fits(q)' /\ Owes(q)'
    BY <1>2, <1>10, <2>3 DEF HoldsUser, HoldsPlan, Fits, Owes, Honest
  <2>5. Earns(t, q)' /\ LivesOn(q)'
    BY <1>2, <1>12, <1>13, <2>3 DEF Earns, LivesOn, RewardOf
  <2>6. Audited(t, q)'
    BY <1>8, <2>3 DEF Audited
  <2>7. Sound(t, q)'
    BY <2>4, <2>5, <2>6 DEF Sound
  <2> QED BY <2>2, <2>7, SoundNow
<1>15. Sound(n, req[n])'
  <2>1. PICK q : q = NewRequest(c)
    OBVIOUS
  <2>2. q.pc = "received" /\ q = req'[n]
    BY <1>7, <2>1 DEF NewRequest
  <2>4. RewardOf(n) \notin txs'
    BY <1>2, <1>3, <1>9 DEF TypeOK, RewardOf
  <2>5. HoldsUser(q)' /\ HoldsPlan(q)' /\ Fits(q)' /\ Owes(q)' /\ LivesOn(q)'
    BY <2>2 DEF HoldsUser, UserStages, HoldsPlan, PlanStages, Fits, Owes, LivesOn
  <2>6. Earns(n, q)'
    BY <2>2, <2>4 DEF Earns, RewardOf
  <2>7. Audited(n, q)'
    BY <1>8, <2>2 DEF Audited, Finished
  <2>8. Sound(n, q)'
    BY <2>5, <2>6, <2>7 DEF Sound
  <2> QED BY <2>2, <2>8, SoundNow
<1>16. (\A t \in Slots : Sound(t, req[t]))'
  BY <1>9, <1>14, <1>15
<1>17. PlansHaveUsers' /\ LivesAreLinked' /\ DebtsAreHonoured'
  BY <1>2 DEF KarmaInv, PlansHaveUsers, LivesAreLinked, DebtsAreHonoured
<1>18. CompletionIsEarned'
  <2>1. ASSUME NEW i \in DOMAIN plans', plans'[i].status = "completed"
        PROVE  Earned(i)' /\ \E t \in Slots' : [slot |-> t, what |-> "reward"] \in txs'
                                               /\ req'[t].mark = i
    <3>1. Earned(i) /\ \E t \in Slots : [slot |-> t, what |-> "reward"] \in txs /\ req[t].mark = i
      BY <1>2, <2>1 DEF KarmaInv, CompletionIsEarned, Earned, PlanComplete
    <3> QED BY <1>2, <1>7, <1>9, <1>12, <3>1
  <2> QED BY <2>1 DEF CompletionIsEarned, Earned, PlanComplete
<1> QED BY <1>11, <1>16, <1>17, <1>18 DEF KarmaInv

LEMMA StutterKeeps ==
  ASSUME KarmaInv, UNCHANGED vars
  PROVE  KarmaInv'
<1>1. UNCHANGED <<users, plans, debts, txs, deaths, events, req, load>>
  BY DEF vars
<1>2. TypeOK'
  BY <1>1 DEF KarmaInv, TypeOK, Documents, Debts, Plans, Requests, Slots
<1>3. ASSUME NEW t \in Slots PROVE Sound(t, req[t])'
  <2>1. PICK q : q = req[t]
    OBVIOUS
  <2>2. q = req'[t] /\ Sound(t, q)
    BY <1>1, <2>1 DEF KarmaInv
  <2>3. Documents' = Documents /\ Debts' = Debts
    BY <1>1 DEF Documents, Debts
  <2>4. HoldsUser(q)' /\ HoldsPlan(q)' /\ Fits(q)' /\ Owes(q)'
    BY <1>1, <2>2, <2>3 DEF Sound, HoldsUser, HoldsPlan, Fits, Owes, Honest
  <2>5. Earns(t, q)' /\ LivesOn(q)' /\ Audited(t, q)'
    BY <1>1, <2>2 DEF Sound, Earns, Earned, TakenBack, Slots, RewardOf, LivesOn, GoesOn, Audited
  <2>6. Sound(t, q)'
    BY <2>4, <2>5 DEF Sound
  <2> QED BY <2>2, <2>6, SoundNow
<1>4. (\A t \in Slots : Sound(t, req[t]))'
  BY <1>1, <1>3 DEF Slots
<1>5. PlansHaveUsers' /\ LivesAreLinked' /\ DebtsAreHonoured' /\ CompletionIsEarned'
  BY <1>1 DEF KarmaInv, PlansHaveUsers, LivesAreLinked, DebtsAreHonoured, CompletionIsEarned,
              TakenBack, Slots
<1> QED BY <1>2, <1>4, <1>5 DEF KarmaInv

(* It holds at the start.                                                   *)
LEMMA KarmaAtStart == Init => KarmaInv
<1> SUFFICES ASSUME Init PROVE KarmaInv
  OBVIOUS
<1>1. /\ plans = <<>> /\ debts = <<>> /\ txs = {} /\ deaths = <<>> /\ events = <<>>
      /\ req = <<>> /\ load \in Workloads
  BY DEF Init
<1>2. Slots = {} /\ DOMAIN plans = {} /\ DOMAIN debts = {}
  BY <1>1 DEF Slots
<1> DEFINE first(u) == NewDoc(OpeningBalances, "learner",
                              IF u \in load.dated THEN "naive" ELSE "absent")
<1>3. \A u \in Users : first(u) \in Documents
  BY OpeningAssumption DEF NewDoc, Documents, Roles
<1>4. \A u \in Users : first(u).prev = NoUser /\ ~first(u).dead /\ ~NoDoc.exists
  BY DEF NewDoc, NoDoc
<1>5. /\ users \in [Users -> Documents \cup {NoDoc}]
      /\ \A u \in Users : users[u].exists => users[u].prev = NoUser /\ ~users[u].dead
  <2>1. users = [u \in Users |-> IF u \in InitialUsers THEN first(u) ELSE NoDoc]
    BY DEF Init
  <2> HIDE DEF first
  <2> QED BY <1>3, <1>4, <2>1
<1>6. TypeOK
  <2>1. /\ plans \in Seq(Plans) /\ debts \in Seq(Debts) /\ req \in Seq(Requests)
        /\ deaths \in Seq([user : Users, loka : {"Swarga", "Mrityuloka", "Antarloka", "Naraka"}])
        /\ events \in Seq(Seq({"processing", "completed", "failed", "processed"}))
        /\ Len(events) = Len(req)
    BY <1>1
  <2> QED BY <1>1, <1>5, <2>1 DEF TypeOK
<1>7. LivesAreLinked
  BY <1>5 DEF LivesAreLinked
<1> QED BY <1>2, <1>6, <1>7 DEF KarmaInv, PlansHaveUsers, CompletionIsEarned, DebtsAreHonoured

(* KarmaInv holds of every state that the tracker reaches.                  *)
THEOREM KarmaInvariance == Spec => []KarmaInv
<1>1. Init => KarmaInv
  BY KarmaAtStart
<1>2. KarmaInv /\ [Next]_vars => KarmaInv'
  <2> SUFFICES ASSUME KarmaInv, [Next]_vars PROVE KarmaInv'
    OBVIOUS
  <2>1. CASE Call
    BY <2>1, CallKeeps
  <2>2. ASSUME NEW s \in Slots, Step(s) PROVE KarmaInv'
    BY <2>2, StepKeeps
  <2>3. CASE UNCHANGED vars
    BY <2>3, StutterKeeps
  <2> QED BY <2>1, <2>2, <2>3 DEF Next
<1> QED BY <1>1, <1>2, PTL DEF Spec

(* The types of the collections and of the requests are what they should    *)
(* be; in particular no request acts on a user, a plan or a debt that is    *)
(* not there.                                                               *)
THEOREM KarmaTypeCorrectness == Spec => []TypeOK
<1>1. KarmaInv => TypeOK
  BY DEF KarmaInv
<1> QED BY <1>1, KarmaInvariance, PTL

(* A debt is never lower than what was owed less what was repaid, and       *)
(* marked as repaid only when that is all of it, although repayments and    *)
(* transfers overlap, each with its own copy of the debt (repay_debt,       *)
(* transfer_debt).                                                          *)
THEOREM DebtsHonoured == Spec => []DebtsAreHonoured
<1>1. KarmaInv => DebtsAreHonoured
  BY DEF KarmaInv
<1> QED BY <1>1, KarmaInvariance, PTL

(* A plan is marked as completed only if its proofs, or a negative proof    *)
(* that lowered one of them later, earned it, and after its reward was      *)
(* logged (submit_atonement_proof, mark_atonement_completed).               *)
THEOREM CompletionsEarned == Spec => []CompletionIsEarned
<1>1. KarmaInv => CompletionIsEarned
  BY DEF KarmaInv
<1> QED BY <1>1, KarmaInvariance, PTL

(* Who is marked as deceased has a successor, and a successor continues a   *)
(* life that exists and counts one rebirth more than it, although           *)
(* requests on both users overlap (rebirth_user).                           *)
THEOREM LivesLinked == Spec => []LivesAreLinked
<1>1. KarmaInv => LivesAreLinked
  BY DEF KarmaInv
<1> QED BY <1>1, KarmaInvariance, PTL

(* The audit record of an answered request gives its outcome, for the       *)
(* gateway (which leaves none before) and for the routes of karma.py.       *)
THEOREM AuditsTell == Spec => []AuditsAgree
<1>1. KarmaInv => AuditsAgree
  BY DEF KarmaInv, Sound, Audited, AuditsAgree
<1> QED BY <1>1, KarmaInvariance, PTL
-----------------------------------------------------------------------------
(* Sums over finite sets of integers by key, as SumFunction computes them:  *)
(* it takes an arbitrary key off at each turn.                              *)
AnyOf(s) == CHOOSE x \in s : TRUE
Summing(f, S, sum) ==
  [s \in SUBSET S |-> IF s = {} THEN 0 ELSE f[AnyOf(s)] + sum[s \ {AnyOf(s)}]]
Sums(f, S) == CHOOSE sum : sum = Summing(f, S, sum)

(* That this is the fold of SumFunction.                                    *)
LEMMA SumIsFold ==
  ASSUME NEW f, NEW S
  PROVE  SumFunctionOnSet(f, S) = Sums(f, S)[S]
BY DEF SumFunctionOnSet, FoldFunctionOnSet, MapThenFoldSet, Sums, Summing, AnyOf

(* There is such a fold: it extends from the sets of fewer than n elements  *)
(* to those of n.                                                           *)
SumsUpTo(g, n, f, S) ==
  /\ g \in [SUBSET S -> Int]
  /\ \A s \in SUBSET S : Cardinality(s) <= n => g[s] = Summing(f, S, g)[s]

(* An element less makes a finite set smaller by one.                       *)
LEMMA SubsetSizes ==
  ASSUME NEW S, IsFiniteSet(S), NEW s \in SUBSET S
  PROVE  /\ IsFiniteSet(s) /\ Cardinality(s) \in Nat /\ Cardinality(s) <= Cardinality(S)
         /\ Cardinality(s) = 0 => s = {}
         /\ \A x \in s : /\ s \ {x} \in SUBSET S
                         /\ Cardinality(s \ {x}) = Cardinality(s) - 1
                         /\ Cardinality(s) > 0
         /\ s # {} => AnyOf(s) \in s
<1>1. IsFiniteSet(s) /\ Cardinality(s) \in Nat /\ Cardinality(s) <= Cardinality(S)
  BY FS_Subset, FS_CardinalityType
<1>2. Cardinality(s) = 0 <=> s = {}
  BY <1>1, FS_EmptySet
<1>3. ASSUME NEW x \in s
      PROVE  Cardinality(s \ {x}) = Cardinality(s) - 1 /\ Cardinality(s) > 0
  <2>1. Cardinality(s \ {x}) = Cardinality(s) - 1
    BY <1>1, FS_RemoveElement
  <2> QED BY <1>1, <1>2, <2>1
<1>4. s # {} => AnyOf(s) \in s
  BY DEF AnyOf
<1> QED BY <1>1, <1>2, <1>3, <1>4

LEMMA SumsExtend ==
  ASSUME NEW S, IsFiniteSet(S), NEW f \in [S -> Int], NEW n \in Nat \ {0},
         NEW g, SumsUpTo(g, n - 1, f, S)
  PROVE  \E h : SumsUpTo(h, n, f, S)
<1> DEFINE h == [s \in SUBSET S |->
                   IF Cardinality(s) <= n - 1 THEN g[s] ELSE Summing(f, S, g)[s]]
<1>1. g \in [SUBSET S -> Int]
      /\ \A s \in SUBSET S : Cardinality(s) <= n - 1 => g[s] = Summing(f, S, g)[s]
  BY DEF SumsUpTo
<1>2. ASSUME NEW s \in SUBSET S PROVE Summing(f, S, g)[s] \in Int
  <2>1. CASE s = {}
    BY <2>1 DEF Summing
  <2>2. CASE s # {}
    <3>1. AnyOf(s) \in S /\ s \ {AnyOf(s)} \in SUBSET S
      BY <2>2, SubsetSizes
    <3>2. f[AnyOf(s)] \in Int /\ g[s \ {AnyOf(s)}] \in Int
      BY <1>1, <3>1
    <3> QED BY <2>2, <3>2 DEF Summing
  <2> QED BY <2>1, <2>2
<1>3. h \in [SUBSET S -> Int]
  BY <1>1, <1>2
<1>4. ASSUME NEW s \in SUBSET S, Cardinality(s) <= n
      PROVE  Summing(f, S, h)[s] = Summing(f, S, g)[s]
  <2>1. CASE s = {}
    BY <2>1 DEF Summing
  <2>2. CASE s # {}
    <3> DEFINE r == s \ {AnyOf(s)}
    <3>1. r \in SUBSET S /\ Cardinality(r) = Cardinality(s) - 1 /\ Cardinality(s) \in Nat
      BY <2>2, SubsetSizes
    <3>2. Cardinality(r) <= n - 1
      BY <1>4, <3>1
    <3>3. h[r] = g[r]
      BY <3>1, <3>2
    <3> HIDE DEF h
    <3> QED BY <2>2, <3>3 DEF Summing
  <2> QED BY <2>1, <2>2
<1>5. ASSUME NEW s \in SUBSET S, Cardinality(s) <= n PROVE h[s] = Summing(f, S, h)[s]
  <2>1. h[s] = Summing(f, S, g)[s]
    BY <1>1
  <2> QED BY <1>4, <1>5, <2>1
<1> HIDE DEF h
<1> QED BY <1>3, <1>5 DEF SumsUpTo

LEMMA SumsExist ==
  ASSUME NEW S, IsFiniteSet(S), NEW f \in [S -> Int]
  PROVE  Sums(f, S) \in [SUBSET S -> Int] /\ Sums(f, S) = Summing(f, S, Sums(f, S))
<1> DEFINE N == Cardinality(S)
           done == {k \in 0 .. N : \E g : SumsUpTo(g, k, f, S)}
<1>1. N \in Nat
  BY FS_CardinalityType
<1>2. 0 \in done
  <2> DEFINE g == [s \in SUBSET S |-> 0]
  <2>1. g \in [SUBSET S -> Int]
    OBVIOUS
  <2>2. ASSUME NEW s \in SUBSET S, Cardinality(s) <= 0 PROVE g[s] = Summing(f, S, g)[s]
    <3>1. Cardinality(s) \in Nat /\ (Cardinality(s) = 0 => s = {})
      BY SubsetSizes
    <3>2. s = {}
      BY <2>2, <3>1
    <3> QED BY <3>2 DEF Summing
  <2> HIDE DEF g
  <2>3. SumsUpTo(g, 0, f, S)
    BY <2>1, <2>2 DEF SumsUpTo
  <2> QED BY <1>1, <2>3
<1>3. ASSUME NEW k \in 1 .. N, k - 1 \in done PROVE k \in done
  <2>1. PICK g : SumsUpTo(g, k - 1, f, S)
    BY <1>3
  <2>2. k \in Nat \ {0}
    BY <1>1
  <2>3. \E h : SumsUpTo(h, k, f, S)
    BY <2>1, <2>2, SumsExtend
  <2> QED BY <1>1, <2>3
<1>4. N \in done
  <2>1. \A k \in 0 .. N : k \in done
    <3> HIDE DEF done
    <3> QED BY <1>1, <1>2, <1>3, CountingUp
  <2> QED BY <1>1, <2>1
<1>5. PICK g : SumsUpTo(g, N, f, S)
  BY <1>4
<1>6. g = Summing(f, S, g)
  <2>1. \A s \in SUBSET S : g[s] = Summing(f, S, g)[s]
    BY <1>5, SubsetSizes DEF SumsUpTo
  <2>2. g \in [SUBSET S -> Int]
    BY <1>5 DEF SumsUpTo
  <2>3. DOMAIN Summing(f, S, g) = SUBSET S /\ Summing(f, S, g) = [s \in SUBSET S |-> Summing(f, S, g)[s]]
    BY DEF Summing
  <2> QED BY <2>1, <2>2, <2>3
<1>7. Sums(f, S) = Summing(f, S, Sums(f, S))
  <2> DEFINE P(x) == x = Summing(f, S, x)
  <2>1. P(g)
    BY <1>6
  <2>2. P(CHOOSE x : P(x))
    <3> HIDE DEF P
    <3> QED BY <2>1
  <2> QED BY <2>2 DEF Sums
(* each of its values is a number, by the size of the set *)
<1> DEFINE T == Sums(f, S)
<1>8. /\ DOMAIN T = SUBSET S /\ T = [s \in SUBSET S |-> T[s]]
      /\ T[{}] = 0
      /\ \A s \in SUBSET S : s # {} => T[s] = f[AnyOf(s)] + T[s \ {AnyOf(s)}]
  <2> DEFINE R == Summing(f, S, T)
  <2>1. /\ DOMAIN R = SUBSET S /\ R = [s \in SUBSET S |-> R[s]]
        /\ \A s \in SUBSET S : R[s] = IF s = {} THEN 0 ELSE f[AnyOf(s)] + T[s \ {AnyOf(s)}]
    BY DEF Summing
  <2>2. R = T
    BY <1>7
  <2> HIDE DEF R, T
  <2>3. R[{}] = 0
    <3>1. {} \in SUBSET S
      OBVIOUS
    <3>2. R[{}] = IF {} = {} THEN 0 ELSE f[AnyOf({})] + T[{} \ {AnyOf({})}]
      BY <2>1, <3>1
    <3> QED BY <3>2
  <2> QED BY <2>1, <2>2, <2>3
<1> HIDE DEF T
<1> DEFINE good == {k \in 0 .. N : \A s \in SUBSET S : Cardinality(s) <= k => T[s] \in Int}
<1>9. 0 \in good
  <2>1. ASSUME NEW s \in SUBSET S, Cardinality(s) <= 0 PROVE T[s] \in Int
    <3>1. Cardinality(s) \in Nat /\ (Cardinality(s) = 0 => s = {})
      BY SubsetSizes
    <3>2. s = {}
      BY <2>1, <3>1
    <3> QED BY <1>8, <3>2
  <2> QED BY <1>1, <2>1
<1>10. ASSUME NEW k \in 1 .. N, k - 1 \in good PROVE k \in good
  <2>1. ASSUME NEW s \in SUBSET S, Cardinality(s) <= k PROVE T[s] \in Int
    <3>1. CASE s = {}
      BY <1>8, <3>1
    <3>2. CASE s # {}
      <4>1. /\ AnyOf(s) \in s /\ s \ {AnyOf(s)} \in SUBSET S
            /\ Cardinality(s \ {AnyOf(s)}) = Cardinality(s) - 1 /\ Cardinality(s) \in Nat
        BY <3>2, SubsetSizes
      <4>2. T[s \ {AnyOf(s)}] \in Int
        BY <1>10, <2>1, <4>1
      <4>3. f[AnyOf(s)] \in Int
        BY <4>1
      <4>4. T[s] = f[AnyOf(s)] + T[s \ {AnyOf(s)}]
        BY <1>8, <3>2
      <4> QED BY <4>2, <4>3, <4>4
    <3> QED BY <3>1, <3>2
  <2> QED BY <1>1, <2>1
<1>11. \A s \in SUBSET S : T[s] \in Int
  <2>1. \A k \in 0 .. N : k \in good
    <3> HIDE DEF good
    <3> QED BY <1>1, <1>9, <1>10, CountingUp
  <2>2. N \in good
    BY <1>1, <2>1
  <2>3. ASSUME NEW s \in SUBSET S PROVE Cardinality(s) <= N
    BY SubsetSizes
  <2> QED BY <2>2, <2>3
<1>12. T \in [SUBSET S -> Int]
  BY <1>8, <1>11
<1> QED BY <1>7, <1>12 DEF T

(* What the fold computes, set by set.                                      *)
LEMMA SumsUnfold ==
  ASSUME NEW S, IsFiniteSet(S), NEW f \in [S -> Int]
  PROVE  /\ \A s \in SUBSET S : Sums(f, S)[s] \in Int
         /\ Sums(f, S)[{}] = 0
         /\ \A s \in SUBSET S :
              s # {} => Sums(f, S)[s] = f[AnyOf(s)] + Sums(f, S)[s \ {AnyOf(s)}]
<1> DEFINE T == Sums(f, S)
           R == Summing(f, S, T)
<1>1. T \in [SUBSET S -> Int] /\ T = R
  BY SumsExist
<1>2. \A s \in SUBSET S : R[s] = IF s = {} THEN 0 ELSE f[AnyOf(s)] + T[s \ {AnyOf(s)}]
  BY DEF Summing
<1> HIDE DEF R, T
<1>3. {} \in SUBSET S
  OBVIOUS
<1>4. T[{}] = 0 /\ \A s \in SUBSET S : s # {} => T[s] = f[AnyOf(s)] + T[s \ {AnyOf(s)}]
  BY <1>1, <1>2, <1>3
<1> QED BY <1>1, <1>4 DEF T

(* Any element may be taken off first.                                      *)
LEMMA SumsAdd ==
  ASSUME NEW S, IsFiniteSet(S), NEW f \in [S -> Int], NEW x \in S
  PROVE  Sums(f, S)[S] = f[x] + Sums(f, S)[S \ {x}]
<1> DEFINE T == Sums(f, S)
           N == Cardinality(S)
           good == {k \in 0 .. N : \A s \in SUBSET S, y \in S :
                      Cardinality(s) <= k /\ y \in s => T[s] = f[y] + T[s \ {y}]}
<1>1. N \in Nat
  BY FS_CardinalityType
<1>2. /\ \A s \in SUBSET S : T[s] \in Int
      /\ \A s \in SUBSET S : s # {} => T[s] = f[AnyOf(s)] + T[s \ {AnyOf(s)}]
  BY SumsUnfold
<1> HIDE DEF T
<1>3. 0 \in good
  <2>1. ASSUME NEW s \in SUBSET S, NEW y \in s PROVE ~(Cardinality(s) <= 0)
    BY SubsetSizes
  <2> QED BY <1>1, <2>1
<1>4. ASSUME NEW k \in 1 .. N, k - 1 \in good PROVE k \in good
  <2>1. ASSUME NEW s \in SUBSET S, NEW y \in s, Cardinality(s) <= k
        PROVE  T[s] = f[y] + T[s \ {y}]
    <3>1. PICK a : a = AnyOf(s)
      OBVIOUS
    <3>2. a \in s /\ T[s] = f[a] + T[s \ {a}]
      BY <1>2, <3>1, SubsetSizes
    <3>3. CASE a = y
      BY <3>2, <3>3
    <3>4. CASE a # y
      <4>1. /\ s \ {a} \in SUBSET S /\ Cardinality(s \ {a}) = Cardinality(s) - 1
            /\ s \ {y} \in SUBSET S /\ Cardinality(s \ {y}) = Cardinality(s) - 1
            /\ Cardinality(s) \in Nat
        BY <3>2, SubsetSizes
      <4>2. Cardinality(s) - 1 <= k - 1
        BY <2>1, <4>1
      <4>3. T[s \ {a}] = f[y] + T[(s \ {a}) \ {y}]
        BY <1>4, <3>4, <4>1, <4>2
      <4>4. T[s \ {y}] = f[a] + T[(s \ {y}) \ {a}]
        BY <1>4, <3>2, <3>4, <4>1, <4>2
      <4>5. PICK r \in SUBSET S : r = (s \ {a}) \ {y} /\ r = (s \ {y}) \ {a}
        OBVIOUS
      <4>6. f[a] \in Int /\ f[y] \in Int /\ T[r] \in Int
        BY <1>2, <3>2
      <4>7. T[s] = f[a] + (f[y] + T[r]) /\ T[s \ {y}] = f[a] + T[r]
        BY <3>2, <4>3, <4>4, <4>5
      <4> QED BY <4>6, <4>7
    <3> QED BY <3>3, <3>4
  <2> QED BY <1>1, <2>1
<1>5. N \in good
  <2>1. \A k \in 0 .. N : k \in good
    <3> HIDE DEF good
    <3> QED BY <1>1, <1>3, <1>4, CountingUp
  <2> QED BY <1>1, <2>1
<1>6. Cardinality(S) <= N /\ S \in SUBSET S
  BY <1>1
<1>7. T[S] = f[x] + T[S \ {x}]
  BY <1>5, <1>6
<1> QED BY <1>7 DEF T

(* A sum over a part is that of the function on this part alone.            *)
LEMMA SumsRestrict ==
  ASSUME NEW S, IsFiniteSet(S), NEW f \in [S -> Int], NEW R \in SUBSET S,
         NEW g \in [R -> Int], \A y \in R : g[y] = f[y]
  PROVE  Sums(f, S)[R] = Sums(g, R)[R]
<1> DEFINE T == Sums(f, S)
           U == Sums(g, R)
           N == Cardinality(R)
           good == {k \in 0 .. N : \A s \in SUBSET R : Cardinality(s) <= k => T[s] = U[s]}
<1>1. IsFiniteSet(R)
  BY FS_Subset
<1>2. N \in Nat
  BY <1>1, FS_CardinalityType
<1>3. /\ T[{}] = 0
      /\ \A s \in SUBSET S : s # {} => T[s] = f[AnyOf(s)] + T[s \ {AnyOf(s)}]
  BY SumsUnfold
<1>4. /\ U[{}] = 0
      /\ \A s \in SUBSET R : s # {} => U[s] = g[AnyOf(s)] + U[s \ {AnyOf(s)}]
  BY <1>1, SumsUnfold
<1> HIDE DEF T, U
<1>5. 0 \in good
  <2>1. ASSUME NEW s \in SUBSET R, Cardinality(s) <= 0 PROVE T[s] = U[s]
    <3>1. Cardinality(s) \in Nat /\ (Cardinality(s) = 0 => s = {})
      BY <1>1, SubsetSizes
    <3>2. s = {}
      BY <2>1, <3>1
    <3> QED BY <1>3, <1>4, <3>2
  <2> QED BY <1>2, <2>1
<1>6. ASSUME NEW k \in 1 .. N, k - 1 \in good PROVE k \in good
  <2>1. ASSUME NEW s \in SUBSET R, Cardinality(s) <= k PROVE T[s] = U[s]
    <3>1. CASE s = {}
      BY <1>3, <1>4, <3>1
    <3>2. CASE s # {}
      <4>1. PICK a : a = AnyOf(s)
        OBVIOUS
      <4>2. /\ a \in s /\ s \ {a} \in SUBSET R
            /\ Cardinality(s \ {a}) = Cardinality(s) - 1 /\ Cardinality(s) \in Nat
        BY <1>1, <3>2, <4>1, SubsetSizes
      <4>3. T[s \ {a}] = U[s \ {a}]
        BY <1>6, <2>1, <4>2
      <4>4. T[s] = f[a] + T[s \ {a}] /\ U[s] = g[a] + U[s \ {a}] /\ g[a] = f[a]
        BY <1>3, <1>4, <3>2, <4>1, <4>2
      <4> QED BY <4>3, <4>4
    <3> QED BY <3>1, <3>2
  <2> QED BY <1>2, <2>1
<1>7. N \in good
  <2>1. \A k \in 0 .. N : k \in good
    <3> HIDE DEF good
    <3> QED BY <1>2, <1>5, <1>6, CountingUp
  <2> QED BY <1>2, <2>1
<1>8. Cardinality(R) <= N /\ R \in SUBSET R
  BY <1>2
<1>9. T[R] = U[R]
  BY <1>7, <1>8
<1> QED BY <1>9 DEF T, U

(* The sum of a function of no keys, and of one more key.                   *)
LEMMA SumOfNone ==
  ASSUME NEW f, DOMAIN f = {}
  PROVE  SumFunction(f) = 0
<1>1. IsFiniteSet({})
  BY FS_EmptySet
<1>2. PICK g : g = [x \in {} |-> 0]
  OBVIOUS
<1>3. SumFunction(f) = Sums(f, {})[{}]
  BY SumIsFold DEF SumFunction
<1>4. Sums(f, {}) = Sums(g, {})
  <2>1. \A sum : Summing(f, {}, sum) = Summing(g, {}, sum)
    BY DEF Summing
  <2> QED BY <2>1 DEF Sums
<1>5. g \in [{} -> Int]
  BY <1>2
<1> QED BY <1>1, <1>3, <1>4, <1>5, SumsUnfold

LEMMA SumOfOneMore ==
  ASSUME NEW S, IsFiniteSet(S), NEW x, x \notin S, NEW f \in [S \cup {x} -> Int],
         NEW g \in [S -> Int], \A y \in S : g[y] = f[y]
  PROVE  /\ SumFunction(f) = SumFunction(g) + f[x]
         /\ SumFunction(g) \in Int
<1>1. PICK W : W = S \cup {x}
  OBVIOUS
<1>2. IsFiniteSet(W) /\ S \in SUBSET W /\ W \ {x} = S /\ x \in W
  BY <1>1, FS_AddElement
<1>3. f \in [W -> Int] /\ DOMAIN f = W /\ DOMAIN g = S
  BY <1>1
<1>4. SumFunction(f) = Sums(f, W)[W] /\ SumFunction(g) = Sums(g, S)[S]
  BY <1>3, SumIsFold DEF SumFunction
<1>5. Sums(f, W)[W] = f[x] + Sums(f, W)[S]
  <2>1. Sums(f, W)[W] = f[x] + Sums(f, W)[W \ {x}]
    BY <1>2, <1>3, SumsAdd
  <2> QED BY <1>2, <2>1
<1>6. Sums(f, W)[S] = Sums(g, S)[S]
  BY <1>2, <1>3, SumsRestrict
<1>7. Sums(g, S)[S] \in Int
  BY SumsUnfold
<1>8. f[x] \in Int
  BY <1>2, <1>3
<1> QED BY <1>4, <1>5, <1>6, <1>7, <1>8
-----------------------------------------------------------------------------
(* The account of a balance.  What a request may have written by the time   *)
(* it is at a stage: each kind of write is made once, and none that names   *)
(* its plan before the request knows it.                                    *)
Posted(r) ==
  /\ r.pc \in {"received", "proof", "create", "insertUser", "update", "check", "set", "count",
               "readPlan", "award"} => r.wrote = {}
  /\ r.pc \in {"read", "decay"} => r.wrote = {} \/ r.call.op = "apiSubmit"
  /\ r.pc \in {"read", "decay", "rewardTx", "complete", "learn"} => r.wrote \subseteq {"award"}
  /\ r.pc = "reduce" => r.wrote \subseteq {"award", "learn"}
  /\ r.pc = "paap" => r.wrote \subseteq {"update"}
  /\ r.pc = "advance" => r.wrote \subseteq {"update", "paap"}
  /\ r.pc = "reread" => r.wrote \subseteq {"update", "award", "learn", "reduce"}
  /\ r.pc = "role" => r.wrote \cap {"role", "noTx"} = {}
  /\ r.pc = "transaction" => "noTx" \notin r.wrote /\ r.wrote \cap {"role", "redeem"} # {}

(* A write is of an amount, to a user who is there.                         *)
PlanWrites == {"award", "learn", "reduce"}
Payee(s, what) == IF what = "award" THEN plans[req[s].mark].id.user ELSE req[s].call.user
Credited(s) ==
  \A what \in req[s].wrote :
    /\ what \in PlanWrites => req[s].mark \in DOMAIN plans
    /\ GainOf(s, what) \in Balances
    /\ Payee(s, what) \in Users /\ users[Payee(s, what)].exists

(* The balance n is the account of u less some writes that are forgotten.   *)
Reached(u, n, t) ==
  \E W \in SUBSET Writes(u) : users[u].born[t] + Sum(Writes(u), t) - n = Sum(W, t)

(* The copy of a user that may be written whole, or from which a counter is *)
(* set, is of balances that were reached; and a user that a request is      *)
(* about to make was made, if at all, by one like it.                       *)
Copying == {"decay", "update", "paap", "set"}
Copied(r) ==
  LET u == r.call.user
  IN  /\ r.pc \in Copying => \A t \in Tokens : Reached(u, r.doc.bal[t], t)
      /\ r.pc \in {"create", "insertUser"} /\ users[u].exists => users[u].born = Nothing

(* What a request that nobody disturbs has read is what there is.           *)
Current(r) ==
  /\ r.pc \in Copying => r.doc.bal = users[r.call.user].bal
  /\ r.pc = "insertUser" => ~users[r.call.user].exists
Undisturbed ==
  /\ \A s, t \in InFlight : s = t
  /\ \A s \in Slots : Current(req[s])

AccountInv ==
  /\ KarmaInv
  /\ \A s \in Slots : Posted(req[s]) /\ Credited(s) /\ Copied(req[s])
  /\ \A u \in Users : users[u].exists => \A t \in Tokens : Reached(u, users[u].bal[t], t)
  /\ load.parallel <= 1 => Undisturbed

(* What a write is of, and whom it credits, stays as long as the request    *)
(* keeps its call and its plan, and plans keep their names.                 *)
LEMMA GainsStay ==
  ASSUME NEW t, NEW what, req'[t].call = req[t].call, req'[t].mark = req[t].mark,
         what \in PlanWrites => plans'[req[t].mark].id = plans[req[t].mark].id
  PROVE  GainOf(t, what)' = GainOf(t, what) /\ Payee(t, what)' = Payee(t, what)
<1>1. CASE what \in PlanWrites
  <2>1. Award(plans[req[t].mark])' = Award(plans[req[t].mark])
    BY <1>1 DEF Award
  <2>2. Reduction(plans[req[t].mark])' = Reduction(plans[req[t].mark])
    BY <2>1 DEF Reduction
  <2> QED BY <1>1, <2>1, <2>2 DEF GainOf, Payee, PlanWrites
<1>2. CASE what \notin PlanWrites
  BY <1>2 DEF GainOf, Payee, PlanWrites
<1> QED BY <1>1, <1>2

(* No step takes a plan away or gives it another name.                      *)
LEMMA PlanNames ==
  ASSUME TypeOK, NEW s \in Slots, PlansMove(s), NEW i \in DOMAIN plans
  PROVE  i \in DOMAIN plans' /\ plans'[i].id = plans[i].id
<1>1. plans \in Seq(Plans)
  BY DEF TypeOK
<1>2. plans[i] \in Plans
  BY <1>1
<1>3. CASE UNCHANGED plans
  BY <1>3
<1>4. CASE PlanAdded
  BY <1>1, <1>4 DEF PlanAdded
<1>5. CASE PlanProved(s)
  BY <1>1, <1>2, <1>5 DEF PlanProved, Plans
<1>6. CASE PlanCompleted(s)
  BY <1>1, <1>2, <1>6 DEF PlanCompleted, Plans
<1> QED BY <1>3, <1>4, <1>5, <1>6 DEF PlansMove

(* The writes that credit a user, for a sum.                                *)
LEMMA WritesAre ==
  ASSUME TypeOK, NEW u
  PROVE  /\ IsFiniteSet(Writes(u))
         /\ \A w : w \in Writes(u) <=>
              \E t \in Slots : \E what \in req[t].wrote : w = <<t, what>> /\ Payee(t, what) = u
<1>1. \A w : w \in Writes(u) <=>
         \E t \in Slots : \E what \in req[t].wrote : w = <<t, what>> /\ Payee(t, what) = u
  BY DEF Writes, BenefitsFrom, Payee
<1>2. Writes(u) \subseteq Slots \X Writings
  <2>1. \A t \in Slots : req[t].wrote \subseteq Writings
    BY SlotTypes
  <2> QED BY <1>1, <2>1
<1>3. IsFiniteSet(Slots)
  <2>1. Slots = 1 .. Len(req) /\ Len(req) \in Nat
    BY DEF TypeOK, Slots
  <2> QED BY <2>1, FS_Interval
<1>4. IsFiniteSet(Writings)
  <2>1. IsFiniteSet({})
    BY FS_EmptySet
  <2>2. \A S, x : IsFiniteSet(S) => IsFiniteSet(S \cup {x})
    BY FS_AddElement
  <2>3. Writings = ((((((((({} \cup {"update"}) \cup {"paap"}) \cup {"advance"}) \cup {"role"})
                     \cup {"noTx"}) \cup {"redeem"}) \cup {"set"}) \cup {"award"}) \cup {"learn"})
                   \cup {"reduce"}
    BY DEF Writings
  <2> QED BY <2>1, <2>2, <2>3
<1>5. IsFiniteSet(Slots \X Writings)
  BY <1>3, <1>4, FS_Product
<1>6. IsFiniteSet(Writes(u))
  BY <1>2, <1>5, FS_Subset
<1> QED BY <1>1, <1>6

(* The sum of some of a user's writes is a number, and that of none is 0.   *)
LEMMA SumTypes ==
  ASSUME TypeOK, \A s \in Slots : Credited(s), NEW u, NEW t \in Tokens
  PROVE  /\ \A W \in SUBSET Writes(u) : Sum(W, t) \in Int
         /\ Sum({}, t) = 0
<1>1. /\ IsFiniteSet(Writes(u))
      /\ \A w \in Writes(u) : GainOf(w[1], w[2]) \in Balances
  <2>1. /\ IsFiniteSet(Writes(u))
        /\ \A w : w \in Writes(u) <=>
             \E s \in Slots : \E what \in req[s].wrote : w = <<s, what>> /\ Payee(s, what) = u
    BY WritesAre
  <2>2. ASSUME NEW w \in Writes(u) PROVE GainOf(w[1], w[2]) \in Balances
    <3>1. PICK s, what : s \in Slots /\ what \in req[s].wrote /\ w = <<s, what>>
      BY <2>1
    <3>2. w[1] = s /\ w[2] = what
      BY <3>1
    <3> QED BY <3>1, <3>2 DEF Credited
  <2> QED BY <2>1, <2>2
<1>2. ASSUME NEW W \in SUBSET Writes(u) PROVE Sum(W, t) \in Int
  <2> DEFINE f == [w \in W |-> GainOf(w[1], w[2])[t]]
  <2>1. IsFiniteSet(W)
    BY <1>1, FS_Subset
  <2>2. f \in [W -> Int]
    BY <1>1 DEF Balances
  <2>3. Sum(W, t) = SumFunctionOnSet(f, W)
    BY DEF Sum, SumFunction
  <2> HIDE DEF f
  <2>4. Sums(f, W)[W] \in Int
    BY <2>1, <2>2, SumsUnfold
  <2> QED BY <2>3, <2>4, SumIsFold
<1>3. Sum({}, t) = 0
  <2> DEFINE f == [w \in {} |-> GainOf(w[1], w[2])[t]]
  <2>1. DOMAIN f = {}
    OBVIOUS
  <2>2. Sum({}, t) = SumFunction(f)
    BY DEF Sum
  <2> HIDE DEF f
  <2> QED BY <2>1, <2>2, SumOfNone
<1> QED BY <1>2, <1>3
-----------------------------------------------------------------------------
(* What a step does to the accounts: it makes no write, or one write once,  *)
(* which is of an amount and to a user who is there.  Each balance changes  *)
(* by what is written to its user, unless it is written over from a copy.   *)
Whole(r, u) ==
  /\ r.call.user = u
  /\ \/ r.pc = "insertUser"
     \/ r.pc = "decay" /\ r.doc.last_decay # "naive"
     \/ r.pc = "update" /\ r.call.op = "apiLog" /\ IsPaap(r.call.what)
     \/ r.pc = "paap"
Follows(s, r) ==
  /\ r.pc \in Stages /\ req' = [req EXCEPT ![s] = r] /\ r.call.user = req[s].call.user
  /\ req[s].wrote # {} => r.call = req[s].call /\ r.mark = req[s].mark
  /\ Posted(r)
  /\ \A v \in Users : Whole(r, v) => ~Settled(v)
Changes(s, v, gain) ==
  users[v].exists =>
    \A t \in Tokens :
      \/ users'[v].bal[t] = users[v].bal[t] + gain[t]
      \/ /\ req[s].call.user = v /\ req[s].pc \in Copying
         /\ Whole(req[s], v) \/ t = "PrarabdhaKarma"
         /\ users'[v].bal[t] = req[s].doc.bal[t] + gain[t]
Copies(s, r, gain) ==
  LET u == req[s].call.user
  IN  /\ r.pc \in {"create", "insertUser"} => ~users'[u].exists
      /\ r.pc \in Copying =>
           \/ users[u].exists /\ \A t \in Tokens : r.doc.bal[t] = users[u].bal[t] + gain[t]
           \/ /\ req[s].pc \in Copying
              /\ \A t \in Tokens : r.doc.bal[t] = req[s].doc.bal[t] + gain[t]
           \/ users'[u].exists /\ users'[u].born = Nothing /\ r.doc.bal = Nothing
Silent(s, r) ==
  /\ r.wrote = req[s].wrote
  /\ \A v \in Users : Changes(s, v, Nothing)
  /\ Copies(s, r, Nothing)
Pays(s, r) ==
  \E what \in Writings, gain \in Balances, b \in Users :
    /\ what \notin req[s].wrote /\ r.wrote = req[s].wrote \cup {what}
    /\ what \in PlanWrites => r.mark \in DOMAIN plans /\ UNCHANGED plans
    /\ GainOf(s, what)' = gain /\ Payee(s, what)' = b /\ users[b].exists
    /\ \A v \in Users \ {b} : Changes(s, v, Nothing)
    /\ Changes(s, b, gain)
    /\ Copies(s, r, gain) /\ (r.pc \in Copying => b = req[s].call.user)
Accounts(s) ==
  /\ req[s].pc \notin Finished
  /\ \E r : /\ Follows(s, r)
            /\ Silent(s, r) \/ Pays(s, r)
            /\ Undisturbed => Current(r)'

Made(s, r, pc, doc, wrote, mark) ==
  /\ req' = [req EXCEPT ![s] = r]
  /\ r.call = req[s].call /\ r.pc = pc /\ r.doc = doc /\ r.wrote = wrote /\ r.mark = mark

(* How the stages of a request change what it has written.                  *)
LEMMA Making ==
  ASSUME TypeOK, NEW s \in Slots, NEW pc
  PROVE  /\ Goto(s, pc) => \E r : Made(s, r, pc, req[s].doc, req[s].wrote, req[s].mark)
         /\ \A doc : Read(s, doc, pc) => \E r : Made(s, r, pc, doc, req[s].wrote, req[s].mark)
         /\ \A what : Wrote(s, what, pc) =>
              \E r : Made(s, r, pc, req[s].doc, req[s].wrote \cup {what}, req[s].mark)
<1>1. req[s] \in Requests /\ s \in DOMAIN req
  BY SlotTypes DEF Slots
<1>2. ASSUME Goto(s, pc) PROVE \E r : Made(s, r, pc, req[s].doc, req[s].wrote, req[s].mark)
  <2> DEFINE r == [req[s] EXCEPT !.pc = pc]
  <2>1. Made(s, r, pc, req[s].doc, req[s].wrote, req[s].mark)
    BY <1>1, <1>2 DEF Goto, Made, Requests
  <2> QED BY <2>1
<1>3. ASSUME NEW doc, Read(s, doc, pc)
      PROVE  \E r : Made(s, r, pc, doc, req[s].wrote, req[s].mark)
  <2> DEFINE r == [req[s] EXCEPT !.doc = doc, !.pc = pc]
  <2>1. req' = [req EXCEPT ![s] = r]
    BY <1>1, <1>3 DEF Read
  <2>2. Made(s, r, pc, doc, req[s].wrote, req[s].mark)
    BY <1>1, <2>1 DEF Made, Requests
  <2> QED BY <2>2
<1>4. ASSUME NEW what, Wrote(s, what, pc)
      PROVE  \E r : Made(s, r, pc, req[s].doc, req[s].wrote \cup {what}, req[s].mark)
  <2> DEFINE wrote == req[s].wrote \cup {what}
             r == [req[s] EXCEPT !.wrote = wrote, !.pc = pc]
  <2>1. req' = [req EXCEPT ![s] = r]
    BY <1>1, <1>4 DEF Wrote
  <2> HIDE DEF wrote
  <2>2. Made(s, r, pc, req[s].doc, wrote, req[s].mark)
    BY <1>1, <2>1 DEF Made, Requests
  <2> QED BY <2>2 DEF wrote
<1> QED BY <1>2, <1>3, <1>4

(* Balances that stay as they are change by nothing.                        *)
LEMMA Unchanging ==
  ASSUME TypeOK, NEW s, NEW v \in Users, users[v].exists => users'[v].bal = users[v].bal
  PROVE  Changes(s, v, Nothing)
<1>1. users[v].exists => users[v].bal \in Balances
  BY UserTypes DEF Documents, Balances
<1>2. \A b \in Balances, t \in Tokens : b[t] = b[t] + Nothing[t]
  BY DEF Balances, Nothing
<1> QED BY <1>1, <1>2 DEF Changes

(* A step that only looks at the users, or at other collections, and reads  *)
(* a user whom it relies on later.                                          *)
LEMMA Looking ==
  ASSUME AccountInv, NEW s \in Slots, NEW pc \in Stages, NEW doc, NEW mark, NEW r,
         Made(s, r, pc, doc, req[s].wrote, mark),
         req[s].wrote # {} => mark = req[s].mark,
         req[s].pc \notin Finished, UNCHANGED users, Posted(r),
         pc \in {"create", "insertUser"} => ~users[r.call.user].exists,
         pc \in {"update", "paap"} => FALSE,
         pc \in {"decay", "set"} => users[r.call.user].exists /\ doc = users[r.call.user]
  PROVE  Accounts(s)
<1> DEFINE u == r.call.user
<1>1. /\ req' = [req EXCEPT ![s] = r]
      /\ r.call = req[s].call /\ r.pc = pc /\ r.wrote = req[s].wrote /\ r.mark = mark
      /\ r.doc = doc
  BY DEF Made
<1>2. TypeOK /\ u \in Users
  BY <1>1, SlotTypes, CallTypes DEF AccountInv, KarmaInv
<1>3. \A v \in Users : Whole(r, v) => ~Settled(v)
  BY <1>1 DEF Whole, Settled
<1>4. Follows(s, r)
  BY <1>1, <1>3 DEF Follows
<1>5. \A v \in Users : Changes(s, v, Nothing)
  BY <1>2, Unchanging
<1>6. Copies(s, r, Nothing)
  <2>1. users[u].exists => users[u].bal \in Balances
    BY <1>2, UserTypes DEF Documents, Balances
  <2>2. \A b \in Balances, t \in Tokens : b[t] = b[t] + Nothing[t]
    BY DEF Balances, Nothing
  <2> QED BY <1>1, <2>1, <2>2 DEF Copies, Copying
<1>7. Current(r)'
  BY <1>1 DEF Current, Copying
<1> QED BY <1>1, <1>4, <1>5, <1>6, <1>7 DEF Accounts, Silent

(* A request that ends has nothing left to show.                            *)
LEMMA Leaving ==
  ASSUME AccountInv, NEW s \in Slots, NEW how \in Finished, Goto(s, how),
         req[s].pc \notin Finished, UNCHANGED users
  PROVE  Accounts(s)
<1>1. PICK r : Made(s, r, how, req[s].doc, req[s].wrote, req[s].mark)
  BY Making DEF AccountInv, KarmaInv
<1>2. r.pc = how /\ how \in {"done", "rejected", "raised", "failed"} /\ how \in Stages
  BY <1>1 DEF Made, Finished, Stages
<1>3. Posted(r)
  BY <1>2 DEF Posted
<1> QED BY <1>1, <1>2, <1>3, Looking

(* A step that writes no balance, to a stage that relies on no copy.        *)
Careless == Stages \ ({"create", "insertUser"} \cup Copying)
LEMMA Passing ==
  ASSUME AccountInv, NEW s \in Slots, NEW pc \in Careless, NEW doc,
         Goto(s, pc) \/ Read(s, doc, pc),
         \A r : r.pc = pc /\ r.call = req[s].call /\ r.wrote = req[s].wrote => Posted(r),
         req[s].pc \notin Finished, UNCHANGED users
  PROVE  Accounts(s)
<1>1. PICK r, d : Made(s, r, pc, d, req[s].wrote, req[s].mark)
  BY Making DEF AccountInv, KarmaInv
<1>2. r.pc = pc /\ r.call = req[s].call /\ r.wrote = req[s].wrote
  BY <1>1 DEF Made
<1>3. Posted(r)
  BY <1>2
<1>4. pc \in Stages /\ pc \notin {"create", "insertUser", "decay", "update", "paap", "set"}
  BY DEF Careless, Copying
<1> QED BY <1>1, <1>3, <1>4, Looking

(* The steps that write no balance: of records and deaths, of debts, and of *)
(* lives.                                                                   *)
LEMMA RecordAccounts ==
  ASSUME AccountInv, NEW s \in Slots,
         \/ RecordRequest(s) \/ UnknownEvent(s) \/ Fail(s) \/ LogTransaction(s)
         \/ CheckThreshold(s) \/ ReadDeath(s) \/ InsertDeath(s) \/ Reread(s)
  PROVE  Accounts(s)
<1>1. Posted(req[s]) /\ TypeOK
  BY DEF AccountInv, KarmaInv
<1>2. {"failed", "rejected", "done"} \subseteq Finished
  BY DEF Finished
<1>3. CASE RecordRequest(s)
  <2> DEFINE pc == IF req[s].call.op = "apiSubmit" THEN "proof" ELSE "read"
  <2>1. req[s].pc = "received" /\ Goto(s, pc) /\ UNCHANGED users
    BY <1>3 DEF RecordRequest, At
  <2>2. pc \in {"proof", "read"}
    OBVIOUS
  <2> HIDE DEF pc
  <2>3. pc \in Careless /\ req[s].pc \notin Finished
    BY <2>1, <2>2 DEF Stages, Careless, Copying, Finished
  <2>4. \A r : r.pc = pc /\ r.call = req[s].call /\ r.wrote = req[s].wrote => Posted(r)
    BY <1>1, <2>1, <2>2 DEF Posted
  <2> QED BY <2>1, <2>3, <2>4, Passing
<1>4. CASE UnknownEvent(s)
  <2>1. req[s].pc = "received" /\ Goto(s, "rejected") /\ UNCHANGED users
    BY <1>4 DEF UnknownEvent, At
  <2> QED BY <1>2, <2>1, Leaving DEF Finished
<1>5. CASE Fail(s)
  <2>1. req[s].pc \notin Finished /\ Goto(s, "failed") /\ UNCHANGED users
    BY <1>5 DEF Fail, Finish
  <2> QED BY <1>2, <2>1, Leaving
<1>6. CASE LogTransaction(s)
  <2>1. req[s].pc = "transaction" /\ UNCHANGED users
        /\ (Goto(s, "debt") \/ Goto(s, "done"))
    BY <1>6 DEF LogTransaction, At, AfterTransaction, Finish
  <2>2. CASE Goto(s, "debt")
    <3>1. \A r : r.pc = "debt" => Posted(r)
      BY DEF Posted
    <3>2. "debt" \in Careless
      BY DEF Stages, Careless, Copying
    <3> QED BY <2>1, <2>2, <3>1, <3>2, Passing DEF Finished
  <2> QED BY <1>2, <2>1, <2>2, Leaving DEF Finished
<1>7. CASE ReadDeath(s)
  <2>1. /\ req[s].pc \in {"readDeath", "received"} /\ UNCHANGED users
        /\ Read(s, users[req[s].call.user], "insertDeath") \/ Goto(s, "rejected")
    BY <1>7 DEF ReadDeath, At, Finish
  <2>2. CASE Read(s, users[req[s].call.user], "insertDeath")
    <3>1. \A r : r.pc = "insertDeath" => Posted(r)
      BY DEF Posted
    <3>2. "insertDeath" \in Careless
      BY DEF Stages, Careless, Copying
    <3> QED BY <2>1, <2>2, <3>1, <3>2, Passing DEF Finished
  <2> QED BY <1>2, <2>1, <2>2, Leaving DEF Finished
<1>8. CASE InsertDeath(s)
  <2>1. req[s].pc = "insertDeath" /\ Goto(s, "done") /\ UNCHANGED users
    BY <1>8 DEF InsertDeath, At, Finish
  <2> QED BY <1>2, <2>1, Leaving DEF Finished
<1>9. CASE Reread(s)
  <2>1. /\ req[s].pc = "reread" /\ UNCHANGED users
        /\ Read(s, users[req[s].call.user], "role")
    BY <1>9 DEF Reread, At
  <2>2. \A r : r.pc = "role" /\ r.call = req[s].call /\ r.wrote = req[s].wrote => Posted(r)
    BY <1>1, <2>1 DEF Posted
  <2>3. "role" \in Careless
    BY DEF Stages, Careless, Copying
  <2> QED BY <2>1, <2>2, <2>3, Passing DEF Finished
<1>10. CASE CheckThreshold(s)
  <2> DEFINE c == req[s].call
             d == IF users[c.user].bal["PrarabdhaKarma"] <= DeathThreshold
                  THEN [c EXCEPT !.op = "process"] ELSE c
  <2>1. /\ req[s].pc = "received" /\ UNCHANGED users
        /\ \/ Goto(s, "rejected")
           \/ req' = [req EXCEPT ![s].pc = "readDeath",
                 ![s].call = IF users[c.user].bal["PrarabdhaKarma"] <= DeathThreshold
                             THEN [@ EXCEPT !.op = "process"] ELSE @]
    BY <1>10 DEF CheckThreshold, At, Finish
  <2>2. PICK r : r = [req[s] EXCEPT !.pc = "readDeath", !.call = d]
    OBVIOUS
  <2>3. CASE req' # [req EXCEPT ![s] = r]
    <3>1. Goto(s, "rejected")
      <4>1. req[s] \in Requests /\ s \in DOMAIN req
        BY <1>1, SlotTypes DEF Slots
      <4> QED BY <2>1, <2>2, <2>3, <4>1
    <3> QED BY <1>2, <2>1, <3>1, Leaving DEF Finished
  <2>4. CASE req' = [req EXCEPT ![s] = r]
    <3>1. d.user = c.user
      BY <1>1, SlotTypes, CallTypes
    <3> HIDE DEF d
    <3>2. r.pc = "readDeath" /\ r.wrote = req[s].wrote /\ r.call.user = req[s].call.user
      BY <1>1, <2>2, <3>1, SlotTypes DEF Requests
    <3>3. Posted(r) /\ Current(r)' /\ r.pc \in Stages /\ Copies(s, r, Nothing)
      BY <3>2 DEF Posted, Current, Stages, Copies, Copying
    <3>4. req[s].wrote = {} /\ \A v \in Users : ~Whole(r, v)
      BY <1>1, <2>1, <3>2 DEF Posted, Whole
    <3>5. Follows(s, r)
      BY <2>4, <3>2, <3>3, <3>4 DEF Follows
    <3>6. Silent(s, r)
      BY <1>1, <2>1, <3>2, <3>3, Unchanging DEF Silent
    <3> QED BY <2>1, <3>3, <3>5, <3>6 DEF Accounts, Finished
  <2> QED BY <2>3, <2>4
<1> QED BY <1>3, <1>4, <1>5, <1>6, <1>7, <1>8, <1>9, <1>10

(* The steps of plans and debts that write no balance.                      *)
LEMMA PlanAccounts ==
  ASSUME AccountInv, NEW s \in Slots,
         \/ CountPlans(s) \/ InsertPlan(s) \/ SubmitProof(s) \/ ReadPlan(s)
         \/ RewardTransaction(s) \/ CompletePlan(s)
  PROVE  Accounts(s)
<1> DEFINE wrote == req[s].wrote
<1>1. Posted(req[s]) /\ TypeOK
  BY DEF AccountInv, KarmaInv
<1>2. {"failed", "rejected", "done"} \subseteq Finished
  BY DEF Finished
<1>3. req[s] \in Requests /\ s \in DOMAIN req
  BY <1>1, SlotTypes DEF Slots
<1>4. ASSUME AfterProof(s), req[s].call.op \in Submits, UNCHANGED users,
             req[s].pc \in {"readPlan", "complete"}
      PROVE  Accounts(s)
  <2>1. CASE Goto(s, "read") /\ req[s].call.op = "apiSubmit"
    <3>1. \A r : r.pc = "read" /\ r.call = req[s].call /\ r.wrote = wrote => Posted(r)
      BY <1>1, <1>4, <2>1 DEF Posted
    <3>2. "read" \in Careless
      BY DEF Stages, Careless, Copying
    <3> QED BY <1>4, <2>1, <3>1, <3>2, Passing DEF Finished
  <2>2. CASE Goto(s, "done")
    BY <1>2, <1>4, <2>2, Leaving DEF Finished
  <2> QED BY <1>4, <2>1, <2>2 DEF AfterProof, Finish, Submits
<1>5. CASE CountPlans(s)
  <2>1. PICK mark : mark = Cardinality(PlansOf(req[s].call.user))
    OBVIOUS
  <2>2. /\ req[s].pc = "count" /\ UNCHANGED users
        /\ \/ Goto(s, "rejected")
           \/ req' = [req EXCEPT ![s].mark = mark, ![s].pc = "insertPlan"]
    BY <1>5, <2>1 DEF CountPlans, At, Finish
  <2>3. CASE req' = [req EXCEPT ![s].mark = mark, ![s].pc = "insertPlan"]
    <3>1. PICK r : r = [req[s] EXCEPT !.mark = mark, !.pc = "insertPlan"]
      OBVIOUS
    <3>2. req' = [req EXCEPT ![s] = r]
      BY <1>3, <2>3, <3>1
    <3>3. Made(s, r, "insertPlan", req[s].doc, wrote, mark)
      BY <1>3, <3>1, <3>2 DEF Made, Requests
    <3>4. r.pc = "insertPlan"
      BY <3>3 DEF Made
    <3>5. wrote = {} /\ Posted(r) /\ "insertPlan" \in Stages
      BY <1>1, <2>2, <3>4 DEF Posted, Stages
    <3> QED BY <2>2, <3>3, <3>5, Looking DEF Finished
  <2> QED BY <1>2, <2>2, <2>3, Leaving DEF Finished
<1>6. CASE InsertPlan(s)
  <2>1. req[s].pc = "insertPlan" /\ Goto(s, "done") /\ UNCHANGED users
    BY <1>6 DEF InsertPlan, At, Finish
  <2> QED BY <1>2, <2>1, Leaving DEF Finished
<1>7. CASE SubmitProof(s)
  <2>1. PICK mark : mark = Found(req[s].call.id)
    OBVIOUS
  <2>2. /\ req[s].pc \in {"received", "proof"} /\ UNCHANGED users
        /\ \/ Goto(s, "rejected")
           \/ req' = [req EXCEPT ![s].mark = mark, ![s].pc = "readPlan"]
    BY <1>7, <2>1 DEF SubmitProof, At, Finish
  <2>3. CASE req' = [req EXCEPT ![s].mark = mark, ![s].pc = "readPlan"]
    <3>1. PICK r : r = [req[s] EXCEPT !.mark = mark, !.pc = "readPlan"]
      OBVIOUS
    <3>2. req' = [req EXCEPT ![s] = r]
      BY <1>3, <2>3, <3>1
    <3>3. Made(s, r, "readPlan", req[s].doc, wrote, mark)
      BY <1>3, <3>1, <3>2 DEF Made, Requests
    <3>4. r.pc = "readPlan" /\ r.wrote = wrote
      BY <3>3 DEF Made
    <3>5. wrote = {} /\ Posted(r) /\ "readPlan" \in Stages
      BY <1>1, <2>2, <3>4 DEF Posted, Stages
    <3> QED BY <2>2, <3>3, <3>5, Looking DEF Finished
  <2> QED BY <1>2, <2>2, <2>3, Leaving DEF Finished
<1>8. CASE ReadPlan(s)
  <2>1. /\ req[s].pc = "readPlan" /\ req[s].call.op \in Submits /\ UNCHANGED users
        /\ Goto(s, "award") \/ AfterProof(s)
    BY <1>8 DEF ReadPlan, At
  <2>2. CASE Goto(s, "award")
    <3>1. \A r : r.pc = "award" /\ r.call = req[s].call /\ r.wrote = wrote => Posted(r)
      BY <1>1, <2>1 DEF Posted
    <3>2. "award" \in Careless
      BY DEF Stages, Careless, Copying
    <3> QED BY <2>1, <2>2, <3>1, <3>2, Passing DEF Finished
  <2> QED BY <1>4, <2>1, <2>2
<1>9. CASE RewardTransaction(s)
  <2>1. req[s].pc = "rewardTx" /\ Goto(s, "complete") /\ UNCHANGED users
    BY <1>9 DEF RewardTransaction, At
  <2>2. \A r : r.pc = "complete" /\ r.call = req[s].call /\ r.wrote = wrote => Posted(r)
    BY <1>1, <2>1 DEF Posted
  <2>3. "complete" \in Careless
    BY DEF Stages, Careless, Copying
  <2> QED BY <2>1, <2>2, <2>3, Passing DEF Finished
<1>10. CASE CompletePlan(s)
  <2>1. req[s].pc = "complete" /\ req[s].call.op \in Submits /\ AfterProof(s)
        /\ UNCHANGED users
    BY <1>10 DEF CompletePlan, At
  <2> QED BY <1>4, <2>1
<1> QED BY <1>5, <1>6, <1>7, <1>8, <1>9, <1>10

LEMMA DebtAccounts ==
  ASSUME AccountInv, NEW s \in Slots, DebtStep(s)
  PROVE  Accounts(s)
<1>1. UNCHANGED users
  BY DEF DebtStep, CreateDebt, DebtOfCheat, ReadDebt, RepayDebt, InsertTransferred, MarkTransferred
<1>2. {"rejected", "done"} \subseteq Finished
  BY DEF Finished
<1>3. ASSUME NEW pc \in {"repay", "transfer", "markTransferred"}, NEW doc,
             Goto(s, pc) \/ Read(s, doc, pc), req[s].pc \notin Finished
      PROVE  Accounts(s)
  <2>1. \A r : r.pc = pc => Posted(r)
    BY DEF Posted
  <2>2. pc \in Careless
    BY DEF Stages, Careless, Copying
  <2> QED BY <1>1, <1>3, <2>1, <2>2, Passing
<1>4. CASE CreateDebt(s) \/ DebtOfCheat(s) \/ RepayDebt(s) \/ MarkTransferred(s)
  <2>1. req[s].pc \in {"received", "debt", "repay", "markTransferred"}
        /\ (Goto(s, "done") \/ Goto(s, "rejected"))
    BY <1>4 DEF CreateDebt, DebtOfCheat, RepayDebt, MarkTransferred, At, Finish
  <2> QED BY <1>1, <1>2, <2>1, Leaving DEF Finished
<1>5. CASE ReadDebt(s)
  <2>1. /\ req[s].pc = "received" /\ req[s].call.op \in DebtOps
        /\ Goto(s, "rejected") \/ Read(s, debts[req[s].call.id], req[s].call.op)
    BY <1>5 DEF ReadDebt, At, Finish
  <2> QED BY <1>1, <1>2, <1>3, <2>1, Leaving DEF Finished, DebtOps
<1>6. CASE InsertTransferred(s)
  <2>1. req[s].pc = "transfer" /\ Goto(s, "markTransferred")
    BY <1>6 DEF InsertTransferred, At
  <2> QED BY <1>3, <2>1 DEF Finished
<1> QED BY <1>4, <1>5, <1>6 DEF DebtStep

(* The lives that are added or ended have the balances they had.            *)
LEMMA LifeAccounts ==
  ASSUME AccountInv, NEW s \in Slots, InsertReborn(s) \/ MarkDeceased(s)
  PROVE  Accounts(s)
<1>1. Sound(s, req[s]) /\ TypeOK
  BY DEF AccountInv, KarmaInv
<1>2. users \in [Users -> Documents \cup {NoDoc}] /\ req[s].call.user \in Users
  BY <1>1, SlotTypes DEF TypeOK
<1>3. ASSUME NEW pc \in {"markDeceased", "done"}, Goto(s, pc), req[s].pc \notin Finished,
             \A v \in Users : users[v].exists => users'[v].bal = users[v].bal
      PROVE  Accounts(s)
  <2>1. PICK r : Made(s, r, pc, req[s].doc, req[s].wrote, req[s].mark)
    BY <1>1, <1>3, Making
  <2>2. /\ r.pc = pc /\ r.call = req[s].call /\ r.wrote = req[s].wrote
        /\ r.mark = req[s].mark /\ req' = [req EXCEPT ![s] = r]
    BY <2>1 DEF Made
  <2>3. Posted(r) /\ Current(r)' /\ r.pc \in Stages /\ Copies(s, r, Nothing)
    BY <2>2 DEF Posted, Current, Stages, Copies, Copying, Finished
  <2>4. \A v \in Users : ~Whole(r, v)
    BY <2>2 DEF Whole
  <2>5. Follows(s, r)
    BY <2>2, <2>3, <2>4 DEF Follows
  <2>6. Silent(s, r)
    BY <1>1, <1>3, <2>2, <2>3, Unchanging DEF Silent
  <2> QED BY <1>3, <2>3, <2>5, <2>6 DEF Accounts
<1>4. CASE InsertReborn(s)
  <2>1. /\ req[s].pc = "insert" /\ Goto(s, "markDeceased")
        /\ \E new \in {u \in Users : IsNew(u)} :
             users' = [users EXCEPT ![new] = RebornDoc(req[s].call.user, req[s].doc)]
    BY <1>4 DEF InsertReborn, At
  <2>2. \A v \in Users : users[v].exists => users'[v].bal = users[v].bal
    BY <1>2, <2>1 DEF IsNew
  <2> QED BY <1>3, <2>1, <2>2 DEF Finished
<1>5. CASE MarkDeceased(s)
  <2> DEFINE u == req[s].call.user
  <2>1. /\ req[s].pc = "markDeceased" /\ Goto(s, "done")
        /\ users' = [users EXCEPT ![u].dead = TRUE]
    BY <1>5 DEF MarkDeceased, At, Finish
  <2>2. users[u] \in Documents
    BY <1>1, <1>2, <2>1, UserTypes DEF Sound, HoldsUser, UserStages
  <2>3. \A v \in Users : users[v].exists => users'[v].bal = users[v].bal
    BY <1>2, <2>1, <2>2 DEF Documents
  <2> QED BY <1>3, <2>1, <2>3 DEF Finished
<1> QED BY <1>4, <1>5

(* The steps that read a user for a request that writes its balances later, *)
(* or that create the user.                                                 *)
LEMMA ReadAccounts ==
  ASSUME AccountInv, NEW s \in Slots, ReadUser(s) \/ CheckAgain(s) \/ InsertUser(s)
  PROVE  Accounts(s)
<1> DEFINE c == req[s].call
           u == c.user
           wrote == req[s].wrote
           mark == req[s].mark
<1>1. Posted(req[s]) /\ Copied(req[s]) /\ TypeOK /\ {"rejected"} \subseteq Finished
  BY DEF AccountInv, KarmaInv, Finished
<1>2. /\ users \in [Users -> Documents \cup {NoDoc}] /\ u \in Users
      /\ \A v \in Users : users[v].exists \in BOOLEAN
  BY <1>1, SlotTypes, UserTypes DEF TypeOK
<1>3. ASSUME NEW pc \in {"decay", "set"}, Read(s, users[u], pc), UNCHANGED users, users[u].exists,
             req[s].pc \notin Finished,
             wrote = {} \/ (pc = "decay" /\ c.op = "apiSubmit" /\ wrote \subseteq {"award"})
      PROVE  Accounts(s)
  <2>1. PICK r : Made(s, r, pc, users[u], wrote, mark)
    BY <1>1, <1>3, Making
  <2>2. r.pc = pc /\ r.call = c /\ r.wrote = wrote /\ r.doc = users[u]
    BY <2>1 DEF Made
  <2>3. Posted(r)
    BY <1>3, <2>2 DEF Posted
  <2>4. pc \in Stages
    BY DEF Stages
  <2> QED BY <1>3, <2>1, <2>2, <2>3, <2>4, Looking
<1>4. ASSUME NEW pc \in {"create", "insertUser"}, NEW doc,
             Read(s, doc, pc) \/ Goto(s, pc), UNCHANGED users, ~users[u].exists,
             req[s].pc \notin Finished, wrote = {}
      PROVE  Accounts(s)
  <2>1. PICK r, d : Made(s, r, pc, d, wrote, mark)
    BY <1>1, <1>4, Making
  <2>2. r.pc = pc /\ r.call = c /\ r.wrote = wrote
    BY <2>1 DEF Made
  <2>3. Posted(r)
    BY <1>4, <2>2 DEF Posted
  <2>4. pc \in Stages
    BY DEF Stages
  <2> QED BY <1>4, <2>1, <2>2, <2>3, <2>4, Looking
<1>5. CASE ReadUser(s)
  <2>1. /\ UNCHANGED users
        /\ \/ req[s].pc = "received" /\ c.op \in Readers
           \/ req[s].pc = "read" /\ c.op \in ApiOps
    BY <1>5 DEF ReadUser, At
  <2>2. req[s].pc \notin Finished
    BY <2>1 DEF Finished
  <2>3. CASE Goto(s, "rejected")
    BY <1>1, <2>1, <2>2, <2>3, Leaving
  <2>4. CASE Read(s, users[u], AfterRead[c.op]) /\ users[u].exists
    <3> DEFINE pc == AfterRead[c.op]
    <3>1. \/ pc = "decay"
          \/ pc = "set" /\ c.op = "prarabdha"
          \/ pc = "count" /\ c.op = "appeal"
          \/ pc = "insert" /\ c.op = "rebirth"
      BY <2>1, AfterReadStages
    <3>2. wrote = {} \/ (pc = "decay" /\ c.op = "apiSubmit" /\ wrote \subseteq {"award"})
      <4>1. CASE req[s].pc = "received"
        BY <1>1, <4>1 DEF Posted
      <4>2. CASE req[s].pc = "read" /\ c.op \in ApiOps
        <5>1. pc = "decay"
          BY <3>1, <4>2 DEF ApiOps
        <5> QED BY <1>1, <4>2, <5>1 DEF Posted
      <4> QED BY <2>1, <4>1, <4>2
    <3> HIDE DEF pc
    <3>3. CASE pc \in {"decay", "set"}
      BY <1>3, <2>1, <2>2, <2>4, <3>2, <3>3 DEF pc
    <3>4. CASE pc \in {"count", "insert"}
      <4>1. pc \in Careless
        BY <3>4 DEF Stages, Careless, Copying
      <4>2. \A r : r.pc = pc /\ r.call = c /\ r.wrote = wrote => Posted(r)
        BY <3>2, <3>4 DEF Posted
      <4> QED BY <2>1, <2>2, <2>4, <4>1, <4>2, Passing DEF pc
    <3> QED BY <3>1, <3>3, <3>4
  <2>5. CASE Read(s, NoDoc, "create") /\ c.op \in Logs /\ ~users[u].exists
    <3>1. wrote = {}
      BY <1>1, <2>1, <2>5 DEF Posted, Logs
    <3> QED BY <1>4, <2>1, <2>2, <2>5, <3>1
  <2> QED BY <1>5, <2>3, <2>4, <2>5 DEF ReadUser, Finish
<1>6. CASE CheckAgain(s)
  <2>1. /\ UNCHANGED users /\ req[s].pc = "create" /\ wrote = {}
        /\ IF users[u].exists THEN Read(s, users[u], "decay") ELSE Goto(s, "insertUser")
    BY <1>1, <1>6 DEF CheckAgain, At, Posted
  <2>2. req[s].pc \notin Finished
    BY <2>1 DEF Finished
  <2> QED BY <1>3, <1>4, <2>1, <2>2
<1>7. CASE InsertUser(s)
  <2>1. PICK fresh, stored : /\ fresh = NewDoc(Nothing, "learner", "aware")
                             /\ stored = NewDoc(Nothing, "learner", "naive")
    OBVIOUS
  <2>2. /\ req[s].pc = "insertUser" /\ wrote = {} /\ Read(s, fresh, "decay")
        /\ users' = IF users[u].exists THEN users ELSE [users EXCEPT ![u] = stored]
    BY <1>1, <1>7, <2>1 DEF InsertUser, At, Posted
  <2>3. fresh.bal = Nothing /\ stored.bal = Nothing /\ stored.born = Nothing /\ stored.exists
    BY <2>1 DEF NewDoc
  <2>4. PICK r : Made(s, r, "decay", fresh, wrote, mark)
    BY <1>1, <2>2, Making
  <2>5. r.pc = "decay" /\ r.call = c /\ r.wrote = wrote /\ r.mark = mark /\ r.doc = fresh
        /\ req' = [req EXCEPT ![s] = r]
    BY <2>4 DEF Made
  <2>6. Posted(r) /\ r.pc \in Stages
    BY <2>2, <2>5 DEF Posted, Stages
  <2>7. \A v \in Users : Whole(r, v) => ~Settled(v)
    BY <2>2, <2>5 DEF Whole, Settled, WritesWhole
  <2>8. \A v \in Users : Changes(s, v, Nothing)
    <3>1. \A v \in Users : users[v].exists => users'[v] = users[v]
      BY <1>2, <2>2
    <3> QED BY <1>1, <3>1, Unchanging
  <2>9. users'[u].exists /\ users'[u].born = Nothing
    BY <1>1, <1>2, <2>2, <2>3 DEF Copied
  <2>10. Copies(s, r, Nothing)
    BY <2>3, <2>5, <2>9 DEF Copies
  <2>11. Follows(s, r) /\ Silent(s, r)
    BY <2>5, <2>6, <2>7, <2>8, <2>10 DEF Follows, Silent
  <2>12. ASSUME Undisturbed PROVE Current(r)'
    <3>1. ~users[u].exists
      BY <2>2, <2>12 DEF Undisturbed, Current
    <3>2. users'[u] = stored
      BY <1>2, <2>2, <3>1
    <3> QED BY <2>3, <2>5, <3>2 DEF Current
  <2> QED BY <2>2, <2>11, <2>12 DEF Accounts, Finished
<1> QED BY <1>5, <1>6, <1>7

(* A first request writes the balances of its copy, or leaves them, and     *)
(* keeps its copy; any other ends here.                                     *)
LEMMA DecayAccounts ==
  ASSUME AccountInv, NEW s \in Slots, ApplyDecayAndExpiry(s)
  PROVE  Accounts(s)
<1> DEFINE c == req[s].call
           u == c.user
           doc == req[s].doc
           wrote == req[s].wrote
           mark == req[s].mark
           pc == AfterDecay[c.op]
<1>1. Posted(req[s]) /\ TypeOK /\ Sound(s, req[s])
  BY DEF AccountInv, KarmaInv
<1>2. req[s].pc = "decay" /\ req[s].pc \notin Finished
  BY DEF ApplyDecayAndExpiry, Finished
<1>3. /\ users \in [Users -> Documents \cup {NoDoc}] /\ u \in Users
      /\ doc \in Documents /\ users[u].exists /\ users[u] \in Documents /\ doc.bal \in Balances
  BY <1>1, <1>2, SlotTypes, UserTypes DEF TypeOK, Sound, HoldsUser, UserStages, Documents, Balances
<1>4. CASE doc.last_decay = "naive"
  <2>1. Goto(s, "raised") /\ UNCHANGED users
    BY <1>4 DEF ApplyDecayAndExpiry, Finish
  <2> QED BY <1>2, <2>1, Leaving DEF Finished
<1>5. CASE doc.last_decay # "naive"
  <2>1. PICK copy :
          /\ copy = [doc EXCEPT !.last_decay = "aware"] \/ copy = doc
          /\ IF pc = "done" THEN Goto(s, "done") ELSE Read(s, copy, pc)
          /\ \/ UNCHANGED users
             \/ users' = [users EXCEPT ![u].bal = doc.bal, ![u].last_decay = "naive"]
    BY <1>5 DEF ApplyDecayAndExpiry, GoOn, Finish
  <2>2. copy.bal = doc.bal
    BY <1>3, <2>1 DEF Documents
  <2>3. c.op \in {"log", "apiLog", "redeem", "view", "profile", "apiSubmit"}
    BY <1>1, <1>2 DEF Sound, Fits, AfterDecay
  <2>4. /\ pc \in {"done", "update", "check", "learn"}
        /\ pc \in {"update", "check"} => c.op # "apiSubmit"
    <3>1. CASE c.op \in {"log", "apiLog", "redeem"}
      BY <3>1 DEF AfterDecay
    <3>2. CASE c.op \in {"view", "profile", "apiSubmit"}
      BY <3>2 DEF AfterDecay
    <3> QED BY <2>3, <3>1, <3>2
  <2> HIDE DEF pc
  <2>5. PICK r, e : Made(s, r, pc, e, wrote, mark) /\ (pc # "done" => e = copy)
    BY <1>1, <2>1, Making
  <2>6. /\ r.pc = pc /\ r.call = c /\ r.wrote = wrote /\ r.mark = mark
        /\ (pc # "done" => r.doc.bal = doc.bal) /\ req' = [req EXCEPT ![s] = r]
    BY <2>2, <2>5 DEF Made
  <2>7. Posted(r) /\ r.pc \in Stages
    BY <1>1, <1>2, <2>4, <2>6 DEF Posted, Stages, Finished
  <2>8. \A v \in Users : Whole(r, v) => ~Settled(v)
    BY <1>2, <1>5, <2>4, <2>6 DEF Whole, Settled, WritesWhole
  <2>9. Follows(s, r)
    BY <2>6, <2>7, <2>8 DEF Follows
  <2>10. \A t \in Tokens : doc.bal[t] = doc.bal[t] + Nothing[t]
    BY <1>3 DEF Balances, Nothing
  <2>11. users'[u].bal \in {users[u].bal, doc.bal} /\ \A v \in Users \ {u} : users'[v] = users[v]
    <3>1. CASE UNCHANGED users
      BY <3>1
    <3>2. CASE users' = [users EXCEPT ![u].bal = doc.bal, ![u].last_decay = "naive"]
      <4> DEFINE d == [users[u] EXCEPT !.bal = doc.bal, !.last_decay = "naive"]
      <4>1. users' = [users EXCEPT ![u] = d]
        BY <1>3, <3>2
      <4>2. d.bal = doc.bal
        BY <1>3 DEF Documents
      <4> HIDE DEF d
      <4> QED BY <1>3, <4>1, <4>2
    <3> QED BY <2>1, <3>1, <3>2
  <2>12. ASSUME NEW v \in Users PROVE Changes(s, v, Nothing)
    <3>1. CASE users'[v].bal = users[v].bal
      BY <1>1, <3>1, Unchanging
    <3>2. CASE v = u /\ users'[v].bal = doc.bal
      BY <1>2, <1>5, <2>10, <3>2 DEF Changes, Whole, Copying
    <3> QED BY <2>11, <3>1, <3>2
  <2>13. Copies(s, r, Nothing)
    BY <1>2, <2>4, <2>6, <2>10 DEF Copies, Copying
  <2>14. ASSUME Undisturbed PROVE Current(r)'
    <3>1. users[u].bal = doc.bal
      BY <1>2, <2>14 DEF Undisturbed, Current, Copying
    <3> QED BY <2>4, <2>6, <2>11, <3>1 DEF Current, Copying
  <2> QED BY <1>2, <2>6, <2>9, <2>12, <2>13, <2>14 DEF Accounts, Silent
<1> QED BY <1>4, <1>5
-----------------------------------------------------------------------------
(* The steps that write balances: each makes its write once, and adds the   *)
(* amount of that write to what there is or to its copy.                    *)
Credits(s, r, what, gain, b, d) ==
  /\ what \in Writings /\ gain \in Balances /\ b \in Users /\ users[b].exists
  /\ Follows(s, r) /\ req[s].pc \notin Finished
  /\ what \notin req[s].wrote /\ r.wrote = req[s].wrote \cup {what}
  /\ what \in PlanWrites => r.mark \in DOMAIN plans /\ UNCHANGED plans
  /\ GainOf(s, what)' = gain /\ Payee(s, what)' = b
  /\ users' = [users EXCEPT ![b] = d]
  /\ \A t \in Tokens :
       \/ d.bal[t] = users[b].bal[t] + gain[t]
       \/ /\ req[s].call.user = b /\ req[s].pc \in Copying
          /\ Whole(req[s], b) \/ t = "PrarabdhaKarma"
          /\ d.bal[t] = req[s].doc.bal[t] + gain[t]
  /\ Copies(s, r, gain) /\ (r.pc \in Copying => b = req[s].call.user)
  /\ Undisturbed => Current(r)'

LEMMA Crediting ==
  ASSUME AccountInv, NEW s \in Slots, NEW r, NEW what, NEW gain, NEW b, NEW d,
         Credits(s, r, what, gain, b, d)
  PROVE  Accounts(s)
<1>1. users \in [Users -> Documents \cup {NoDoc}] /\ TypeOK
  BY DEF AccountInv, KarmaInv, TypeOK
<1>2. users' = [users EXCEPT ![b] = d] /\ b \in Users
  BY DEF Credits
<1>3. users'[b] = d /\ \A v \in Users \ {b} : users'[v] = users[v]
  BY <1>1, <1>2
<1>4. \A v \in Users \ {b} : Changes(s, v, Nothing)
  BY <1>1, <1>3, Unchanging
<1>5. Changes(s, b, gain)
  BY <1>3 DEF Changes, Credits
<1>6. Pays(s, r)
  BY <1>4, <1>5 DEF Pays, Credits
<1> QED BY <1>6 DEF Accounts, Credits

(* An $inc by the amount of the write, by a request that goes on without a  *)
(* copy to rely on.                                                         *)
Adds(s, what, pc, gain, b) ==
  /\ what \in Writings /\ gain \in Balances /\ b \in Users /\ users[b].exists
  /\ pc \in Careless
  /\ Wrote(s, what, pc) /\ what \notin req[s].wrote /\ req[s].pc \notin Finished
  /\ \A r : /\ r.pc = pc /\ r.call = req[s].call /\ r.wrote = req[s].wrote \cup {what}
            => Posted(r)
  /\ UNCHANGED plans /\ (what \in PlanWrites => req[s].mark \in DOMAIN plans)
  /\ GainOf(s, what) = gain /\ Payee(s, what) = b
  /\ \E d : /\ users' = [users EXCEPT ![b] = d]
            /\ \A t \in Tokens : d.bal[t] = users[b].bal[t] + gain[t]

LEMMA Adding ==
  ASSUME AccountInv, NEW s \in Slots, NEW what, NEW pc, NEW gain, NEW b,
         Adds(s, what, pc, gain, b)
  PROVE  Accounts(s)
<1>1. TypeOK
  BY DEF AccountInv, KarmaInv
<1>2. PICK r : Made(s, r, pc, req[s].doc, req[s].wrote \cup {what}, req[s].mark)
  BY <1>1, Making DEF Adds
<1>3. /\ req' = [req EXCEPT ![s] = r]
      /\ r.call = req[s].call /\ r.pc = pc /\ r.wrote = req[s].wrote \cup {what}
      /\ r.mark = req[s].mark
  BY <1>2 DEF Made
<1>4. /\ pc \in Stages
      /\ pc \notin {"create", "insertUser", "decay", "update", "paap", "set"}
  BY DEF Adds, Careless, Copying
<1>5. Posted(r) /\ Current(r)' /\ Copies(s, r, gain) /\ r.pc \notin Copying
  BY <1>3, <1>4 DEF Current, Adds, Copies, Copying
<1>6. Follows(s, r)
  BY <1>3, <1>4, <1>5 DEF Follows, Whole
<1>7. req'[s] = r
  BY <1>1, <1>3 DEF TypeOK, Slots
<1>8. GainOf(s, what)' = gain /\ Payee(s, what)' = b
  BY <1>3, <1>7, GainsStay DEF Adds
<1>9. PICK d : /\ users' = [users EXCEPT ![b] = d]
               /\ \A t \in Tokens : d.bal[t] = users[b].bal[t] + gain[t]
  BY DEF Adds
<1>10. Credits(s, r, what, gain, b, d)
  BY <1>3, <1>5, <1>6, <1>8, <1>9 DEF Credits, Adds
<1> QED BY <1>10, Crediting

(* What $inc and $set of the balances make of a user.                       *)
LEMMA Increments ==
  ASSUME TypeOK, NEW b \in Users, users[b].exists, NEW gain \in Balances,
         IncBalances(b, gain)
  PROVE  \E d : /\ users' = [users EXCEPT ![b] = d]
                /\ \A t \in Tokens : d.bal[t] = users[b].bal[t] + gain[t]
<1>1. users \in [Users -> Documents \cup {NoDoc}] /\ users[b] \in Documents
  BY UserTypes DEF TypeOK
<1> DEFINE e == Plus(users[b].bal, gain)
           d == [users[b] EXCEPT !.bal = e]
<1>2. users' = [users EXCEPT ![b] = d]
  BY <1>1 DEF IncBalances
<1>3. \A t \in Tokens : e[t] = users[b].bal[t] + gain[t]
  BY DEF Plus
<1> HIDE DEF e
<1>4. d.bal = e
  BY <1>1 DEF Documents
<1> QED BY <1>2, <1>3, <1>4

LEMMA AddedAccounts ==
  ASSUME AccountInv, NEW s \in Slots,
         \/ UpdateAdvancedKarma(s) \/ Redeem(s) \/ AwardAtonement(s) \/ LearnAtonement(s)
         \/ ReducePaap(s) \/ SetRole(s) \/ TransactionFails(s)
  PROVE  Accounts(s)
<1> DEFINE c == req[s].call
           u == c.user
           wrote == req[s].wrote
           i == req[s].mark
<1>1. Posted(req[s]) /\ Credited(s) /\ TypeOK /\ Sound(s, req[s]) /\ PlansHaveUsers
  BY DEF AccountInv, KarmaInv
<1>2. /\ c \in Calls /\ u \in Users /\ c.n \in Int /\ (c.op = "redeem" => c.what \in Tokens)
      /\ users \in [Users -> Documents \cup {NoDoc}]
  BY <1>1, SlotTypes, CallTypes DEF TypeOK
<1>3. {"update", "paap", "advance", "role", "noTx", "redeem", "set", "award", "learn", "reduce"}
        \subseteq Writings
  BY DEF Writings
<1>4. req[s].pc \in UserStages => users[u].exists
  BY <1>1 DEF Sound, HoldsUser
<1>5. \A v \in Users : users[v].exists => users[v].bal \in Balances /\ users[v] \in Documents
  BY <1>1, UserTypes DEF Documents, Balances
<1>6. CASE UpdateAdvancedKarma(s)
  <2>1. PICK gain : gain = AdvancedChange(c.what)
    OBVIOUS
  <2>2. /\ req[s].pc = "advance" /\ UNCHANGED plans
        /\ IncBalances(u, gain) /\ Wrote(s, "advance", "role")
    BY <1>6, <2>1 DEF UpdateAdvancedKarma, At
  <2>3. users[u].exists /\ gain \in Balances
    BY <1>4, <2>1, <2>2, GainTypes DEF UserStages
  <2>4. PICK d : /\ users' = [users EXCEPT ![u] = d]
                 /\ \A t \in Tokens : d.bal[t] = users[u].bal[t] + gain[t]
    BY <1>1, <1>2, <2>2, <2>3, Increments
  <2>5. /\ "advance" \notin wrote
        /\ \A r : r.pc = "role" /\ r.call = c /\ r.wrote = wrote \cup {"advance"} => Posted(r)
    BY <1>1, <2>2 DEF Posted
  <2>6. GainOf(s, "advance") = gain /\ Payee(s, "advance") = u /\ "advance" \notin PlanWrites
    BY <2>1 DEF GainOf, Payee, PlanWrites
  <2>7. "role" \in Careless
    BY DEF Stages, Careless, Copying
  <2>8. Adds(s, "advance", "role", gain, u)
    BY <1>2, <1>3, <2>2, <2>3, <2>4, <2>5, <2>6, <2>7 DEF Adds, Finished
  <2> QED BY <2>8, Adding
<1>7. CASE Redeem(s)
  <2>1. PICK gain : gain = Only(c.what, -c.n)
    OBVIOUS
  <2>2. /\ req[s].pc = "check" /\ c.op = "redeem" /\ UNCHANGED plans
        /\ \/ IncBalances(u, gain) /\ Wrote(s, "redeem", "transaction")
           \/ Goto(s, "rejected") /\ UNCHANGED users
    BY <1>7, <2>1 DEF Redeem, At, Finish
  <2>3. CASE Goto(s, "rejected") /\ UNCHANGED users
    BY <2>2, <2>3, Leaving DEF Finished
  <2>4. CASE IncBalances(u, gain) /\ Wrote(s, "redeem", "transaction")
    <3>1. users[u].exists
      BY <1>4, <2>2 DEF UserStages
    <3>2. gain \in Balances
      <4>1. -c.n \in Int /\ c.what \in Tokens
        BY <1>2, <2>2
      <4> QED BY <2>1, <4>1, BalanceTypes
    <3>3. PICK d : /\ users' = [users EXCEPT ![u] = d]
                   /\ \A t \in Tokens : d.bal[t] = users[u].bal[t] + gain[t]
      BY <1>1, <1>2, <2>4, <3>1, <3>2, Increments
    <3>4. /\ "redeem" \notin wrote
          /\ \A r : r.pc = "transaction" /\ r.call = c /\ r.wrote = wrote \cup {"redeem"} => Posted(r)
      BY <1>1, <2>2 DEF Posted
    <3>5. GainOf(s, "redeem") = gain /\ Payee(s, "redeem") = u /\ "redeem" \notin PlanWrites
      BY <2>1 DEF GainOf, Payee, PlanWrites
    <3>6. "transaction" \in Careless
      BY DEF Stages, Careless, Copying
    <3>7. Adds(s, "redeem", "transaction", gain, u)
      BY <1>2, <1>3, <2>2, <2>4, <3>1, <3>2, <3>3, <3>4, <3>5, <3>6 DEF Adds, Finished
    <3> QED BY <3>7, Adding
  <2> QED BY <2>2, <2>3, <2>4
<1>8. CASE AwardAtonement(s)
  <2>1. PICK gain, b : gain = Award(plans[i]) /\ b = plans[i].id.user
    OBVIOUS
  <2>2. /\ req[s].pc = "award" /\ c.op \in Submits /\ UNCHANGED plans
        /\ IncBalances(b, gain) /\ Wrote(s, "award", "rewardTx")
    BY <1>8, <2>1 DEF AwardAtonement, At
  <2>3. i \in DOMAIN plans
    BY <1>1, <2>2 DEF Sound, HoldsPlan, PlanStages
  <2>4. plans[i] \in Plans
    BY <1>1, <2>3 DEF TypeOK
  <2>5. b \in Users /\ users[b].exists /\ gain \in Balances
    BY <1>1, <2>1, <2>3, <2>4, AwardTypes DEF Plans, PlansHaveUsers
  <2>6. PICK d : /\ users' = [users EXCEPT ![b] = d]
                 /\ \A t \in Tokens : d.bal[t] = users[b].bal[t] + gain[t]
    BY <1>1, <2>2, <2>5, Increments
  <2>7. /\ "award" \notin wrote
        /\ \A r : r.pc = "rewardTx" /\ r.call = c /\ r.wrote = wrote \cup {"award"} => Posted(r)
    BY <1>1, <2>2 DEF Posted
  <2>8. GainOf(s, "award") = gain /\ Payee(s, "award") = b
    BY <2>1 DEF GainOf, Payee
  <2>9. "rewardTx" \in Careless
    BY DEF Stages, Careless, Copying
  <2>10. Adds(s, "award", "rewardTx", gain, b)
    BY <1>3, <2>2, <2>3, <2>5, <2>6, <2>7, <2>8, <2>9 DEF Adds, Finished
  <2> QED BY <2>10, Adding
<1>9. CASE LearnAtonement(s) \/ ReducePaap(s)
  <2>1. PICK what, pc, gain :
          \/ what = "learn" /\ pc = "reduce" /\ gain = Award(plans[i]) /\ LearnAtonement(s)
          \/ what = "reduce" /\ pc = "reread" /\ gain = Reduction(plans[i]) /\ ReducePaap(s)
    BY <1>9
  <2>2. /\ req[s].pc = what /\ c.op \in Submits /\ UNCHANGED plans
        /\ IncBalances(u, gain) /\ Wrote(s, what, pc)
    BY <2>1 DEF LearnAtonement, ReducePaap, At, Submits
  <2>3. i \in DOMAIN plans /\ users[u].exists
    BY <1>1, <1>4, <2>1, <2>2 DEF Sound, HoldsPlan, PlanStages, UserStages
  <2>4. plans[i] \in Plans
    BY <1>1, <2>3 DEF TypeOK
  <2>5. gain \in Balances
    BY <2>1, <2>4, AwardTypes
  <2>6. PICK d : /\ users' = [users EXCEPT ![u] = d]
                 /\ \A t \in Tokens : d.bal[t] = users[u].bal[t] + gain[t]
    BY <1>1, <1>2, <2>2, <2>3, <2>5, Increments
  <2>7. /\ what \notin wrote
        /\ \A r : r.pc = pc /\ r.call = c /\ r.wrote = wrote \cup {what} => Posted(r)
    BY <1>1, <2>1, <2>2 DEF Posted
  <2>8. GainOf(s, what) = gain /\ Payee(s, what) = u
    BY <2>1 DEF GainOf, Payee
  <2>9. pc \in Careless
        /\ what \in Writings /\ what \notin Finished
    BY <1>3, <2>1 DEF Stages, Careless, Copying, Finished
  <2>10. Adds(s, what, pc, gain, u)
    BY <1>2, <2>2, <2>3, <2>5, <2>6, <2>7, <2>8, <2>9 DEF Adds
  <2> QED BY <2>10, Adding
<1>10. ASSUME NEW v \in Users, users[v].exists
       PROVE  \A t \in Tokens : users[v].bal[t] = users[v].bal[t] + Nothing[t]
  BY <1>5, <1>10 DEF Balances, Nothing
<1>11. Nothing \in Balances
  BY BalanceTypes
<1>12. CASE SetRole(s)
  <2>1. /\ req[s].pc = "role" /\ UNCHANGED plans /\ Wrote(s, "role", "transaction")
        /\ users' = [users EXCEPT ![u].role = RoleOf(Merit(req[s].doc.bal))]
    BY <1>12 DEF SetRole, At
  <2>2. users[u].exists
    BY <1>4, <2>1 DEF UserStages
  <2>3. PICK d : users' = [users EXCEPT ![u] = d] /\ d.bal = users[u].bal
    <3> DEFINE role == RoleOf(Merit(req[s].doc.bal))
               e == [users[u] EXCEPT !.role = role]
    <3>1. users' = [users EXCEPT ![u] = e]
      BY <1>2, <2>1
    <3> HIDE DEF role
    <3>2. e.bal = users[u].bal
      BY <1>2, <1>5, <2>2 DEF Documents
    <3> QED BY <3>1, <3>2
  <2>4. /\ "role" \notin wrote
        /\ \A r : r.pc = "transaction" /\ r.call = c /\ r.wrote = wrote \cup {"role"} => Posted(r)
    BY <1>1, <2>1 DEF Posted
  <2>5. GainOf(s, "role") = Nothing /\ Payee(s, "role") = u /\ "role" \notin PlanWrites
    BY DEF GainOf, Payee, PlanWrites
  <2>6. "transaction" \in Careless
    BY DEF Stages, Careless, Copying
  <2>7. \A t \in Tokens : d.bal[t] = users[u].bal[t] + Nothing[t]
    BY <1>2, <1>10, <2>2, <2>3
  <2>8. Adds(s, "role", "transaction", Nothing, u)
    BY <1>2, <1>3, <1>11, <2>1, <2>2, <2>3, <2>4, <2>5, <2>6, <2>7 DEF Adds, Finished
  <2> QED BY <2>8, Adding
<1>13. CASE TransactionFails(s)
  <2>1. PICK pc : pc = IF OwesForCheat(c) THEN "debt" ELSE "done"
    OBVIOUS
  <2>2. req[s].pc = "transaction" /\ UNCHANGED <<plans, users>> /\ Wrote(s, "noTx", pc)
    BY <1>13, <2>1 DEF TransactionFails, At
  <2>3. users[u].exists
    <3>1. "role" \in wrote \/ "redeem" \in wrote
      BY <1>1, <2>2 DEF Posted
    <3> QED BY <1>1, <3>1 DEF Credited, Payee
  <2>4. PICK d : users' = [users EXCEPT ![u] = d] /\ d = users[u]
    BY <1>2, <2>2
  <2>5. /\ "noTx" \notin wrote
        /\ \A r : r.pc = pc => Posted(r)
    BY <1>1, <2>1, <2>2 DEF Posted
  <2>6. GainOf(s, "noTx") = Nothing /\ Payee(s, "noTx") = u /\ "noTx" \notin PlanWrites
    BY DEF GainOf, Payee, PlanWrites
  <2>7. pc \in Careless
    BY <2>1 DEF Stages, Careless, Copying, Finished
  <2>8. \A t \in Tokens : d.bal[t] = users[u].bal[t] + Nothing[t]
    BY <1>2, <1>10, <2>3, <2>4
  <2>9. Adds(s, "noTx", pc, Nothing, u)
    BY <1>2, <1>3, <1>11, <2>2, <2>3, <2>4, <2>5, <2>6, <2>7, <2>8 DEF Adds, Finished
  <2> QED BY <2>9, Adding
<1> QED BY <1>6, <1>7, <1>8, <1>9, <1>12, <1>13

(* The steps of log_action and of the Prarabdha counter that write the      *)
(* balances and the request's own copy of them.                             *)
LEMMA WrittenAccounts ==
  ASSUME AccountInv, NEW s \in Slots, UpdateBalance(s) \/ ApplyPaap(s) \/ UpdatePrarabdha(s)
  PROVE  Accounts(s)
<1> DEFINE c == req[s].call
           u == c.user
           wrote == req[s].wrote
<1>1. Posted(req[s]) /\ TypeOK /\ Sound(s, req[s])
  BY DEF AccountInv, KarmaInv
<1>2. /\ req \in Seq(Requests) /\ s \in DOMAIN req /\ req[s] \in Requests
      /\ users \in [Users -> Documents \cup {NoDoc}] /\ u \in Users /\ c.n \in Int
  BY <1>1, SlotTypes DEF TypeOK, Slots
<1>3. req[s].pc \in UserStages =>
        /\ users[u].exists /\ users[u] \in Documents /\ req[s].doc \in Documents
        /\ users[u].bal \in Balances /\ req[s].doc.bal \in Balances
  BY <1>1, <1>2, UserTypes DEF Sound, HoldsUser, Documents, Balances
<1>4. ASSUME NEW r, req' = [req EXCEPT ![s] = r] PROVE req'[s] = r
  BY <1>2, <1>4
<1>5. CASE UpdateBalance(s)
  <2>1. PICK gain, bal, pc :
          /\ gain = LogGain(c) /\ bal = Plus(req[s].doc.bal, gain)
          /\ pc = IF c.op = "log" THEN "reread" ELSE IF IsPaap(c.what) THEN "paap" ELSE "advance"
    OBVIOUS
  <2>2. req[s].pc = "update" /\ c.op \in Logs /\ wrote = {} /\ UNCHANGED plans
    BY <1>1, <1>5 DEF UpdateBalance, At, Posted
  <2>3. CASE Finish(s, "raised") /\ UNCHANGED users
    BY <2>2, <2>3, Leaving DEF Finished, Finish
  <2>4. CASE /\ users' = [users EXCEPT ![u].bal = Plus(users[u].bal, gain),
                                       ![u].cheats = users[u].cheats \/ IsCheat(c)]
             /\ req' = [req EXCEPT ![s].doc.bal = bal, ![s].wrote = wrote \cup {"update"},
                                   ![s].pc = pc]
    <3>1. /\ users[u].exists /\ users[u] \in Documents /\ req[s].doc \in Documents
          /\ users[u].bal \in Balances /\ req[s].doc.bal \in Balances
      BY <1>3, <2>2 DEF UserStages
    <3>2. gain \in Balances
      BY <2>1, GainTypes
    <3>3. PICK d : users' = [users EXCEPT ![u] = d] /\ d.bal = Plus(users[u].bal, gain)
      <4> DEFINE e == Plus(users[u].bal, gain)
                 cheats == users[u].cheats \/ IsCheat(c)
                 d == [users[u] EXCEPT !.bal = e, !.cheats = cheats]
      <4>1. users' = [users EXCEPT ![u] = d]
        BY <1>2, <2>4
      <4> HIDE DEF e, cheats
      <4>2. d.bal = e
        BY <3>1 DEF Documents
      <4> QED BY <4>1, <4>2 DEF e
    <3>4. PICK r : /\ req' = [req EXCEPT ![s] = r] /\ r.call = c /\ r.pc = pc
                   /\ r.wrote = {"update"} /\ r.mark = req[s].mark /\ r.doc.bal = bal
      <4> DEFINE doc == [req[s].doc EXCEPT !.bal = bal]
                 r == [req[s] EXCEPT !.doc = doc, !.wrote = {"update"}, !.pc = pc]
      <4>1. req' = [req EXCEPT ![s] = r]
        BY <1>2, <2>2, <2>4
      <4>2. doc.bal = bal
        BY <3>1 DEF Documents
      <4> HIDE DEF doc
      <4>3. r.call = c /\ r.pc = pc /\ r.wrote = {"update"} /\ r.mark = req[s].mark /\ r.doc = doc
        BY <1>2 DEF Requests
      <4> QED BY <4>1, <4>2, <4>3
    <3>5. GainOf(s, "update")' = gain /\ Payee(s, "update")' = u /\ "update" \notin PlanWrites
      BY <1>4, <2>1, <3>4 DEF GainOf, Payee, PlanWrites
    <3>6. /\ pc \in {"reread", "paap", "advance"} /\ pc \in Stages
          /\ pc = "paap" => c.op = "apiLog" /\ IsPaap(c.what)
      BY <2>1, <2>2 DEF Stages, Logs
    <3>7. Posted(r)
      BY <3>4, <3>6 DEF Posted
    <3>8. \A t \in Tokens : d.bal[t] = users[u].bal[t] + gain[t]
      BY <3>3 DEF Plus
    <3>9. \A v \in Users : Whole(r, v) => ~Settled(v)
      BY <1>2, <2>2, <3>4, <3>6 DEF Whole, Settled, WritesWhole, At
    <3>10. Follows(s, r)
      BY <2>2, <3>4, <3>6, <3>7, <3>9 DEF Follows
    <3>11. Copies(s, r, gain)
      <4>1. \A t \in Tokens : r.doc.bal[t] = req[s].doc.bal[t] + gain[t]
        BY <2>1, <3>4 DEF Plus
      <4> QED BY <2>2, <3>4, <3>6, <4>1 DEF Copies, Copying
    <3>12. ASSUME Undisturbed PROVE Current(r)'
      <4>1. users[u].bal = req[s].doc.bal
        BY <2>2, <3>12 DEF Undisturbed, Current, Copying
      <4>2. users'[u] = d
        BY <1>2, <3>3
      <4> QED BY <2>1, <3>3, <3>4, <3>6, <4>1, <4>2 DEF Current
    <3>13. /\ "update" \in Writings /\ req[s].pc \notin Finished
           /\ "update" \notin wrote /\ r.wrote = wrote \cup {"update"}
      BY <2>2, <3>4 DEF Writings, Finished
    <3>14. Credits(s, r, "update", gain, u, d)
      BY <1>2, <2>2, <3>1, <3>2, <3>3, <3>5, <3>8, <3>10, <3>11, <3>12, <3>13 DEF Credits
    <3> QED BY <3>14, Crediting
  <2>5. \/ Finish(s, "raised") /\ UNCHANGED users
        \/ /\ users' = [users EXCEPT ![u].bal = Plus(users[u].bal, gain),
                                     ![u].cheats = users[u].cheats \/ IsCheat(c)]
           /\ req' = [req EXCEPT ![s].doc.bal = bal, ![s].wrote = wrote \cup {"update"},
                                 ![s].pc = pc]
    BY <1>2, <1>5, <2>1 DEF UpdateBalance
  <2> QED BY <2>3, <2>4, <2>5
<1>6. CASE ApplyPaap(s)
  <2>1. PICK gain, bal :
          /\ gain = PaapGain(c.what, NegativeImpact(c.what)) /\ bal = Plus(req[s].doc.bal, gain)
    OBVIOUS
  <2>2. /\ req[s].pc = "paap" /\ UNCHANGED plans
        /\ users' = [users EXCEPT ![u].bal = bal]
        /\ req' = [req EXCEPT ![s].doc.bal = bal, ![s].wrote = wrote \cup {"paap"},
                              ![s].pc = "advance"]
    BY <1>6, <2>1 DEF ApplyPaap, At, SetBalances
  <2>3. /\ users[u].exists /\ users[u] \in Documents /\ req[s].doc \in Documents
        /\ users[u].bal \in Balances /\ req[s].doc.bal \in Balances
    BY <1>3, <2>2 DEF UserStages
  <2>4. gain \in Balances
    BY <1>1, <2>1, <2>2, GainTypes DEF Sound, Fits
  <2>5. PICK d : users' = [users EXCEPT ![u] = d] /\ d.bal = bal
    <3> DEFINE d == [users[u] EXCEPT !.bal = bal]
    <3>1. users' = [users EXCEPT ![u] = d]
      BY <1>2, <2>2
    <3>2. d.bal = bal
      BY <2>3 DEF Documents
    <3> QED BY <3>1, <3>2
  <2>6. PICK r : /\ req' = [req EXCEPT ![s] = r] /\ r.call = c /\ r.pc = "advance"
                 /\ r.wrote = wrote \cup {"paap"} /\ r.mark = req[s].mark
    <3> DEFINE doc == [req[s].doc EXCEPT !.bal = bal]
               more == wrote \cup {"paap"}
               r == [req[s] EXCEPT !.doc = doc, !.wrote = more, !.pc = "advance"]
    <3>1. req' = [req EXCEPT ![s] = r]
      BY <1>2, <2>2
    <3> HIDE DEF doc, more
    <3>2. r.call = c /\ r.pc = "advance" /\ r.wrote = more /\ r.mark = req[s].mark
      BY <1>2 DEF Requests
    <3> QED BY <3>1, <3>2 DEF more
  <2>7. GainOf(s, "paap")' = gain /\ Payee(s, "paap")' = u /\ "paap" \notin PlanWrites
    BY <1>4, <2>1, <2>6 DEF GainOf, Payee, PlanWrites
  <2>8. wrote \subseteq {"update"}
    BY <1>1, <2>2 DEF Posted
  <2>9. Posted(r)
    BY <2>6, <2>8 DEF Posted
  <2>10. \A t \in Tokens : d.bal[t] = req[s].doc.bal[t] + gain[t]
    BY <2>1, <2>5 DEF Plus
  <2>11. /\ "paap" \in Writings /\ req[s].pc \notin Finished /\ "paap" \notin wrote
         /\ r.pc \in Stages /\ Whole(req[s], u) /\ req[s].pc \in Copying
    BY <2>2, <2>6, <2>8 DEF Writings, Finished, Stages, Whole, Copying
  <2>12. Follows(s, r) /\ Copies(s, r, gain) /\ r.pc \notin Copying /\ Current(r)'
    BY <2>6, <2>9, <2>11 DEF Follows, Whole, Copies, Copying, Current
  <2>13. Credits(s, r, "paap", gain, u, d)
    BY <1>2, <2>3, <2>4, <2>5, <2>6, <2>7, <2>10, <2>11, <2>12 DEF Credits
  <2> QED BY <2>13, Crediting
<1>7. CASE UpdatePrarabdha(s)
  <2>1. PICK gain, n : gain = Only("PrarabdhaKarma", c.n)
                       /\ n = req[s].doc.bal["PrarabdhaKarma"] + c.n
    OBVIOUS
  <2>2. /\ req[s].pc = "set" /\ wrote = {} /\ UNCHANGED plans
        /\ users' = [users EXCEPT ![u].bal["PrarabdhaKarma"] = n]
        /\ req' = [req EXCEPT ![s].wrote = wrote \cup {"set"}, ![s].pc = "done"]
    BY <1>1, <1>7, <2>1 DEF UpdatePrarabdha, At, Posted
  <2>3. /\ users[u].exists /\ users[u] \in Documents /\ users[u].bal \in Balances
    BY <1>3, <2>2 DEF UserStages
  <2>4. gain \in Balances
    BY <1>2, <2>1, BalanceTypes
  <2>5. PICK d : /\ users' = [users EXCEPT ![u] = d]
                 /\ d.bal = [users[u].bal EXCEPT !["PrarabdhaKarma"] = n]
    <3> DEFINE e == [users[u].bal EXCEPT !["PrarabdhaKarma"] = n]
               d == [users[u] EXCEPT !.bal = e]
    <3>1. users' = [users EXCEPT ![u] = d]
      BY <1>2, <2>2
    <3> HIDE DEF e
    <3>2. d.bal = e
      BY <2>3 DEF Documents
    <3> QED BY <3>1, <3>2 DEF e
  <2>6. PICK r : /\ req' = [req EXCEPT ![s] = r] /\ r.call = c /\ r.pc = "done"
                 /\ r.wrote = {"set"} /\ r.mark = req[s].mark
    <3> DEFINE r == [req[s] EXCEPT !.wrote = {"set"}, !.pc = "done"]
    <3>1. req' = [req EXCEPT ![s] = r]
      BY <1>2, <2>2
    <3>2. r.call = c /\ r.pc = "done" /\ r.wrote = {"set"} /\ r.mark = req[s].mark
      BY <1>2 DEF Requests
    <3> QED BY <3>1, <3>2
  <2>7. GainOf(s, "set")' = gain /\ Payee(s, "set")' = u /\ "set" \notin PlanWrites
    BY <1>4, <2>1, <2>6 DEF GainOf, Payee, PlanWrites
  <2>8. Posted(r)
    BY <2>6 DEF Posted
  <2>9. gain["PrarabdhaKarma"] = c.n /\ \A t \in Tokens \ {"PrarabdhaKarma"} : gain[t] = 0
    BY <2>1, TokenNames DEF Only, Nothing
  <2>10. ASSUME NEW t \in Tokens
         PROVE  \/ d.bal[t] = users[u].bal[t] + gain[t]
                \/ t = "PrarabdhaKarma" /\ d.bal[t] = req[s].doc.bal[t] + gain[t]
    <3>1. users[u].bal \in [Tokens -> Int]
      BY <2>3 DEF Balances
    <3> QED BY <2>1, <2>5, <2>9, <3>1
  <2>11. /\ "set" \in Writings /\ req[s].pc \notin Finished /\ req[s].pc \in Copying
         /\ "set" \notin wrote /\ r.wrote = wrote \cup {"set"} /\ r.pc \in Stages
    BY <2>2, <2>6 DEF Writings, Finished, Stages, Copying
  <2>12. Follows(s, r) /\ Copies(s, r, gain) /\ r.pc \notin Copying /\ Current(r)'
    BY <2>2, <2>6, <2>8, <2>11 DEF Follows, Whole, Copies, Copying, Current
  <2>13. Credits(s, r, "set", gain, u, d)
    BY <1>2, <2>2, <2>3, <2>4, <2>5, <2>6, <2>7, <2>10, <2>11, <2>12 DEF Credits
  <2> QED BY <2>13, Crediting
<1> QED BY <1>5, <1>6, <1>7

(* Every step of a request keeps the accounts.                              *)
LEMMA StepAccounts ==
  ASSUME AccountInv, NEW s \in Slots, Step(s)
  PROVE  Accounts(s)
BY RecordAccounts, ReadAccounts, DecayAccounts, WrittenAccounts, AddedAccounts, PlanAccounts,
   DebtAccounts, LifeAccounts
   DEF Step, LogStep, PlanStep, LifeStep
-----------------------------------------------------------------------------
(* A user's document keeps the balances that it was made with and, once it  *)
(* has one, its last_decay.  A document that is made has the balances it is *)
(* made with, which are none unless no request names its user.              *)
KeptDoc(u) ==
  /\ users'[u].exists /\ users'[u].born = users[u].born
  /\ users[u].last_decay = "naive" => users'[u].last_decay = "naive"
MadeDoc(u) ==
  /\ users'[u].bal = users'[u].born
  /\ users'[u].born = Nothing \/ \A t \in Slots : req[t].call.user # u
DocsMove ==
  \A u \in Users : IF users[u].exists THEN KeptDoc(u) ELSE users'[u].exists => MadeDoc(u)

LEMMA DocsStay == UNCHANGED users => DocsMove
BY DEF DocsMove, KeptDoc

LEMMA DocChanges ==
  ASSUME TypeOK, NEW u \in Users, users[u].exists, NEW d, users' = [users EXCEPT ![u] = d],
         d.exists, d.born = users[u].born, d.last_decay \in {users[u].last_decay, "naive"}
  PROVE  DocsMove
<1>1. users \in [Users -> Documents \cup {NoDoc}]
  BY DEF TypeOK
<1>2. users'[u] = d /\ \A v \in Users \ {u} : users'[v] = users[v]
  BY <1>1
<1>3. KeptDoc(u)
  BY <1>2 DEF KeptDoc
<1>4. ASSUME NEW v \in Users \ {u}
      PROVE  IF users[v].exists THEN KeptDoc(v) ELSE users'[v].exists => MadeDoc(v)
  BY <1>2, <1>4 DEF KeptDoc
<1> QED BY <1>3, <1>4 DEF DocsMove

LEMMA BalanceOfDoc ==
  ASSUME TypeOK, NEW u \in Users, users[u].exists, NEW b, users' = [users EXCEPT ![u].bal = b]
  PROVE  DocsMove
<1> DEFINE d == [users[u] EXCEPT !.bal = b]
<1>1. users \in [Users -> Documents \cup {NoDoc}] /\ users[u] \in Documents
  BY UserTypes DEF TypeOK
<1>2. users' = [users EXCEPT ![u] = d]
  BY <1>1
<1>3. d.exists /\ d.born = users[u].born /\ d.last_decay = users[u].last_decay
  BY <1>1 DEF Documents
<1> HIDE DEF d
<1> QED BY <1>2, <1>3, DocChanges

LEMMA DocsSteps ==
  ASSUME KarmaInv, NEW s \in Slots, Step(s)
  PROVE  DocsMove
<1> DEFINE c == req[s].call
           u == c.user
           doc == req[s].doc
<1>1. TypeOK /\ Sound(s, req[s])
  BY DEF KarmaInv
<1>2. c \in Calls /\ u \in Users /\ users \in [Users -> Documents \cup {NoDoc}]
  BY <1>1, SlotTypes, CallTypes DEF TypeOK
<1>3. req[s].pc \in UserStages => users[u].exists /\ users[u] \in Documents
  BY <1>1, <1>2, UserTypes DEF Sound, HoldsUser
<1>4. ASSUME InsertUser(s) PROVE DocsMove
  <2>1. PICK d : d = NewDoc(Nothing, "learner", "naive")
    OBVIOUS
  <2>2. users' = IF users[u].exists THEN users ELSE [users EXCEPT ![u] = d]
    BY <1>4, <2>1 DEF InsertUser
  <2>3. d.bal = Nothing /\ d.born = Nothing
    BY <2>1 DEF NewDoc
  <2>4. CASE users[u].exists
    BY <2>2, <2>4, DocsStay
  <2>5. CASE ~users[u].exists
    <3>1. users'[u] = d /\ \A v \in Users \ {u} : users'[v] = users[v]
      BY <1>2, <2>2, <2>5
    <3>2. \A v \in Users : users[v].exists => KeptDoc(v)
      BY <2>5, <3>1 DEF KeptDoc
    <3>3. \A v \in Users : ~users[v].exists /\ users'[v].exists => MadeDoc(v)
      BY <2>3, <3>1 DEF MadeDoc
    <3> QED BY <3>2, <3>3 DEF DocsMove
  <2> QED BY <2>4, <2>5
<1>5. ASSUME ApplyDecayAndExpiry(s) PROVE DocsMove
  <2> DEFINE d == [users[u] EXCEPT !.bal = doc.bal, !.last_decay = "naive"]
  <2>1. users[u].exists /\ users[u] \in Documents
    BY <1>3, <1>5 DEF ApplyDecayAndExpiry, UserStages
  <2>2. \/ UNCHANGED users
        \/ users' = [users EXCEPT ![u].bal = doc.bal, ![u].last_decay = "naive"]
    BY <1>5 DEF ApplyDecayAndExpiry
  <2>3. UNCHANGED users \/ users' = [users EXCEPT ![u] = d]
    BY <1>2, <2>2
  <2>4. d.exists /\ d.born = users[u].born /\ d.last_decay = "naive"
    BY <2>1 DEF Documents
  <2> HIDE DEF d
  <2> QED BY <1>1, <1>2, <2>1, <2>3, <2>4, DocsStay, DocChanges
<1>6. ASSUME UpdateBalance(s) PROVE DocsMove
  <2> DEFINE b == Plus(users[u].bal, LogGain(c))
             h == users[u].cheats \/ IsCheat(c)
             d == [users[u] EXCEPT !.bal = b, !.cheats = h]
  <2>1. users[u].exists /\ users[u] \in Documents
    BY <1>3, <1>6 DEF UpdateBalance, At, UserStages
  <2>2. \/ UNCHANGED users
        \/ users' = [users EXCEPT ![u].bal = b, ![u].cheats = h]
    BY <1>2, <1>6 DEF UpdateBalance
  <2> HIDE DEF b, h
  <2>3. UNCHANGED users \/ users' = [users EXCEPT ![u] = d]
    BY <1>2, <2>2
  <2>4. d.exists /\ d.born = users[u].born /\ d.last_decay = users[u].last_decay
    BY <2>1 DEF Documents
  <2> HIDE DEF d
  <2> QED BY <1>1, <1>2, <2>1, <2>3, <2>4, DocsStay, DocChanges
<1>7. ASSUME ApplyPaap(s) PROVE DocsMove
  <2>1. users[u].exists
    BY <1>3, <1>7 DEF ApplyPaap, At, UserStages
  <2>2. \E b : users' = [users EXCEPT ![u].bal = b]
    BY <1>7 DEF ApplyPaap, SetBalances
  <2> QED BY <1>1, <1>2, <2>1, <2>2, BalanceOfDoc
<1>8. ASSUME NEW v \in Users, NEW gain, users[v].exists, IncBalances(v, gain) PROVE DocsMove
  <2>1. \E b : users' = [users EXCEPT ![v].bal = b]
    BY <1>8 DEF IncBalances
  <2> QED BY <1>1, <1>8, <2>1, BalanceOfDoc
<1>9. ASSUME UpdateAdvancedKarma(s) \/ Redeem(s) PROVE DocsMove
  <2>1. users[u].exists
    BY <1>3, <1>9 DEF UpdateAdvancedKarma, Redeem, At, UserStages
  <2>2. UNCHANGED users \/ \E gain : IncBalances(u, gain)
    BY <1>9 DEF UpdateAdvancedKarma, Redeem
  <2> QED BY <1>2, <1>8, <2>1, <2>2, DocsStay
<1>10. ASSUME SetRole(s) PROVE DocsMove
  <2> DEFINE role == RoleOf(Merit(doc.bal))
             d == [users[u] EXCEPT !.role = role]
  <2>1. users[u].exists /\ users[u] \in Documents /\ users' = [users EXCEPT ![u].role = role]
    BY <1>3, <1>10 DEF SetRole, At, UserStages
  <2> HIDE DEF role
  <2>2. users' = [users EXCEPT ![u] = d]
    BY <1>2, <2>1
  <2>3. d.exists /\ d.born = users[u].born /\ d.last_decay = users[u].last_decay
    BY <2>1 DEF Documents
  <2> HIDE DEF d
  <2> QED BY <1>1, <1>2, <2>1, <2>2, <2>3, DocChanges
<1>11. ASSUME UpdatePrarabdha(s) PROVE DocsMove
  <2> DEFINE n == doc.bal["PrarabdhaKarma"] + c.n
             b == [users[u].bal EXCEPT !["PrarabdhaKarma"] = n]
  <2>1. users[u].exists /\ users' = [users EXCEPT ![u].bal["PrarabdhaKarma"] = n]
    BY <1>3, <1>11 DEF UpdatePrarabdha, At, UserStages
  <2> HIDE DEF n
  <2>2. users' = [users EXCEPT ![u].bal = b]
    BY <1>2, <2>1
  <2> QED BY <1>1, <1>2, <2>1, <2>2, BalanceOfDoc
<1>12. ASSUME AwardAtonement(s) PROVE DocsMove
  <2> DEFINE i == req[s].mark
             v == plans[i].id.user
  <2>1. i \in DOMAIN plans /\ IncBalances(v, Award(plans[i]))
    BY <1>1, <1>12 DEF AwardAtonement, At, Sound, HoldsPlan, PlanStages
  <2>2. plans[i] \in Plans /\ users[v].exists
    BY <1>1, <2>1 DEF KarmaInv, TypeOK, PlansHaveUsers
  <2>3. v \in Users
    BY <2>2 DEF Plans
  <2> QED BY <1>8, <2>1, <2>2, <2>3
<1>13. ASSUME LearnAtonement(s) \/ ReducePaap(s) PROVE DocsMove
  <2>1. users[u].exists
    BY <1>3, <1>13 DEF LearnAtonement, ReducePaap, At, UserStages
  <2>2. \E gain : IncBalances(u, gain)
    BY <1>13 DEF LearnAtonement, ReducePaap
  <2> QED BY <1>2, <1>8, <2>1, <2>2
<1>14. ASSUME InsertReborn(s) PROVE DocsMove
  <2>1. PICK new \in Users : IsNew(new) /\ users' = [users EXCEPT ![new] = RebornDoc(u, doc)]
    BY <1>14 DEF InsertReborn
  <2>2. RebornDoc(u, doc).bal = RebornDoc(u, doc).born
    BY DEF RebornDoc, NewDoc
  <2>3. users'[new] = RebornDoc(u, doc) /\ \A v \in Users \ {new} : users'[v] = users[v]
    BY <1>2, <2>1
  <2>4. ~users[new].exists /\ \A t \in Slots : req[t].call.user # new
    BY <2>1 DEF IsNew
  <2>5. \A v \in Users : users[v].exists => KeptDoc(v)
    BY <2>3, <2>4 DEF KeptDoc
  <2>6. \A v \in Users : ~users[v].exists /\ users'[v].exists => MadeDoc(v)
    BY <2>2, <2>3, <2>4 DEF MadeDoc
  <2> QED BY <2>5, <2>6 DEF DocsMove
<1>15. ASSUME MarkDeceased(s) PROVE DocsMove
  <2> DEFINE d == [users[u] EXCEPT !.dead = TRUE]
  <2>1. users[u].exists /\ users[u] \in Documents /\ users' = [users EXCEPT ![u].dead = TRUE]
    BY <1>3, <1>15 DEF MarkDeceased, At, UserStages
  <2>2. users' = [users EXCEPT ![u] = d]
    BY <1>2, <2>1
  <2>3. d.exists /\ d.born = users[u].born /\ d.last_decay = users[u].last_decay
    BY <2>1 DEF Documents
  <2> HIDE DEF d
  <2> QED BY <1>1, <1>2, <2>1, <2>2, <2>3, DocChanges
<1>16. ASSUME \/ RecordRequest(s) \/ UnknownEvent(s) \/ ReadUser(s) \/ Fail(s)
              \/ CheckAgain(s) \/ Reread(s) \/ LogTransaction(s) \/ TransactionFails(s)
       PROVE  DocsMove
  BY <1>16, DocsStay DEF RecordRequest, UnknownEvent, ReadUser, Fail, CheckAgain, Reread,
                         LogTransaction, TransactionFails
<1>17. ASSUME \/ CountPlans(s) \/ InsertPlan(s) \/ SubmitProof(s) \/ ReadPlan(s)
              \/ RewardTransaction(s) \/ CompletePlan(s)
       PROVE  DocsMove
  BY <1>17, DocsStay DEF CountPlans, InsertPlan, SubmitProof, ReadPlan, RewardTransaction,
                         CompletePlan
<1>18. ASSUME DebtStep(s) PROVE DocsMove
  BY <1>18, DocsStay DEF DebtStep, CreateDebt, DebtOfCheat, ReadDebt, RepayDebt,
                         InsertTransferred, MarkTransferred
<1>19. ASSUME CheckThreshold(s) \/ ReadDeath(s) \/ InsertDeath(s) PROVE DocsMove
  BY <1>19, DocsStay DEF CheckThreshold, ReadDeath, InsertDeath
<1> QED
  BY <1>4, <1>5, <1>6, <1>7, <1>9, <1>10, <1>11, <1>12, <1>13, <1>14, <1>15, <1>16, <1>17, <1>18,
     <1>19 DEF Step, LogStep, PlanStep, LifeStep
-----------------------------------------------------------------------------
(* A write that was made stays of what it was, to whom it was, and a new    *)
(* one that is to somebody else adds nothing to what a user got.            *)
NothingNew(u) ==
  /\ \A t \in Slots : t \in Slots' /\ req[t].wrote \subseteq req'[t].wrote
  /\ \A t \in Slots : \A what \in req[t].wrote :
       GainOf(t, what)' = GainOf(t, what) /\ Payee(t, what)' = Payee(t, what)
  /\ \A t \in Slots' : \A what \in req'[t].wrote :
       (t \in Slots /\ what \in req[t].wrote) \/ Payee(t, what)' # u

LEMMA SameSums ==
  ASSUME TypeOK, NEW u, NothingNew(u)
  PROVE  /\ Writes(u)' = Writes(u)
         /\ \A W \in SUBSET Writes(u), t \in Tokens : Sum(W, t)' = Sum(W, t)
<1>1. \A w : w \in Writes(u) <=>
         \E t \in Slots : \E what \in req[t].wrote : w = <<t, what>> /\ Payee(t, what) = u
  BY WritesAre
<1>2. \A w : w \in Writes(u)' <=>
         \E t \in Slots' : \E what \in req'[t].wrote : w = <<t, what>> /\ Payee(t, what)' = u
  BY DEF Writes, BenefitsFrom, Payee
<1>3. Writes(u)' = Writes(u)
  <2>1. ASSUME NEW w \in Writes(u)' PROVE w \in Writes(u)
    <3>1. PICK t, what :
            t \in Slots' /\ what \in req'[t].wrote /\ w = <<t, what>> /\ Payee(t, what)' = u
      BY <1>2
    <3>2. t \in Slots /\ what \in req[t].wrote
      BY <3>1 DEF NothingNew
    <3>3. Payee(t, what) = u
      BY <3>1, <3>2 DEF NothingNew
    <3> QED BY <1>1, <3>1, <3>2, <3>3
  <2>2. ASSUME NEW w \in Writes(u) PROVE w \in Writes(u)'
    <3>1. PICK t, what :
            t \in Slots /\ what \in req[t].wrote /\ w = <<t, what>> /\ Payee(t, what) = u
      BY <1>1
    <3>2. t \in Slots' /\ what \in req'[t].wrote /\ Payee(t, what)' = u
      BY <3>1 DEF NothingNew
    <3> QED BY <1>2, <3>1, <3>2
  <2> QED BY <2>1, <2>2
<1>4. ASSUME NEW w \in Writes(u) PROVE GainOf(w[1], w[2])' = GainOf(w[1], w[2])
  <2>1. PICK t, what : t \in Slots /\ what \in req[t].wrote /\ w = <<t, what>>
    BY <1>1
  <2>2. GainOf(t, what)' = GainOf(t, what) /\ w[1] = t /\ w[2] = what
    BY <2>1 DEF NothingNew
  <2> QED BY <2>2
<1>5. ASSUME NEW W \in SUBSET Writes(u), NEW t \in Tokens PROVE Sum(W, t)' = Sum(W, t)
  <2>1. [w \in W |-> (GainOf(w[1], w[2])[t])'] = [w \in W |-> GainOf(w[1], w[2])[t]]
    BY <1>4
  <2> QED BY <2>1 DEF Sum
<1> QED BY <1>3, <1>5

(* The payments so far keep their gains and payees in a step.                *)
PaymentsStay ==
  \A t \in Slots : \A x \in req[t].wrote :
    /\ GainOf(t, x)' = GainOf(t, x) /\ Payee(t, x)' = Payee(t, x)
    /\ GainOf(t, x) \in Balances

(* A step adds one write to those on a user's account.                      *)
OneMore(u, s, what) ==
  /\ Writes(u)' = Writes(u) \cup {<<s, what>>}
  /\ \A W \in SUBSET Writes(u), t \in Tokens :
       /\ Sum(W, t)' = Sum(W, t)
       /\ Sum(W \cup {<<s, what>>}, t)' = Sum(W, t) + (GainOf(s, what)[t])'

(* One write more adds its amount to the sums that it is in.                *)
LEMMA SumsOfOneMore ==
  ASSUME TypeOK, NEW u, NEW s \in Slots, NEW what, what \notin req[s].wrote,
         Slots' = Slots, req'[s].wrote = req[s].wrote \cup {what},
         Payee(s, what)' = u, GainOf(s, what)' \in Balances,
         \A t \in Slots \ {s} : req'[t].wrote = req[t].wrote, PaymentsStay
  PROVE  OneMore(u, s, what)
<1> USE DEF PaymentsStay, OneMore
<1> DEFINE new == <<s, what>>
<1>1. /\ IsFiniteSet(Writes(u))
      /\ \A w : w \in Writes(u) <=>
           \E t \in Slots : \E x \in req[t].wrote : w = <<t, x>> /\ Payee(t, x) = u
  BY WritesAre
<1>2. \A w : w \in Writes(u)' <=>
         \E t \in Slots' : \E x \in req'[t].wrote : w = <<t, x>> /\ Payee(t, x)' = u
  BY DEF Writes, BenefitsFrom, Payee
<1>3. new \notin Writes(u)
  BY <1>1
<1>4. Writes(u)' = Writes(u) \cup {new}
  <2>1. ASSUME NEW w \in Writes(u)' PROVE w \in Writes(u) \cup {new}
    <3>1. PICK t, x : t \in Slots /\ x \in req'[t].wrote /\ w = <<t, x>> /\ Payee(t, x)' = u
      BY <1>2
    <3>2. CASE t = s /\ x = what
      BY <3>1, <3>2
    <3>3. CASE ~(t = s /\ x = what)
      <4>1. x \in req[t].wrote
        BY <3>1, <3>3
      <4> QED BY <1>1, <3>1, <4>1
    <3> QED BY <3>2, <3>3
  <2>2. ASSUME NEW w \in Writes(u) PROVE w \in Writes(u)'
    <3>1. PICK t, x : t \in Slots /\ x \in req[t].wrote /\ w = <<t, x>> /\ Payee(t, x) = u
      BY <1>1
    <3>2. x \in req'[t].wrote /\ Payee(t, x)' = u
      BY <3>1
    <3> QED BY <1>2, <3>1, <3>2
  <2>3. new \in Writes(u)'
    BY <1>2
  <2> QED BY <2>1, <2>2, <2>3
<1>5. ASSUME NEW w \in Writes(u)
      PROVE  GainOf(w[1], w[2])' = GainOf(w[1], w[2]) /\ GainOf(w[1], w[2]) \in Balances
  <2>1. PICK t, x : t \in Slots /\ x \in req[t].wrote /\ w = <<t, x>>
    BY <1>1
  <2>2. w[1] = t /\ w[2] = x
    BY <2>1
  <2> QED BY <2>1, <2>2
<1>6. new[1] = s /\ new[2] = what
  OBVIOUS
<1> HIDE DEF new
<1>7. ASSUME NEW W \in SUBSET Writes(u), NEW t \in Tokens
      PROVE  /\ Sum(W, t)' = Sum(W, t)
             /\ Sum(W \cup {new}, t)' = Sum(W, t) + (GainOf(s, what)[t])'
  <2> DEFINE f == [w \in W \cup {new} |-> (GainOf(w[1], w[2])[t])']
             g == [w \in W |-> GainOf(w[1], w[2])[t]]
  <2>1. \A b \in Balances : b[t] \in Int
    BY DEF Balances
  <2>2. f \in [W \cup {new} -> Int] /\ g \in [W -> Int]
    BY <1>5, <1>6, <2>1
  <2>3. \A w \in W : g[w] = f[w]
    BY <1>5
  <2>4. f[new] = (GainOf(s, what)[t])'
    BY <1>6
  <2>5. Sum(W \cup {new}, t)' = SumFunction(f) /\ Sum(W, t) = SumFunction(g)
    BY DEF Sum, new
  <2>6. Sum(W, t)' = Sum(W, t)
    <3>1. [w \in W |-> (GainOf(w[1], w[2])[t])'] = g
      BY <1>5
    <3> QED BY <3>1 DEF Sum
  <2>7. IsFiniteSet(W) /\ new \notin W
    BY <1>1, <1>3, FS_Subset
  <2> HIDE DEF f, g
  <2>8. SumFunction(f) = SumFunction(g) + f[new]
    BY <2>2, <2>3, <2>7, SumOfOneMore
  <2> QED BY <2>4, <2>5, <2>6, <2>8
<1> QED BY <1>4, <1>7 DEF new

(* What was reached is reached after one write more, whether that is        *)
(* forgotten or not.                                                        *)
Moved(v, g) ==
  \A t \in Tokens :
    /\ Sum(Writes(v), t) \in Int /\ Sum(Writes(v), t)' = Sum(Writes(v), t) + g[t]
    /\ users[v].exists =>
         \A n \in Int : Reached(v, n, t) => Reached(v, n, t)' /\ Reached(v, n + g[t], t)'

LEMMA MovedByNone ==
  ASSUME TypeOK, \A s \in Slots : Credited(s), NEW v \in Users, NothingNew(v),
         users[v].exists => users'[v].born = users[v].born
  PROVE  Moved(v, Nothing)
<1>1. /\ Writes(v)' = Writes(v)
      /\ \A W \in SUBSET Writes(v), t \in Tokens : Sum(W, t)' = Sum(W, t)
  BY SameSums
<1>2. \A W \in SUBSET Writes(v), t \in Tokens : Sum(W, t) \in Int
  BY SumTypes
<1>3. ASSUME NEW t \in Tokens
      PROVE  /\ Sum(Writes(v), t) \in Int /\ Sum(Writes(v), t)' = Sum(Writes(v), t)
             /\ Nothing[t] = 0
  <2>1. Sum(Writes(v), t) \in Int
    BY <1>2
  <2>2. PICK V : V = Writes(v)
    OBVIOUS
  <2>3. Sum(V, t)' = Sum(V, t)
    BY <1>1, <2>2
  <2>4. Sum(Writes(v), t)' = Sum(V, t)'
    BY <1>1, <2>2 DEF Sum
  <2> QED BY <2>1, <2>2, <2>3, <2>4 DEF Nothing
<1>4. ASSUME users[v].exists, NEW t \in Tokens, NEW n \in Int, Reached(v, n, t)
      PROVE  Reached(v, n, t)'
  <2>1. PICK W \in SUBSET Writes(v) : users[v].born[t] + Sum(Writes(v), t) - n = Sum(W, t)
    BY <1>4 DEF Reached
  <2>2. Sum(W, t)' = Sum(W, t) /\ users'[v].born = users[v].born
    BY <1>1, <1>4
  <2>3. users'[v].born[t] + Sum(Writes(v), t)' - n = Sum(W, t)'
    BY <1>3, <2>1, <2>2
  <2> QED BY <1>1, <2>3 DEF Reached
<1>5. \A n \in Int : n + 0 = n
  OBVIOUS
<1>6. ASSUME users[v].exists, NEW t \in Tokens, NEW n \in Int, Reached(v, n, t)
      PROVE  Reached(v, n, t)' /\ Reached(v, n + Nothing[t], t)'
  BY <1>3, <1>4, <1>5, <1>6
<1>7. ASSUME NEW t \in Tokens
      PROVE  Sum(Writes(v), t) \in Int /\ Sum(Writes(v), t)' = Sum(Writes(v), t) + Nothing[t]
  BY <1>3, <1>7
<1> QED BY <1>6, <1>7 DEF Moved

LEMMA MovedByOne ==
  ASSUME TypeOK, \A s \in Slots : Credited(s), NEW v \in Users, users[v].exists,
         users'[v].born = users[v].born, users[v].born \in Balances,
         NEW s \in Slots, NEW what, NEW g \in Balances, GainOf(s, what)' = g,
         OneMore(v, s, what)
  PROVE  Moved(v, g)
<1> USE DEF OneMore
<1>1. \A W \in SUBSET Writes(v), t \in Tokens : Sum(W, t) \in Int
  BY SumTypes
<1>2. \A t \in Tokens : (GainOf(s, what)[t])' = g[t] /\ g[t] \in Int /\ users[v].born[t] \in Int
  BY DEF Balances
<1>3. ASSUME NEW t \in Tokens
      PROVE  Sum(Writes(v), t) \in Int /\ Sum(Writes(v), t)' = Sum(Writes(v), t) + g[t]
  <2>1. Sum(Writes(v), t) \in Int
    BY <1>1
  <2>2. PICK V : V = Writes(v)
    OBVIOUS
  <2>3. Sum(V \cup {<<s, what>>}, t)' = Sum(V, t) + g[t]
    BY <1>2, <2>2
  <2>4. Sum(Writes(v), t)' = Sum(V \cup {<<s, what>>}, t)'
    BY <2>2 DEF Sum
  <2> QED BY <2>1, <2>2, <2>3, <2>4
<1>4. ASSUME NEW t \in Tokens, NEW n \in Int, Reached(v, n, t)
      PROVE  Reached(v, n, t)' /\ Reached(v, n + g[t], t)'
  <2>1. PICK W \in SUBSET Writes(v) : users[v].born[t] + Sum(Writes(v), t) - n = Sum(W, t)
    BY <1>4 DEF Reached
  <2>2. PICK X : X = W \cup {<<s, what>>}
    OBVIOUS
  <2>3. Sum(W, t) \in Int /\ Sum(W, t)' = Sum(W, t) /\ Sum(X, t)' = Sum(W, t) + g[t]
    BY <1>1, <1>2, <2>2
  <2>4. W \in SUBSET Writes(v)' /\ X \in SUBSET Writes(v)'
    BY <2>2
  <2>5. PICK m : m = n + g[t]
    OBVIOUS
  <2>6. /\ users[v].born[t] \in Int /\ users'[v].born[t] = users[v].born[t] /\ g[t] \in Int
        /\ Sum(Writes(v), t) \in Int /\ Sum(Writes(v), t)' = Sum(Writes(v), t) + g[t]
    BY <1>2, <1>3
  <2>7. /\ users'[v].born[t] + Sum(Writes(v), t)' - n = Sum(X, t)'
        /\ users'[v].born[t] + Sum(Writes(v), t)' - m = Sum(W, t)'
    <3>1. \A a, x, y, z, p \in Int : a + x - p = y =>
            a + (x + z) - p = y + z /\ a + (x + z) - (p + z) = y
      OBVIOUS
    <3> QED BY <2>1, <2>3, <2>5, <2>6, <3>1
  <2>8. Reached(v, n, t)' /\ Reached(v, m, t)'
    BY <2>4, <2>7 DEF Reached
  <2> QED BY <2>5, <2>8
<1> QED BY <1>3, <1>4 DEF Moved

(* So a step moves the account of each user by what it writes to the user.  *)
AccountMoves(s, r, v, g) ==
  /\ g \in Balances /\ Moved(v, g) /\ Changes(s, v, g)
  /\ v = req[s].call.user => Copies(s, r, g)

LEMMA AccountsMove ==
  ASSUME AccountInv, NEW s \in Slots, Step(s), NEW r, Follows(s, r), Silent(s, r) \/ Pays(s, r),
         NEW v \in Users
  PROVE  /\ \E g : AccountMoves(s, r, v, g)
         /\ ~users[v].exists => NothingNew(v)
<1>1. /\ KarmaInv /\ KarmaInv' /\ TypeOK /\ TypeOK'
      /\ \A t \in Slots : Credited(t)
  BY StepKeeps DEF AccountInv, KarmaInv
<1>2. Slots' = Slots /\ req'[s] = r /\ \A t \in Slots \ {s} : req'[t] = req[t]
  BY <1>1 DEF Follows, TypeOK, Slots
<1>3. users[v].exists => users'[v].born = users[v].born /\ users[v].born \in Balances
  BY <1>1, DocsSteps, UserTypes DEF DocsMove, KeptDoc, Documents, Balances
<1>4. Nothing \in Balances
  BY BalanceTypes
<1>5. ASSUME NEW t \in Slots, NEW what \in req[t].wrote
      PROVE  /\ GainOf(t, what)' = GainOf(t, what) /\ Payee(t, what)' = Payee(t, what)
             /\ what \in req'[t].wrote
  <2>1. req'[t].call = req[t].call /\ req'[t].mark = req[t].mark
    BY <1>2, <1>5 DEF Follows
  <2>2. what \in PlanWrites => req[t].mark \in DOMAIN plans
    BY <1>1, <1>5 DEF Credited
  <2>3. what \in PlanWrites => plans'[req[t].mark].id = plans[req[t].mark].id
    BY <1>1, <2>2, PlansSteps, PlanNames
  <2>4. r.wrote = req[s].wrote \/ \E x : r.wrote = req[s].wrote \cup {x}
    BY DEF Silent, Pays
  <2> QED BY <1>2, <1>5, <2>1, <2>3, <2>4, GainsStay
<1>6. ASSUME \A t \in Slots : \A what \in req'[t].wrote :
               what \in req[t].wrote \/ Payee(t, what)' # v
      PROVE  NothingNew(v) /\ Moved(v, Nothing)
  <2>1. NothingNew(v)
    BY <1>2, <1>5, <1>6 DEF NothingNew
  <2> QED BY <1>1, <1>3, <2>1, MovedByNone
<1>7. CASE Silent(s, r)
  <2>1. \A t \in Slots : req'[t].wrote = req[t].wrote
    BY <1>2, <1>7 DEF Silent
  <2>2. Changes(s, v, Nothing) /\ Copies(s, r, Nothing)
    BY <1>7 DEF Silent
  <2>3. NothingNew(v) /\ Moved(v, Nothing)
    BY <1>6, <2>1
  <2> QED BY <1>4, <2>2, <2>3 DEF AccountMoves
<1>8. CASE Pays(s, r)
  <2>1. PICK what \in Writings, gain \in Balances, b \in Users :
          /\ what \notin req[s].wrote /\ r.wrote = req[s].wrote \cup {what}
          /\ GainOf(s, what)' = gain /\ Payee(s, what)' = b /\ users[b].exists
          /\ \A x \in Users \ {b} : Changes(s, x, Nothing)
          /\ Changes(s, b, gain)
          /\ Copies(s, r, gain) /\ (r.pc \in Copying => b = req[s].call.user)
    BY <1>8 DEF Pays
  <2>2. CASE v # b
    <3>1. NothingNew(v) /\ Moved(v, Nothing)
      BY <1>2, <1>6, <2>1, <2>2
    <3>2. v = req[s].call.user => Copies(s, r, Nothing)
      BY <2>1, <2>2 DEF Copies
    <3> QED BY <1>4, <2>1, <2>2, <3>1, <3>2 DEF AccountMoves
  <2>3. CASE v = b
    <3>1. PaymentsStay
      BY <1>1, <1>5 DEF Credited, PaymentsStay
    <3>2. /\ \A t \in Slots \ {s} : req'[t].wrote = req[t].wrote
          /\ req'[s].wrote = req[s].wrote \cup {what}
      BY <1>2, <2>1
    <3>3. Payee(s, what)' = v /\ GainOf(s, what)' \in Balances
      BY <2>1, <2>3
    <3>4. OneMore(v, s, what)
      <4>1. TypeOK /\ TypeOK' /\ Slots' = Slots /\ what \notin req[s].wrote
        BY <1>1, <1>2, <2>1
      <4> QED BY <3>1, <3>2, <3>3, <4>1, SumsOfOneMore
    <3>5. Moved(v, gain)
      <4>1. /\ TypeOK /\ \A t \in Slots : Credited(t)
            /\ users[v].exists /\ users'[v].born = users[v].born /\ users[v].born \in Balances
        BY <1>1, <1>3, <2>1, <2>3
      <4>2. gain \in Balances /\ GainOf(s, what)' = gain
        BY <2>1
      <4> QED BY <3>4, <4>1, <4>2, MovedByOne
    <3> QED BY <2>1, <2>3, <3>5 DEF AccountMoves
  <2> QED BY <2>2, <2>3
<1> QED BY <1>7, <1>8

(* A step keeps who is settled so, and what is missing from the balances,   *)
(* unless it writes some over.                                              *)
KeepsAccounts ==
  \A u \in Users :
    /\ Settled(u) => Settled(u)'
    /\ \A t \in Tokens :
         \/ Missing(u, t)' = Missing(u, t)
         \/ /\ load.parallel > 1
            /\ Settled(u) => t = "PrarabdhaKarma"
            /\ Forgotten(u, t)'

LEMMA SettledStays ==
  ASSUME KarmaInv, NEW s \in Slots, Step(s), NEW r, Follows(s, r), NEW u \in Users, Settled(u)
  PROVE  Settled(u)'
<1>1. KarmaInv' /\ TypeOK
  BY StepKeeps DEF KarmaInv
<1>2. Slots' = Slots /\ req'[s] = r /\ \A t \in Slots \ {s} : req'[t] = req[t]
  BY <1>1 DEF Follows, TypeOK, Slots
<1>3. users'[u].exists /\ users'[u].last_decay = "naive"
  BY DocsSteps DEF Settled, DocsMove, KeptDoc
<1>4. \A t \in Slots : ~WritesWhole(t, u)
  BY DEF Settled
<1>5. ASSUME NEW t \in Slots PROVE ~WritesWhole(t, u)'
  <2>1. CASE t = s
    <3>1. ~Whole(r, u)
      BY DEF Follows
    <3> QED BY <1>2, <2>1, <3>1 DEF Whole, WritesWhole, At
  <2>2. CASE t # s
    <3>1. ~WritesWhole(t, u) /\ req'[t] = req[t]
      BY <1>2, <1>4, <2>2
    <3> QED BY <3>1 DEF WritesWhole, At
  <2> QED BY <2>1, <2>2
<1>6. (\A t \in Slots : ~WritesWhole(t, u))'
  BY <1>2, <1>5
<1> QED BY <1>3, <1>6 DEF Settled

(* Who is not there has got nothing, and who is made has what they are made *)
(* with.                                                                    *)
LEMMA NothingYet ==
  ASSUME AccountInv, NEW s \in Slots, Step(s), NEW u \in Users, ~users[u].exists, NothingNew(u),
         NEW t \in Tokens
  PROVE  /\ Writes(u)' = {} /\ Sum(Writes(u), t)' = 0 /\ Sum({}, t)' = 0
         /\ users'[u].exists =>
              /\ users'[u].bal[t] = users'[u].born[t] /\ users'[u].born[t] \in Int
<1>1. TypeOK /\ KarmaInv /\ \A q \in Slots : Credited(q)
  BY DEF AccountInv, KarmaInv
<1>2. \A w : w \in Writes(u) <=>
        \E q \in Slots : \E what \in req[q].wrote : w = <<q, what>> /\ Payee(q, what) = u
  BY <1>1, WritesAre
<1>3. Writes(u) = {}
  BY <1>1, <1>2 DEF Credited
<1>4. /\ Writes(u)' = Writes(u)
      /\ \A W \in SUBSET Writes(u), k \in Tokens : Sum(W, k)' = Sum(W, k)
  BY <1>1, SameSums
<1>5. Sum({}, t)' = Sum({}, t) /\ Sum({}, t) = 0
  BY <1>1, <1>4, SumTypes
<1>6. Sum(Writes(u), t)' = Sum({}, t)'
  BY <1>3, <1>4 DEF Sum
<1>7. ASSUME users'[u].exists
      PROVE  users'[u].bal[t] = users'[u].born[t] /\ users'[u].born[t] \in Int
  <2>1. users'[u].bal = users'[u].born
    BY <1>1, <1>7, DocsSteps DEF DocsMove, MadeDoc
  <2>2. KarmaInv'
    BY <1>1, StepKeeps
  <2>3. users' \in [Users -> Documents \cup {NoDoc}]
    BY <2>2 DEF KarmaInv, TypeOK, Documents
  <2>4. users'[u] \in Documents
    BY <1>7, <2>3 DEF NoDoc
  <2>5. users'[u].born \in [Tokens -> Int]
    BY <2>4 DEF Documents
  <2> QED BY <2>1, <2>5
<1> QED BY <1>3, <1>4, <1>5, <1>6, <1>7

(* The copies that requests rely on were reached, and so was what a step    *)
(* makes of a balance.                                                      *)
LEMMA ReachedStays ==
  ASSUME AccountInv, NEW s \in Slots, Step(s), NEW r, Follows(s, r), Silent(s, r) \/ Pays(s, r)
  PROVE  /\ \A q \in Slots : Copied(req[q])'
         /\ \A u \in Users : users'[u].exists =>
              \A t \in Tokens : \A n : n = users'[u].bal[t] => Reached(u, n, t)'
<1>1. /\ KarmaInv /\ KarmaInv' /\ TypeOK
      /\ \A q \in Slots : Copied(req[q]) /\ Sound(q, req[q]) /\ req[q].call.user \in Users
      /\ \A u \in Users : users[u].exists => users[u].bal \in Balances
  BY StepKeeps, SlotTypes, CallTypes, UserTypes DEF AccountInv, KarmaInv, Documents, Balances
<1>2. req'[s] = r /\ \A q \in Slots \ {s} : req'[q] = req[q]
  BY <1>1 DEF Follows, TypeOK, Slots
<1>3. DocsMove
  BY <1>1, DocsSteps
<1>4. \A q \in Slots : req[q].pc \in Copying =>
        users[req[q].call.user].exists /\ req[q].doc.bal \in Balances
  BY <1>1 DEF Sound, HoldsUser, UserStages, Copying, Documents, Balances
<1>5. ASSUME NEW u \in Users, NEW t \in Tokens, ~users[u].exists, users'[u].exists,
             NEW n, n = users'[u].bal[t]
      PROVE  Reached(u, n, t)'
  <2>1. NothingNew(u)
    BY <1>5, AccountsMove
  <2>2. /\ Writes(u)' = {} /\ Sum(Writes(u), t)' = 0 /\ Sum({}, t)' = 0
        /\ n = users'[u].born[t] /\ users'[u].born[t] \in Int
    BY <1>5, <2>1, NothingYet
  <2>3. users'[u].born[t] + Sum(Writes(u), t)' - n = Sum({}, t)'
    BY <2>2
  <2>4. {} \in SUBSET Writes(u)'
    OBVIOUS
  <2> QED BY <2>3, <2>4 DEF Reached
<1>6. ASSUME NEW u \in Users, NEW t \in Tokens, users[u].exists, NEW n, n = users'[u].bal[t]
      PROVE  Reached(u, n, t)'
  <2>1. PICK g : AccountMoves(s, r, u, g)
    BY AccountsMove
  <2>2. \A m \in Int : Reached(u, m, t) => Reached(u, m + g[t], t)'
    BY <1>6, <2>1 DEF AccountMoves, Moved
  <2>3. CASE n = users[u].bal[t] + g[t]
    <3>1. PICK m : m = users[u].bal[t]
      OBVIOUS
    <3>2. m \in Int /\ Reached(u, m, t)
      BY <1>1, <1>6, <3>1 DEF Balances, AccountInv
    <3> QED BY <2>2, <2>3, <3>1, <3>2
  <2>4. CASE req[s].call.user = u /\ req[s].pc \in Copying /\ n = req[s].doc.bal[t] + g[t]
    <3>1. PICK m : m = req[s].doc.bal[t]
      OBVIOUS
    <3>2. m \in Int /\ Reached(u, m, t)
      BY <1>1, <1>4, <2>4, <3>1 DEF Balances, Copied
    <3> QED BY <2>2, <2>4, <3>1, <3>2
  <2> QED BY <1>6, <2>1, <2>3, <2>4 DEF AccountMoves, Changes
<1>7. ASSUME NEW q \in Slots PROVE Copied(req[q])'
  <2>0. PICK u \in Users : u = req[q].call.user
    BY <1>1
  <2>1. req'[q].call.user = u /\ req[q].call.user = u
    BY <1>2, <2>0 DEF Follows
  <2>2. PICK g : AccountMoves(s, r, u, g)
    BY <2>1, AccountsMove
  <2>3. users[u].exists => \A t \in Tokens, m \in Int :
          Reached(u, m, t) => Reached(u, m, t)' /\ Reached(u, m + g[t], t)'
    BY <2>2 DEF AccountMoves, Moved
  <2>4. ASSUME req'[q].pc \in {"create", "insertUser"}, users'[u].exists
        PROVE  users'[u].born = Nothing
    <3>1. q # s
      BY <1>2, <2>1, <2>2, <2>4 DEF AccountMoves, Copies, Follows
    <3>2. CASE users[u].exists
      BY <1>1, <1>2, <1>3, <2>1, <2>4, <3>1, <3>2 DEF DocsMove, KeptDoc, Copied
    <3>3. CASE ~users[u].exists
      BY <1>3, <2>1, <2>4, <3>3 DEF DocsMove, MadeDoc
    <3> QED BY <3>2, <3>3
  <2>5. ASSUME req'[q].pc \in Copying, NEW t \in Tokens, NEW n, n = req'[q].doc.bal[t]
        PROVE  Reached(u, n, t)'
    <3>1. ASSUME users[u].exists, n = users[u].bal[t] + g[t] PROVE Reached(u, n, t)'
      <4>1. PICK m : m = users[u].bal[t]
        OBVIOUS
      <4>2. m \in Int /\ Reached(u, m, t)
        BY <1>1, <2>1, <3>1, <4>1 DEF Balances, AccountInv
      <4> QED BY <2>3, <3>1, <4>1, <4>2
    <3>2. ASSUME req[q].pc \in Copying, n = req[q].doc.bal[t] \/ n = req[q].doc.bal[t] + g[t]
          PROVE  Reached(u, n, t)'
      <4>1. PICK m : m = req[q].doc.bal[t]
        OBVIOUS
      <4>2. users[u].exists /\ m \in Int /\ Reached(u, m, t)
        BY <1>1, <1>4, <2>1, <3>2, <4>1 DEF Balances, Copied
      <4> QED BY <2>3, <3>2, <4>1, <4>2
    <3>3. ASSUME users'[u].exists, users'[u].born = Nothing, n = Nothing[t]
          PROVE  Reached(u, n, t)'
      <4>1. Sum(Writes(u), t)' \in Int
        <5>1. CASE users[u].exists
          BY <2>2 DEF AccountMoves, Moved, Balances
        <5>2. CASE ~users[u].exists
          BY <2>1, <5>2, AccountsMove, NothingYet
        <5> QED BY <5>1, <5>2
      <4>2. users'[u].born[t] = 0 /\ n = 0
        BY <3>3 DEF Nothing
      <4>3. PICK V : V = Writes(u)'
        OBVIOUS
      <4>4. Sum(V, t)' = Sum(Writes(u), t)'
        BY <4>3 DEF Sum
      <4>5. users'[u].born[t] + Sum(Writes(u), t)' - n = Sum(V, t)'
        BY <4>1, <4>2, <4>4
      <4>6. V \in SUBSET Writes(u)'
        BY <4>3
      <4> QED BY <4>5, <4>6 DEF Reached
    <3>4. CASE q # s
      BY <1>2, <2>5, <3>2, <3>4
    <3>5. CASE q = s
      <4>1. Copies(s, r, g) /\ r.pc \in Copying /\ n = r.doc.bal[t]
        BY <1>2, <2>1, <2>2, <2>5, <3>5 DEF AccountMoves
      <4> QED BY <2>1, <2>5, <3>1, <3>2, <3>3, <3>5, <4>1 DEF Copies
    <3> QED BY <3>4, <3>5
  <2>6. ASSUME req'[q].pc \in Copying, NEW t \in Tokens
        PROVE  \E W \in SUBSET Writes(u)' :
                 users'[u].born[t] + Sum(Writes(u), t)' - req'[q].doc.bal[t] = Sum(W, t)'
    BY <2>5, <2>6 DEF Reached
  <2> QED BY <2>1, <2>4, <2>6 DEF Copied, Reached, Copying
<1> QED BY <1>5, <1>6, <1>7

(* The invariant is kept by the steps of requests, and so are the accounts. *)
LEMMA AccountsStep ==
  ASSUME AccountInv, NEW s \in Slots, Step(s)
  PROVE  AccountInv' /\ KeepsAccounts
<1>1. /\ KarmaInv /\ KarmaInv' /\ TypeOK /\ load \in Workloads
      /\ \A t \in Slots : Posted(req[t]) /\ Credited(t)
  BY StepKeeps DEF AccountInv, KarmaInv, TypeOK
<1>2. UNCHANGED load
  BY <1>1, RecordsSteps DEF RecordsMove
<1>3. req[s].pc \notin Finished
      /\ \E r : /\ Follows(s, r)
                /\ Silent(s, r) \/ Pays(s, r)
                /\ Undisturbed => Current(r)'
  BY StepAccounts DEF Accounts
<1>4. PICK r : /\ Follows(s, r)
               /\ Silent(s, r) \/ Pays(s, r)
               /\ Undisturbed => Current(r)'
  BY <1>3
<1>5. Slots' = Slots /\ req'[s] = r /\ \A t \in Slots \ {s} : req'[t] = req[t]
  BY <1>1, <1>4 DEF Follows, TypeOK, Slots
<1>6. \A u \in Users : users[u].exists => users'[u].exists
  BY <1>1, DocsSteps DEF DocsMove, KeptDoc
<1>7. ASSUME NEW t \in Slots, NEW what \in req[t].wrote
      PROVE  /\ GainOf(t, what)' = GainOf(t, what) /\ Payee(t, what)' = Payee(t, what)
             /\ what \in PlanWrites => req'[t].mark \in DOMAIN plans'
  <2>1. req'[t].call = req[t].call /\ req'[t].mark = req[t].mark
    BY <1>4, <1>5, <1>7 DEF Follows
  <2>2. what \in PlanWrites => req[t].mark \in DOMAIN plans
    BY <1>1, <1>7 DEF Credited
  <2>3. what \in PlanWrites =>
          req[t].mark \in DOMAIN plans' /\ plans'[req[t].mark].id = plans[req[t].mark].id
    BY <1>1, <2>2, PlansSteps, PlanNames
  <2> QED BY <2>1, <2>3, GainsStay
<1>8. ASSUME NEW t \in Slots, NEW what \in req'[t].wrote, what \notin req[t].wrote
      PROVE  /\ GainOf(t, what)' \in Balances /\ Payee(t, what)' \in Users
             /\ users[Payee(t, what)'].exists
             /\ what \in PlanWrites => req'[t].mark \in DOMAIN plans'
  <2>1. t = s
    BY <1>5, <1>8
  <2>2. what \in r.wrote /\ what \notin req[s].wrote
    BY <1>5, <1>8, <2>1
  <2>3. Pays(s, r)
    BY <1>4, <2>2 DEF Silent
  <2> QED BY <1>5, <2>1, <2>2, <2>3 DEF Pays
<1>9. ASSUME NEW t \in Slots PROVE Posted(req'[t]) /\ Credited(t)'
  <2>1. Posted(req'[t])
    BY <1>1, <1>4, <1>5 DEF Follows
  <2>2. ASSUME NEW what \in req'[t].wrote
        PROVE  /\ what \in PlanWrites => req'[t].mark \in DOMAIN plans'
               /\ GainOf(t, what)' \in Balances
               /\ Payee(t, what)' \in Users /\ users'[Payee(t, what)'].exists
    <3>1. CASE what \in req[t].wrote
      BY <1>1, <1>6, <1>7, <3>1 DEF Credited
    <3>2. CASE what \notin req[t].wrote
      BY <1>6, <1>8, <3>2
    <3> QED BY <3>1, <3>2
  <2>3. Credited(t)'
    BY <2>2 DEF Credited, PlanWrites
  <2> QED BY <2>1, <2>3
<1>10. /\ \A q \in Slots : Copied(req[q])'
       /\ \A u \in Users : users'[u].exists =>
            \A t \in Tokens : \A n : n = users'[u].bal[t] => Reached(u, n, t)'
  BY <1>4, ReachedStays
<1>11. (\A t \in Slots : Posted(req[t]) /\ Credited(t) /\ Copied(req[t]))'
  <2>1. \A t \in Slots' : Posted(req'[t]) /\ Credited(t)' /\ Copied(req[t])'
    BY <1>5, <1>9, <1>10
  <2> QED BY <2>1 DEF Posted
<1>12. (\A u \in Users : users[u].exists => \A t \in Tokens : Reached(u, users[u].bal[t], t))'
  BY <1>10 DEF Reached
<1>13. ASSUME load'.parallel <= 1 PROVE Undisturbed'
  <2>1. Undisturbed
    BY <1>2, <1>13 DEF AccountInv
  <2>2. s \in InFlight
    BY <1>3 DEF InFlight
  <2>3. ASSUME NEW t \in Slots, t # s PROVE req'[t].pc \in Finished
    <3>1. t \notin InFlight
      BY <2>1, <2>2, <2>3 DEF Undisturbed
    <3> QED BY <1>5, <2>3, <3>1 DEF InFlight
  <2>4. (\A t, v \in InFlight : t = v)'
    BY <1>5, <2>3 DEF InFlight
  <2>5. ASSUME NEW t \in Slots PROVE Current(req[t])'
    <3>1. CASE t = s
      BY <1>4, <1>5, <2>1, <3>1 DEF Current
    <3>2. CASE t # s
      BY <2>3, <3>2 DEF Current, Copying, Finished
    <3> QED BY <3>1, <3>2
  <2> QED BY <1>5, <2>4, <2>5 DEF Undisturbed
<1>14. (load.parallel <= 1 => Undisturbed)'
  BY <1>13
<1>15. AccountInv'
  BY <1>1, <1>11, <1>12, <1>14 DEF AccountInv
<1>16. ASSUME NEW u \in Users, NEW t \in Tokens
       PROVE  \/ Missing(u, t)' = Missing(u, t)
              \/ /\ load.parallel > 1
                 /\ Settled(u) => t = "PrarabdhaKarma"
                 /\ Forgotten(u, t)'
  <2>1. CASE ~users[u].exists
    <3>1. NothingNew(u)
      BY <1>4, <2>1, AccountsMove
    <3>2. /\ Sum(Writes(u), t)' = 0
          /\ users'[u].exists =>
               users'[u].bal[t] = users'[u].born[t] /\ users'[u].born[t] \in Int
      BY <2>1, <3>1, NothingYet
    <3> QED BY <2>1, <3>2 DEF Missing
  <2>2. CASE users[u].exists
    <3>1. PICK g : AccountMoves(s, r, u, g)
      BY <1>4, AccountsMove
    <3>2. /\ users'[u].exists /\ users'[u].born = users[u].born
          /\ users[u].born[t] \in Int /\ users[u].bal[t] \in Int /\ g[t] \in Int
      BY <1>1, <2>2, <3>1, DocsSteps, UserTypes
         DEF DocsMove, KeptDoc, AccountMoves, Documents, Balances
    <3>3. /\ Sum(Writes(u), t) \in Int /\ Sum(Writes(u), t)' = Sum(Writes(u), t) + g[t]
      BY <3>1 DEF AccountMoves, Moved
    <3>4. /\ Missing(u, t) = users[u].born[t] + Sum(Writes(u), t) - users[u].bal[t]
          /\ Missing(u, t)' = users'[u].born[t] + Sum(Writes(u), t)' - users'[u].bal[t]
      BY <2>2, <3>2 DEF Missing
    <3>5. ASSUME users'[u].bal[t] = users[u].bal[t] + g[t]
          PROVE  Missing(u, t)' = Missing(u, t)
      BY <3>2, <3>3, <3>4, <3>5
    <3>6. ASSUME /\ req[s].call.user = u /\ req[s].pc \in Copying
                 /\ Whole(req[s], u) \/ t = "PrarabdhaKarma"
                 /\ users'[u].bal[t] = req[s].doc.bal[t] + g[t]
          PROVE  \/ Missing(u, t)' = Missing(u, t)
                 \/ /\ load.parallel > 1
                    /\ Settled(u) => t = "PrarabdhaKarma"
                    /\ Forgotten(u, t)'
      <4>1. CASE load.parallel <= 1
        <5>1. req[s].doc.bal = users[u].bal
          BY <3>6, <4>1 DEF AccountInv, Undisturbed, Current
        <5> QED BY <3>5, <3>6, <5>1
      <4>2. CASE ~(load.parallel <= 1)
        <5>1. load.parallel > 1
          BY <1>1, <4>2, WorkloadAssumption
        <5>2. Settled(u) => t = "PrarabdhaKarma"
          BY <3>6 DEF Whole, Settled, WritesWhole, At
        <5>3. Forgotten(u, t)'
          <6>1. PICK n : n = users'[u].bal[t]
            OBVIOUS
          <6>2. Reached(u, n, t)'
            BY <1>10, <3>2, <6>1
          <6>3. PICK W \in SUBSET Writes(u)' :
                  users'[u].born[t] + Sum(Writes(u), t)' - n = Sum(W, t)'
            BY <6>2 DEF Reached
          <6>4. Missing(u, t)' = Sum(W, t)'
            BY <3>4, <6>1, <6>3
          <6> QED BY <6>3, <6>4 DEF Forgotten
        <5> QED BY <5>1, <5>2, <5>3
      <4> QED BY <4>1, <4>2
    <3> QED BY <2>2, <3>1, <3>5, <3>6 DEF AccountMoves, Changes
  <2> QED BY <2>1, <2>2
<1>17. \A u \in Users : Settled(u) => Settled(u)'
  BY <1>1, <1>4, SettledStays
<1> QED BY <1>15, <1>16, <1>17 DEF KeepsAccounts

(* A step that makes no write and changes no user.                          *)
LEMMA NothingPaid ==
  ASSUME AccountInv, KarmaInv', UNCHANGED <<users, plans, load>>,
         \A t \in Slots : t \in Slots' /\ req'[t] = req[t],
         \A t \in Slots' \ Slots : req'[t] = NewRequest(req'[t].call),
         load.parallel <= 1 => \A t, v \in InFlight' : t = v
  PROVE  AccountInv' /\ KeepsAccounts
<1>1. TypeOK /\ TypeOK' /\ \A t \in Slots : Posted(req[t]) /\ Credited(t) /\ Copied(req[t])
  BY DEF AccountInv, KarmaInv
<1>2. \A c : NewRequest(c).pc = "received" /\ NewRequest(c).wrote = {}
  BY DEF NewRequest
<1>3. ASSUME NEW t \in Slots, NEW what
      PROVE  GainOf(t, what)' = GainOf(t, what) /\ Payee(t, what)' = Payee(t, what)
  BY GainsStay
<1>4. ASSUME NEW u \in Users
      PROVE  /\ Writes(u)' = Writes(u)
             /\ \A W \in SUBSET Writes(u), t \in Tokens : Sum(W, t)' = Sum(W, t)
             /\ \A t \in Tokens : Sum(Writes(u), t)' = Sum(Writes(u), t)
  <2>1. NothingNew(u)
    BY <1>2, <1>3 DEF NothingNew
  <2>2. /\ Writes(u)' = Writes(u)
        /\ \A W \in SUBSET Writes(u), t \in Tokens : Sum(W, t)' = Sum(W, t)
    BY <1>1, <2>1, SameSums
  <2>3. ASSUME NEW t \in Tokens PROVE Sum(Writes(u), t)' = Sum(Writes(u), t)
    <3>1. PICK V : V = Writes(u)
      OBVIOUS
    <3>2. Sum(V, t)' = Sum(V, t) /\ Sum(Writes(u), t)' = Sum(V, t)'
      BY <2>2, <3>1 DEF Sum
    <3> QED BY <3>1, <3>2
  <2> QED BY <2>2, <2>3
<1>5. ASSUME NEW u \in Users, NEW t \in Tokens, NEW n, Reached(u, n, t) PROVE Reached(u, n, t)'
  <2>1. PICK W \in SUBSET Writes(u) : users[u].born[t] + Sum(Writes(u), t) - n = Sum(W, t)
    BY <1>5 DEF Reached
  <2>2. Sum(W, t)' = Sum(W, t) /\ Sum(Writes(u), t)' = Sum(Writes(u), t)
    BY <1>4
  <2>3. users'[u].born[t] + Sum(Writes(u), t)' - n = Sum(W, t)'
    BY <2>1, <2>2
  <2>4. W \in SUBSET Writes(u)'
    BY <1>4
  <2> QED BY <2>3, <2>4 DEF Reached
<1>6. ASSUME NEW t \in Slots' PROVE Posted(req'[t]) /\ Credited(t)' /\ Copied(req[t])'
  <2>1. CASE t \in Slots
    <3>1. PICK u \in Users : u = req[t].call.user
      BY <1>1, <2>1, SlotTypes, CallTypes
    <3>2. Posted(req'[t]) /\ Credited(t)'
      BY <1>1, <1>3, <2>1 DEF Credited, PlanWrites
    <3>3. req'[t] = req[t] /\ Copied(req[t])
      BY <1>1, <2>1
    <3>4. ASSUME req[t].pc \in Copying, NEW k \in Tokens, NEW n, n = req[t].doc.bal[k]
          PROVE  Reached(u, n, k)'
      BY <1>5, <3>1, <3>3, <3>4 DEF Copied
    <3>5. Copied(req[t])'
      <4>1. ASSUME req'[t].pc \in Copying, NEW k \in Tokens
            PROVE  \E W \in SUBSET Writes(u)' :
                     users'[u].born[k] + Sum(Writes(u), k)' - req'[t].doc.bal[k] = Sum(W, k)'
        BY <3>3, <3>4, <4>1 DEF Reached
      <4>2. req'[t].pc \in {"create", "insertUser"} /\ users'[u].exists
              => users'[u].born = Nothing
        BY <3>1, <3>3 DEF Copied
      <4> QED BY <3>1, <3>3, <4>1, <4>2 DEF Copied, Reached, Copying
    <3> QED BY <3>2, <3>5
  <2>2. CASE t \notin Slots
    <3>1. req'[t].pc = "received" /\ req'[t].wrote = {}
      BY <1>2, <2>2
    <3> QED BY <3>1 DEF Posted, Credited, Copied, Copying
  <2> QED BY <2>1, <2>2
<1>7. (\A t \in Slots : Posted(req[t]) /\ Credited(t) /\ Copied(req[t]))'
  <2>1. \A t \in Slots' : Posted(req'[t]) /\ Credited(t)' /\ Copied(req[t])'
    BY <1>6
  <2> QED BY <2>1 DEF Posted
<1>8. (\A u \in Users : users[u].exists => \A t \in Tokens : Reached(u, users[u].bal[t], t))'
  <2>1. ASSUME NEW u \in Users, users[u].exists, NEW t \in Tokens, NEW n, n = users[u].bal[t]
        PROVE  Reached(u, n, t)'
    BY <1>5, <2>1 DEF AccountInv
  <2>2. ASSUME NEW u \in Users, users'[u].exists, NEW t \in Tokens
        PROVE  \E W \in SUBSET Writes(u)' :
                 users'[u].born[t] + Sum(Writes(u), t)' - users'[u].bal[t] = Sum(W, t)'
    BY <2>1, <2>2 DEF Reached
  <2> QED BY <2>2 DEF Reached
<1>9. ASSUME load'.parallel <= 1 PROVE Undisturbed'
  <2>1. \A t \in Slots : Current(req[t])
    BY <1>9 DEF AccountInv, Undisturbed
  <2>2. ASSUME NEW t \in Slots' PROVE Current(req[t])'
    <3>1. CASE t \in Slots
      BY <2>1, <3>1 DEF Current
    <3>2. CASE t \notin Slots
      <4>1. req'[t].pc = "received"
        BY <1>2, <3>2
      <4> QED BY <4>1 DEF Current, Copying
    <3> QED BY <3>1, <3>2
  <2>3. (\A t \in Slots : Current(req[t]))'
    BY <2>2
  <2> QED BY <1>9, <2>3 DEF Undisturbed
<1>10. (load.parallel <= 1 => Undisturbed)'
  BY <1>9
<1>11. ASSUME NEW u \in Users, Settled(u) PROVE Settled(u)'
  <2>1. ASSUME NEW t \in Slots' PROVE ~WritesWhole(t, u)'
    <3>1. CASE t \in Slots
      <4>1. ~WritesWhole(t, u) /\ req'[t] = req[t]
        BY <1>11, <3>1 DEF Settled
      <4> QED BY <4>1 DEF WritesWhole, At
    <3>2. CASE t \notin Slots
      <4>1. req'[t].pc = "received"
        BY <1>2, <3>2
      <4> QED BY <4>1 DEF WritesWhole, At
    <3> QED BY <3>1, <3>2
  <2>2. (\A t \in Slots : ~WritesWhole(t, u))'
    BY <2>1
  <2> QED BY <1>11, <2>2 DEF Settled
<1>12. \A u \in Users, t \in Tokens : Missing(u, t)' = Missing(u, t)
  BY <1>4 DEF Missing
<1> QED BY <1>7, <1>8, <1>10, <1>11, <1>12 DEF AccountInv, KeepsAccounts

(* So it is kept by a new call, and by a stutter.                           *)
LEMMA CallAccounts ==
  ASSUME AccountInv, Call
  PROVE  AccountInv' /\ KeepsAccounts
<1>1. KarmaInv' /\ TypeOK /\ TypeOK'
  BY CallKeeps DEF AccountInv, KarmaInv
<1>2. PICK c : req' = Append(req, NewRequest(c))
  BY DEF Call
<1>3. /\ UNCHANGED <<users, plans, load>>
      /\ Cardinality(InFlight) < load.parallel
  BY DEF Call
<1>4. PICK n : n = Len(req) + 1
  OBVIOUS
<1>5. /\ Slots = 1 .. Len(req) /\ Len(req) \in Nat /\ Slots' = Slots \cup {n} /\ n \notin Slots
      /\ req'[n] = NewRequest(c) /\ \A t \in Slots : req'[t] = req[t]
  <2>1. req \in Seq(Requests) /\ Len(req) \in Nat /\ Slots = 1 .. Len(req)
    BY <1>1 DEF TypeOK, Slots
  <2>2. PICK new : new = NewRequest(c)
    OBVIOUS
  <2>3. /\ Len(req') = Len(req) + 1 /\ DOMAIN req' = 1 .. Len(req')
        /\ req'[n] = new /\ \A t \in 1 .. Len(req) : req'[t] = req[t]
    BY <1>2, <1>4, <2>1, <2>2
  <2> QED BY <1>4, <2>1, <2>2, <2>3 DEF Slots
<1>6. NewRequest(c).call = c
  BY DEF NewRequest
<1>7. ASSUME load.parallel <= 1 PROVE \A t, v \in InFlight' : t = v
  <2>1. IsFiniteSet(Slots)
    BY <1>5, FS_Interval
  <2>2. InFlight \in SUBSET Slots
    BY DEF InFlight
  <2>3. load.parallel \in Nat
    BY <1>1, WorkloadAssumption DEF TypeOK
  <2>4. Cardinality(InFlight) \in Nat
    BY <2>1, <2>2, SubsetSizes
  <2>5. Cardinality(InFlight) = 0
    BY <1>3, <1>7, <2>3, <2>4
  <2>6. InFlight = {}
    BY <2>1, <2>2, <2>5, SubsetSizes
  <2>7. \A t \in InFlight' : t = n
    BY <1>5, <2>6 DEF InFlight
  <2> QED BY <2>7
<1>8. \A t \in Slots' \ Slots : req'[t] = NewRequest(req'[t].call)
  BY <1>5, <1>6
<1> QED BY <1>1, <1>3, <1>5, <1>7, <1>8, NothingPaid

LEMMA StutterAccounts ==
  ASSUME AccountInv, UNCHANGED vars
  PROVE  AccountInv' /\ KeepsAccounts
<1>1. KarmaInv'
  BY StutterKeeps DEF AccountInv
<1>2. UNCHANGED <<users, plans, load, req>>
  BY DEF vars
<1>3. Slots' = Slots /\ InFlight' = InFlight
  BY <1>2 DEF Slots, InFlight
<1>4. load.parallel <= 1 => \A t, v \in InFlight' : t = v
  BY <1>3 DEF AccountInv, Undisturbed
<1> QED BY <1>1, <1>2, <1>3, <1>4, NothingPaid

(* It holds at the start.                                                   *)
LEMMA AccountsAtStart == Init => AccountInv
<1> SUFFICES ASSUME Init PROVE AccountInv
  OBVIOUS
<1>1. KarmaInv /\ TypeOK
  BY KarmaAtStart DEF KarmaInv
<1>2. req = <<>>
  BY DEF Init
<1>3. Slots = {} /\ InFlight = {}
  BY <1>2 DEF Slots, InFlight
<1>4. Undisturbed /\ \A s \in Slots : Credited(s)
  BY <1>3 DEF Undisturbed
<1>5. ASSUME NEW u \in Users, users[u].exists, NEW t \in Tokens
      PROVE  Reached(u, users[u].bal[t], t)
  <2>1. \A w : w \in Writes(u) <=>
          \E s \in Slots : \E what \in req[s].wrote : w = <<s, what>> /\ Payee(s, what) = u
    BY <1>1, WritesAre
  <2>2. Writes(u) = {}
    BY <1>3, <2>1
  <2>3. Sum({}, t) = 0
    BY <1>1, <1>4, SumTypes
  <2>4. users[u].bal = users[u].born
    BY <1>5 DEF Init, NewDoc, NoDoc
  <2>5. users[u].born[t] \in Int
    BY <1>1, <1>5, UserTypes DEF Documents
  <2>6. users[u].born[t] + Sum({}, t) - users[u].bal[t] = Sum({}, t)
    BY <2>3, <2>4, <2>5
  <2> QED BY <2>2, <2>6 DEF Reached
<1> QED BY <1>1, <1>3, <1>4, <1>5 DEF AccountInv

(* AccountInv holds of every state that the tracker reaches: every balance, *)
(* and every copy of one that a handler of karma.py, of v1 or of the        *)
(* Prarabdha counter may still write, is the sum of the opening balance and *)
(* of some of the $inc and $set that were made.                             *)
THEOREM AccountInvariance == Spec => []AccountInv
<1>1. Init => AccountInv
  BY AccountsAtStart
<1>2. AccountInv /\ [Next]_vars => AccountInv'
  <2> SUFFICES ASSUME AccountInv, [Next]_vars PROVE AccountInv'
    OBVIOUS
  <2>1. CASE Call
    BY <2>1, CallAccounts
  <2>2. ASSUME NEW s \in Slots, Step(s) PROVE AccountInv'
    BY <2>2, AccountsStep
  <2>3. CASE UNCHANGED vars
    BY <2>3, StutterAccounts
  <2> QED BY <2>1, <2>2, <2>3 DEF Next
<1> QED BY <1>1, <1>2, PTL DEF Spec

(* Each step of the requests keeps the accounts, to the token, whatever the *)
(* order of the steps and wherever a request ends by an exception or a      *)
(* stop: no $inc or $set is doubled, halved or invented.  Writes are        *)
(* forgotten only whole and by requests at the same time, and of a user who *)
(* is settled, as everyone stays after the first requests, only by the      *)
(* counter of PrarabdhaKarma.                                               *)
THEOREM AccountsAlwaysKept == Spec => AccountsAreKept
<1>1. AccountInv /\ [Next]_vars => KeepsAccounts
  <2> SUFFICES ASSUME AccountInv, [Next]_vars PROVE KeepsAccounts
    OBVIOUS
  <2>1. CASE Call
    BY <2>1, CallAccounts
  <2>2. ASSUME NEW s \in Slots, Step(s) PROVE KeepsAccounts
    BY <2>2, AccountsStep
  <2>3. CASE UNCHANGED vars
    BY <2>3, StutterAccounts
  <2> QED BY <2>1, <2>2, <2>3 DEF Next
<1>2. AccountInv /\ [Next]_vars => [KeepsAccounts]_vars
  BY <1>1
<1>3. Spec => [][KeepsAccounts]_vars
  BY <1>2, AccountInvariance, PTL DEF Spec
<1>4. [][KeepsAccounts]_vars => AccountsAreKept
  BY DEF AccountsAreKept, KeepsAccounts
<1> QED BY <1>3, <1>4
-----------------------------------------------------------------------------
(* The broadcast server.                                                    *)
Sending(t) == task[t].pc = "sending"

(* A live entry has the id of its connection, and no other has that id.     *)
Table ==
  /\ \A i \in Live : clients[i].id = conns[clients[i].conn].id
  /\ \A i, j \in Live : clients[i].id = clients[j].id => i = j

(* Some connection with the id is lost, so that its handler may unregister  *)
(* it.                                                                      *)
Lost(id) == \E c \in DOMAIN conns : conns[c].id = id /\ ~conns[c].up

Pending ==
  /\ \A d \in direct : conns[d.conn].id = d.id
  /\ \A t \in Tasks : \A id \in task[t].gone : Lost(id)
  /\ \A t \in Tasks : Sending(t) =>
       /\ task[t].event \in 1 .. queued
       /\ task[t].index \in DOMAIN clients
       /\ task[t].conn \in DOMAIN conns
       /\ clients[task[t].index].id = conns[task[t].conn].id

(* The queue holds, in order, what no task has taken; two tasks never have  *)
(* the same event.                                                          *)
Order ==
  /\ \A i, j \in DOMAIN queue : i < j => queue[i] < queue[j]
  /\ \A c \in DOMAIN conns : \A k \in DOMAIN conns[c].got : \A i \in DOMAIN queue :
       conns[c].got[k].event < queue[i]
  /\ \A t \in Tasks : Sending(t) => \A i \in DOMAIN queue : task[t].event < queue[i]
  /\ \A t, u \in Tasks : Sending(t) /\ Sending(u) /\ t # u => task[t].event # task[u].event

(* How far the broadcast of event e by task t has come along the table:     *)
(* entries beyond the position have not got the event, those before it      *)
(* have, if they were there at the start and are open.                      *)
Progress(t, e, index, present) ==
  /\ \A i \in Live : i > index => ~Has(clients[i].conn, e)
  /\ \A i \in Live :
       i <= index /\ clients[i].conn \in present /\ conns[clients[i].conn].up
         => Has(clients[i].conn, e)
  /\ \A c \in DOMAIN conns : \A k \in DOMAIN conns[c].got :
       conns[c].got[k].task = t => conns[c].got[k].event <= e

Sweeps ==
  \A t \in Tasks : Sending(t) =>
    Progress(t, task[t].event, task[t].index, task[t].present)

(* A connection that is up, whose id no other one has, is registered.       *)
Alone(c) == \A d \in DOMAIN conns \ {c} : conns[d].id # conns[c].id
Reachable ==
  \A c \in DOMAIN conns :
    conns[c].handler # "over" /\ conns[c].up /\ Alone(c) => c \in Registered

BroadcastInv ==
  /\ BroadcastTypeOK
  /\ Table
  /\ Pending
  /\ Order
  /\ Sweeps
  /\ Reachable
  /\ DeliveredInOrder
-----------------------------------------------------------------------------
LEMMA Minimum ==
  ASSUME NEW T, T \subseteq Nat, T # {}
  PROVE  \E x \in T : \A y \in T : x <= y
<1>1. PICK x \in T : \A y \in T : ~(<<y, x>> \in OpToRel(<, Nat))
  BY WFMin, NatLessThanWellFounded, Zenon
<1>2. \A y \in T : ~(y < x)
  BY <1>1 DEF OpToRel
<1> QED BY <1>2

LEMMA Tabulated ==
  ASSUME NEW S, NEW n \in Nat, NEW f \in [1 .. n -> S]
  PROVE  f \in Seq(S) /\ Len(f) = n
<1>1. f \in Seq(S)
  BY SeqDef, Zenon
<1>2. Len(f) \in Nat /\ DOMAIN f = 1 .. Len(f)
  BY <1>1
<1> QED BY <1>1, <1>2

(* What the types say of positions.                                         *)
LEMMA Typing ==
  ASSUME BroadcastTypeOK
  PROVE  /\ Len(clients) \in Nat /\ DOMAIN clients = 1 .. Len(clients)
         /\ Len(conns) \in Nat /\ DOMAIN conns = 1 .. Len(conns)
         /\ Len(queue) \in Nat /\ DOMAIN queue = 1 .. Len(queue)
         /\ \A i \in DOMAIN clients : clients[i] \in ClientType
         /\ \A c \in DOMAIN conns : conns[c] \in ConnType
         /\ \A i \in DOMAIN queue : queue[i] \in 1 .. queued
         /\ queued \in Nat
         /\ \A t \in Tasks : task[t] \in TaskType
         /\ task = [t \in Tasks |-> task[t]]
<1>1. clients \in Seq(ClientType) /\ conns \in Seq(ConnType) /\ queue \in Seq(1 .. queued)
  BY DEF BroadcastTypeOK
<1>2. queued \in 0 .. MaxEvents /\ task \in [Tasks -> TaskType]
  BY DEF BroadcastTypeOK
<1>3. queued \in Nat
  BY <1>2, BroadcastAssumption
<1> QED BY <1>1, <1>2, <1>3

LEMMA LiveTyping ==
  ASSUME BroadcastTypeOK
  PROVE  /\ Live \subseteq DOMAIN clients
         /\ \A i \in Live : clients[i].conn \in DOMAIN conns /\ clients[i].id \in ClientIds
         /\ Registered \subseteq DOMAIN conns
         /\ Cardinality(Live) \in Nat
<1>1. Live \subseteq DOMAIN clients
  BY DEF Live
<1>2. ASSUME NEW i \in Live PROVE clients[i].conn \in DOMAIN conns /\ clients[i].id \in ClientIds
  <2>1. clients[i] \in ClientType /\ clients[i].conn # 0
    BY Typing DEF Live
  <2>2. clients[i].conn \in 0 .. Len(conns) /\ clients[i].id \in ClientIds
    BY <2>1 DEF ClientType
  <2> QED BY <2>1, <2>2, Typing
<1>3. Cardinality(Live) \in Nat
  <2>1. IsFiniteSet(1 .. Len(clients))
    <3>1. 1 \in Int /\ Len(clients) \in Int
      BY Typing
    <3> QED BY <3>1, FS_Interval
  <2>2. IsFiniteSet(Live)
    BY <1>1, <2>1, Typing, FS_Subset
  <2> QED BY <2>2, FS_CardinalityType
<1> QED BY <1>1, <1>2, <1>3 DEF Registered

LEMMA GotTyping ==
  ASSUME BroadcastTypeOK, NEW c \in DOMAIN conns
  PROVE  /\ Len(conns[c].got) \in Nat
         /\ DOMAIN conns[c].got = 1 .. Len(conns[c].got)
         /\ \A k \in DOMAIN conns[c].got :
              conns[c].got[k].event \in 1 .. queued /\ conns[c].got[k].task \in Tasks
         /\ conns[c].got \in Seq([event : 1 .. queued, task : Tasks])
         /\ conns[c].id \in ClientIds /\ conns[c].up \in BOOLEAN
<1> DEFINE Deliveries == [event : 1 .. queued, task : Tasks]
<1>1. conns[c] \in ConnType
  BY Typing
<1>2. conns[c].got \in Seq(Deliveries) /\ conns[c].id \in ClientIds /\ conns[c].up \in BOOLEAN
  BY <1>1 DEF ConnType
<1>3. \A k \in DOMAIN conns[c].got : conns[c].got[k] \in Deliveries
  <2> HIDE DEF Deliveries
  <2> QED BY <1>2
<1> QED BY <1>2, <1>3
-----------------------------------------------------------------------------
(* The effect of a deletion from the table, and of an assignment to it:     *)
(* entry k now is the connection's, and the others are what they were.      *)
LEMMA WithoutEffect ==
  ASSUME BroadcastTypeOK, NEW ids
  PROVE  /\ Without(ids) \in Seq(ClientType)
         /\ Len(Without(ids)) = Len(clients)
         /\ \A i \in DOMAIN clients :
              /\ Without(ids)[i].id = clients[i].id
              /\ Without(ids)[i].conn = IF clients[i].id \in ids THEN 0 ELSE clients[i].conn
<1>1. ASSUME NEW i \in DOMAIN clients
      PROVE  /\ Without(ids)[i] \in ClientType
             /\ Without(ids)[i].id = clients[i].id
             /\ Without(ids)[i].conn = IF clients[i].id \in ids THEN 0 ELSE clients[i].conn
  <2>1. clients[i] \in ClientType /\ 0 \in 0 .. Len(conns)
    BY Typing
  <2> QED BY <2>1 DEF Without, ClientType
<1>2. Without(ids) \in [1 .. Len(clients) -> ClientType]
  BY <1>1, Typing DEF Without
<1> QED BY <1>1, <1>2, Typing, Tabulated

Assigned(w, id, c) ==
  \E k \in DOMAIN w :
    /\ DOMAIN w = DOMAIN clients \cup {k}
    /\ w[k] = [id |-> id, conn |-> c]
    /\ \A i \in DOMAIN clients : i # k => w[i] = clients[i]
    /\ \/ k \in Live /\ clients[k].id = id
       \/ k = Len(clients) + 1 /\ \A i \in Live : clients[i].id # id

LEMMA WithEffect ==
  ASSUME BroadcastTypeOK, Table, NEW id \in ClientIds, NEW c
  PROVE  /\ Assigned(With(id, c), id, c)
         /\ Len(With(id, c)) \in Len(clients) .. Len(clients) + 1
         /\ With(id, c) = [i \in 1 .. Len(With(id, c)) |-> With(id, c)[i]]
<1> DEFINE w == With(id, c)
<1>1. CASE \E i \in Live : clients[i].id = id
  <2>1. PICK k \in Live : clients[k].id = id
    BY <1>1
  <2>2. w = [i \in DOMAIN clients |->
               IF i \in Live /\ clients[i].id = id
                 THEN [clients[i] EXCEPT !.conn = c] ELSE clients[i]]
    BY <1>1 DEF With
  <2>3. k \in DOMAIN clients /\ clients[k] \in ClientType
    BY <2>1, LiveTyping, Typing
  <2>4. w[k] = [id |-> id, conn |-> c]
    BY <2>1, <2>2, <2>3 DEF ClientType
  <2>5. \A i \in DOMAIN clients : i # k => w[i] = clients[i]
    BY <2>1, <2>2 DEF Table
  <2>6. DOMAIN w = DOMAIN clients
    BY <2>2
  <2> HIDE DEF w
  <2>7. w \in [1 .. Len(clients) -> {w[i] : i \in DOMAIN w}]
    BY <2>2, <2>6, Typing
  <2>8. Len(w) = Len(clients)
    BY <2>7, Typing, Tabulated
  <2>9. Assigned(w, id, c)
    BY <2>1, <2>3, <2>4, <2>5, <2>6 DEF Assigned
  <2> QED BY <2>7, <2>8, <2>9, Typing DEF w
<1>2. CASE ~\E i \in Live : clients[i].id = id
  <2>1. w = Append(clients, [id |-> id, conn |-> c])
    BY <1>2 DEF With
  <2>2. /\ Len(w) = Len(clients) + 1
        /\ DOMAIN w = 1 .. Len(clients) + 1
        /\ \A i \in DOMAIN clients : w[i] = clients[i]
        /\ w[Len(clients) + 1] = [id |-> id, conn |-> c]
        /\ w = [i \in 1 .. Len(w) |-> w[i]]
    BY <2>1, Typing DEF BroadcastTypeOK
  <2> HIDE DEF w
  <2>3. DOMAIN w = DOMAIN clients \cup {Len(clients) + 1}
    BY <2>2, Typing
  <2>4. Assigned(w, id, c)
    BY <1>2, <2>2, <2>3, Typing DEF Assigned
  <2> QED BY <2>2, <2>4, Typing DEF w
<1> QED BY <1>1, <1>2

(* Types only grow.                                                         *)
LEMMA TypesGrow ==
  ASSUME BroadcastTypeOK,
         Len(conns') \in Nat, Len(conns') >= Len(conns), DOMAIN conns' = 1 .. Len(conns'),
         Len(clients') \in Nat, Len(clients') >= Len(clients),
         queued' \in Nat, queued' >= queued
  PROVE  /\ ClientType \subseteq ClientType'
         /\ ConnType \subseteq ConnType'
         /\ TaskType \subseteq TaskType'
         /\ [id : ClientIds, conn : DOMAIN conns] \subseteq [id : ClientIds, conn : DOMAIN conns']
         /\ 1 .. queued \subseteq 1 .. queued'
<1>1. /\ 0 .. Len(conns) \subseteq 0 .. Len(conns') /\ DOMAIN conns \subseteq DOMAIN conns'
      /\ 0 .. Len(clients) \subseteq 0 .. Len(clients')
      /\ 0 .. queued \subseteq 0 .. queued' /\ 1 .. queued \subseteq 1 .. queued'
  BY Typing
<1>2. ClientType \subseteq ClientType'
  BY <1>1 DEF ClientType
<1>3. ConnType \subseteq ConnType'
  <2>1. [event : 1 .. queued, task : Tasks] \subseteq [event : 1 .. queued', task : Tasks]
    BY <1>1
  <2>2. Seq([event : 1 .. queued, task : Tasks]) \subseteq Seq([event : 1 .. queued', task : Tasks])
    BY <2>1, SeqMonotonic, Zenon
  <2> QED BY <2>2 DEF ConnType
<1>4. TaskType \subseteq TaskType'
  BY <1>1 DEF TaskType
<1> QED BY <1>1, <1>2, <1>3, <1>4
-----------------------------------------------------------------------------
(* The steps other than those of a new connection and of a new event: what  *)
(* handlers and send_to_client do, and a turn of a broadcast.               *)
ConnsSettle ==
  /\ conns' \in Seq(ConnType)
  /\ Len(conns') = Len(conns)
  /\ \A c \in DOMAIN conns :
       /\ conns'[c].id = conns[c].id
       /\ conns'[c].got = conns[c].got
       /\ conns'[c].up => conns[c].up
       /\ conns'[c].handler # "over" => conns[c].handler # "over"

Unregisters ==
  \/ clients' = clients
  \/ \E ids : clients' = Without(ids) /\ \A id \in ids : Lost(id)

Quiet ==
  /\ running' \in BOOLEAN
  /\ serving' \in BOOLEAN
  /\ ConnsSettle
  /\ Unregisters
  /\ direct' \subseteq [id : ClientIds, conn : DOMAIN conns]
  /\ \A d \in direct' : conns[d.conn].id = d.id
  /\ UNCHANGED <<queued, queue, task>>

Ready(t, tk) ==
  /\ tk \in TaskType
  /\ tk.event \in 1 .. queued
  /\ \A id \in tk.gone : Lost(id)
  /\ Progress(t, tk.event, tk.index, tk.present)
  /\ \A i \in DOMAIN queue' : tk.event < queue'[i]
  /\ \A u \in Tasks \ {t} : Sending(u) => task[u].event # tk.event

Broadcasting(t, tk) ==
  /\ Ready(t, tk)
  /\ Advance(t, tk)
  /\ \/ queue' = queue
     \/ queue # <<>> /\ queue' = Tail(queue)
  /\ UNCHANGED <<running, serving, queued, direct>>

LEMMA HandlerSteps ==
  ASSUME BroadcastTypeOK, NEW c \in DOMAIN conns,
         \/ conns' = [conns EXCEPT ![c].handler = "listening"] /\ conns[c].handler # "over"
         \/ conns' = [conns EXCEPT ![c].handler = "over"]
         \/ conns' = [conns EXCEPT ![c].up = FALSE]
  PROVE  ConnsSettle
<1>1. conns[c] \in ConnType /\ conns \in Seq(ConnType)
  BY Typing DEF BroadcastTypeOK
<1>2. ASSUME NEW d \in ConnType, conns' = [conns EXCEPT ![c] = d]
      PROVE  /\ conns' \in Seq(ConnType)
             /\ Len(conns') = Len(conns)
             /\ conns'[c] = d
             /\ \A e \in DOMAIN conns : e # c => conns'[e] = conns[e]
  BY <1>1, <1>2, ExceptSeq
<1>3. CASE conns' = [conns EXCEPT ![c].handler = "listening"] /\ conns[c].handler # "over"
  <2>1. [conns[c] EXCEPT !.handler = "listening"] \in ConnType
    BY <1>1 DEF ConnType
  <2>2. conns' = [conns EXCEPT ![c] = [conns[c] EXCEPT !.handler = "listening"]]
    BY <1>3
  <2>3. /\ conns'[c].id = conns[c].id /\ conns'[c].got = conns[c].got
        /\ conns'[c].up = conns[c].up /\ conns[c].handler # "over"
    BY <1>1, <1>2, <1>3, <2>1, <2>2 DEF ConnType
  <2> QED BY <1>2, <2>1, <2>2, <2>3 DEF ConnsSettle
<1>4. CASE conns' = [conns EXCEPT ![c].handler = "over"]
  <2>1. [conns[c] EXCEPT !.handler = "over"] \in ConnType
    BY <1>1 DEF ConnType
  <2>2. conns' = [conns EXCEPT ![c] = [conns[c] EXCEPT !.handler = "over"]]
    BY <1>4
  <2>3. /\ conns'[c].id = conns[c].id /\ conns'[c].got = conns[c].got
        /\ conns'[c].up = conns[c].up /\ conns'[c].handler = "over"
    BY <1>1, <1>2, <2>1, <2>2 DEF ConnType
  <2> QED BY <1>2, <2>1, <2>2, <2>3 DEF ConnsSettle
<1>5. CASE conns' = [conns EXCEPT ![c].up = FALSE]
  <2>1. [conns[c] EXCEPT !.up = FALSE] \in ConnType
    BY <1>1 DEF ConnType
  <2>2. conns' = [conns EXCEPT ![c] = [conns[c] EXCEPT !.up = FALSE]]
    BY <1>5
  <2>3. /\ conns'[c].id = conns[c].id /\ conns'[c].got = conns[c].got
        /\ ~conns'[c].up /\ conns'[c].handler = conns[c].handler
    BY <1>1, <1>2, <2>1, <2>2 DEF ConnType
  <2> QED BY <1>2, <2>1, <2>2, <2>3 DEF ConnsSettle
<1> QED BY <1>3, <1>4, <1>5

LEMMA ConnsUnchanged == BroadcastTypeOK /\ UNCHANGED conns => ConnsSettle
BY DEF BroadcastTypeOK, ConnsSettle

LEMMA QuietSteps ==
  ASSUME BroadcastTypeOK, Table, Pending,
         \/ \E c \in DOMAIN conns : Welcomed(c) \/ WelcomeFails(c) \/ Drop(c) \/ Leave(c)
         \/ \E i \in DOMAIN clients : SendToClient(i)
         \/ \E d \in direct : SentToClient(d)
         \/ StopServer
         \/ CloseServer
  PROVE  Quiet
<1>t. /\ running \in BOOLEAN /\ serving \in BOOLEAN
      /\ direct \subseteq [id : ClientIds, conn : DOMAIN conns]
      /\ \A d \in direct : conns[d.conn].id = d.id
  BY DEF BroadcastTypeOK, Pending
<1>1. ASSUME NEW c \in DOMAIN conns, Welcomed(c) \/ WelcomeFails(c) \/ Drop(c) PROVE Quiet
  <2>1. ConnsSettle
    BY <1>1, HandlerSteps DEF Welcomed, WelcomeFails, Drop
  <2> QED BY <1>1, <1>t, <2>1 DEF Welcomed, WelcomeFails, Drop, Quiet, Unregisters
<1>2. ASSUME NEW c \in DOMAIN conns, Leave(c) PROVE Quiet
  <2>1. ConnsSettle
    BY <1>2, HandlerSteps DEF Leave
  <2>2. Lost(conns[c].id)
    BY <1>2 DEF Leave, Lost
  <2> QED BY <1>2, <1>t, <2>1, <2>2 DEF Leave, Quiet, Unregisters
<1>3. ASSUME NEW i \in DOMAIN clients, SendToClient(i) PROVE Quiet
  <2>1. clients[i].id \in ClientIds /\ clients[i].conn \in DOMAIN conns
        /\ conns[clients[i].conn].id = clients[i].id
    BY <1>3, LiveTyping DEF SendToClient, Table
  <2>2. clients[i] \in [id : ClientIds, conn : DOMAIN conns]
    BY <1>3, <2>1, Typing DEF ClientType
  <2> QED BY <1>3, <1>t, <2>1, <2>2, ConnsUnchanged DEF SendToClient, Quiet, Unregisters
<1>4. ASSUME NEW d \in direct, SentToClient(d) PROVE Quiet
  <2>1. ~conns[d.conn].up => Lost(d.id)
    BY <1>t DEF Lost
  <2>2. Unregisters
    BY <1>4, <2>1 DEF SentToClient, Unregisters
  <2> QED BY <1>4, <1>t, <2>2, ConnsUnchanged DEF SentToClient, Quiet
<1>5. CASE StopServer
  BY <1>5, <1>t, ConnsUnchanged DEF StopServer, Quiet, Unregisters
<1>6. CASE CloseServer
  <2>1. conns' = [c \in DOMAIN conns |-> [conns[c] EXCEPT !.up = FALSE]]
    BY <1>6 DEF CloseServer
  <2>2. ASSUME NEW c \in DOMAIN conns
        PROVE  /\ conns'[c] \in ConnType
               /\ conns'[c].id = conns[c].id /\ conns'[c].got = conns[c].got
               /\ ~conns'[c].up /\ conns'[c].handler = conns[c].handler
    <3>1. conns[c] \in ConnType
      BY Typing
    <3> QED BY <2>1, <3>1 DEF ConnType
  <2>3. conns' \in [1 .. Len(conns) -> ConnType]
    BY <2>1, <2>2, Typing
  <2>4. ConnsSettle
    BY <2>2, <2>3, Typing, Tabulated DEF ConnsSettle
  <2> QED BY <1>6, <1>t, <2>4 DEF CloseServer, Quiet, Unregisters
<1> QED BY <1>1, <1>2, <1>3, <1>4, <1>5, <1>6

LEMMA SentSteps ==
  ASSUME BroadcastTypeOK, Pending, Order, Sweeps, NEW t \in Tasks, Sent(t)
  PROVE  \E tk \in TaskType : Broadcasting(t, tk)
<1> DEFINE tk == task[t]
           failed == [tk EXCEPT !.gone = @ \cup {clients[tk.index].id}]
<1>1. Sending(t) /\ queue' = queue /\ UNCHANGED <<running, serving, queued, direct>>
  BY DEF Sent, Sending
<1>2. tk \in TaskType /\ \A id \in tk.gone : Lost(id)
  BY Typing DEF Pending
<1>3. /\ Progress(t, tk.event, tk.index, tk.present)
      /\ \A i \in DOMAIN queue' : tk.event < queue'[i]
      /\ \A u \in Tasks \ {t} : Sending(u) => task[u].event # tk.event
  BY <1>1 DEF Order, Sweeps
<1>4. tk.event \in 1 .. queued /\ clients[tk.index].id \in ClientIds
      /\ tk.conn \in DOMAIN conns /\ conns[tk.conn].id = clients[tk.index].id
  BY <1>1, Typing DEF Pending, ClientType
<1>5. CASE Advance(t, tk)
  BY <1>1, <1>2, <1>3, <1>4, <1>5 DEF Broadcasting, Ready
<1>6. CASE ~conns[tk.conn].up /\ Advance(t, failed)
  <2>1. Lost(clients[tk.index].id)
    BY <1>4, <1>6 DEF Lost
  <2>2. /\ failed \in TaskType /\ \A id \in failed.gone : Lost(id)
        /\ failed.event = tk.event /\ failed.index = tk.index /\ failed.present = tk.present
    BY <1>2, <1>4, <2>1 DEF TaskType
  <2>3. Ready(t, failed)
    BY <1>3, <1>4, <2>2 DEF Ready
  <2> QED BY <1>1, <1>6, <2>2, <2>3 DEF Broadcasting
<1> QED BY <1>5, <1>6 DEF Sent

LEMMA ProcessSteps ==
  ASSUME BroadcastTypeOK, Order, NEW t \in Tasks, Process(t)
  PROVE  \E tk \in TaskType : Broadcasting(t, tk)
<1> DEFINE e == Head(queue)
           tk == [Idle EXCEPT !.event = e, !.size = Cardinality(Live), !.present = Registered]
<1>1. queue # <<>> /\ queue' = Tail(queue) /\ Advance(t, tk)
      /\ UNCHANGED <<running, serving, queued, direct>>
  BY DEF Process
<1>2. /\ e = queue[1] /\ 1 \in DOMAIN queue /\ e \in 1 .. queued
      /\ \A i \in DOMAIN queue' : i + 1 \in DOMAIN queue /\ queue'[i] = queue[i + 1] /\ 1 < i + 1
  <2>1. queue \in Seq(1 .. queued)
    BY DEF BroadcastTypeOK
  <2>2. /\ e = queue[1] /\ 1 \in DOMAIN queue /\ e \in 1 .. queued
    <3>1. Len(queue) # 0
      BY <1>1, <2>1, EmptySeq
    <3>2. e = queue[1] /\ 1 \in DOMAIN queue
      BY <2>1, <3>1, Typing
    <3> QED BY <3>2, Typing
  <2>3. Len(queue') = Len(queue) - 1 /\ DOMAIN queue' = 1 .. Len(queue')
        /\ \A i \in DOMAIN queue' : queue'[i] = queue[i + 1]
    BY <1>1, <2>1
  <2> QED BY <2>2, <2>3, Typing
<1>3. tk \in TaskType /\ tk.event = e /\ tk.gone = {} /\ tk.index = 0
  <2>1. /\ 0 \in 0 .. Len(clients) /\ 0 \in 0 .. Len(conns)
        /\ e \in 0 .. queued /\ Registered \in SUBSET DOMAIN conns /\ Cardinality(Live) \in Nat
    BY <1>2, Typing, LiveTyping
  <2> HIDE DEF e
  <2> QED BY <2>1 DEF TaskType, Idle
<1>4. \A c \in DOMAIN conns : \A k \in DOMAIN conns[c].got : conns[c].got[k].event < e
  BY <1>2 DEF Order
<1>5. \A c \in DOMAIN conns : ~Has(c, e)
  <2>1. \A c \in DOMAIN conns : \A k \in DOMAIN conns[c].got :
          conns[c].got[k].event < e /\ conns[c].got[k].event \in Nat
    BY <1>4, GotTyping
  <2>2. e \in Nat
    BY <1>2
  <2> HIDE DEF e
  <2> QED BY <2>1, <2>2 DEF Has
<1>6. Progress(t, e, 0, Registered)
  <2>1. \A i \in Live : ~(i <= 0)
    BY LiveTyping, Typing
  <2>2. \A c \in DOMAIN conns : \A k \in DOMAIN conns[c].got : conns[c].got[k].event <= e
    <3>1. e \in Nat /\ \A c \in DOMAIN conns : \A k \in DOMAIN conns[c].got :
             conns[c].got[k].event \in Nat
      BY <1>2, GotTyping
    <3> HIDE DEF e
    <3> QED BY <1>4, <3>1
  <2> QED BY <1>5, <2>1, <2>2, LiveTyping DEF Progress
<1>7. \A i \in DOMAIN queue' : e < queue'[i]
  BY <1>2 DEF Order
<1>8. \A u \in Tasks \ {t} : Sending(u) => task[u].event # e
  <2>1. \A u \in Tasks : Sending(u) => task[u].event < e /\ task[u].event \in Nat
    BY <1>2, Typing DEF Order, TaskType
  <2>2. e \in Nat
    BY <1>2
  <2> HIDE DEF e
  <2> QED BY <2>1, <2>2
<1>9. tk.present = Registered
  BY DEF Idle
<1>10. Ready(t, tk)
  <2> HIDE DEF tk, e
  <2> QED BY <1>2, <1>3, <1>6, <1>7, <1>8, <1>9 DEF Ready
<1> QED BY <1>1, <1>3, <1>10 DEF Broadcasting

(* Every step is of one of four kinds.                                      *)
LEMMA Steps ==
  ASSUME BroadcastInv, BroadcastNext
  PROVE  \/ \E id \in ClientIds : Connect(id)
         \/ QueueEvent
         \/ Quiet
         \/ \E t \in Tasks, tk \in TaskType : Broadcasting(t, tk)
<1>1. CASE \E t \in Tasks : Process(t) \/ Sent(t)
  BY <1>1, ProcessSteps, SentSteps DEF BroadcastInv
<1>2. CASE \/ \E c \in DOMAIN conns : Welcomed(c) \/ WelcomeFails(c) \/ Drop(c) \/ Leave(c)
           \/ \E i \in DOMAIN clients : SendToClient(i)
           \/ \E d \in direct : SentToClient(d)
           \/ StopServer
           \/ CloseServer
  BY <1>2, QuietSteps DEF BroadcastInv
<1> QED BY <1>1, <1>2 DEF BroadcastNext
-----------------------------------------------------------------------------
(* A broadcast ends, normally or not, or it delivers to the next entry: in  *)
(* the first case the step is like those of handlers.                       *)
TasksEnd ==
  \A t \in Tasks : task'[t] = task[t] \/ (task'[t].pc # "sending" /\ task'[t].gone = {})

Settling ==
  /\ running' \in BOOLEAN
  /\ serving' \in BOOLEAN
  /\ ConnsSettle
  /\ Unregisters
  /\ direct' \subseteq [id : ClientIds, conn : DOMAIN conns]
  /\ \A d \in direct' : conns[d.conn].id = d.id
  /\ queued' = queued
  /\ \/ queue' = queue
     \/ queue # <<>> /\ queue' = Tail(queue)
  /\ task' \in [Tasks -> TaskType]
  /\ TasksEnd

Delivery(t, e) == [event |-> e, task |-> t]

Delivering(t, tk, i) ==
  /\ Ready(t, tk)
  /\ i \in Live
  /\ i > tk.index
  /\ \A j \in Live : j > tk.index => i <= j
  /\ task' = [task EXCEPT ![t] =
                [tk EXCEPT !.pc = "sending", !.index = i, !.conn = clients[i].conn]]
  /\ LET c == clients[i].conn
     IN  conns' = IF conns[c].up
                    THEN [conns EXCEPT ![c].got = Append(@, Delivery(t, tk.event))]
                    ELSE conns
  /\ \/ queue' = queue
     \/ queue # <<>> /\ queue' = Tail(queue)
  /\ UNCHANGED <<running, serving, clients, queued, direct>>

LEMMA TaskEnds ==
  ASSUME NEW S, NEW f \in [Tasks -> S], NEW t \in Tasks, NEW r \in S,
         r.pc # "sending", r.gone = {}, NEW g, g = [f EXCEPT ![t] = r]
  PROVE  /\ g \in [Tasks -> S]
         /\ \A u \in Tasks : g[u] = f[u] \/ (g[u].pc # "sending" /\ g[u].gone = {})
<1>1. g \in [Tasks -> S]
  OBVIOUS
<1>2. ASSUME NEW u \in Tasks PROVE g[u] = f[u] \/ (g[u].pc # "sending" /\ g[u].gone = {})
  <2>1. CASE u = t
    BY <2>1
  <2>2. CASE u # t
    BY <2>2
  <2> QED BY <2>1, <2>2
<1> QED BY <1>1, <1>2

LEMMA QuietSettles == BroadcastTypeOK /\ Quiet => Settling
<1> SUFFICES ASSUME BroadcastTypeOK, Quiet PROVE Settling
  OBVIOUS
<1>1. task \in [Tasks -> TaskType] /\ task' = task
  BY DEF BroadcastTypeOK, Quiet
<1>2. task' \in [Tasks -> TaskType] /\ TasksEnd
  BY <1>1 DEF TasksEnd
<1> QED BY <1>2 DEF Quiet, Settling

LEMMA IdleTypes ==
  ASSUME BroadcastTypeOK, NEW pc \in {"idle", "dead"}
  PROVE  /\ [Idle EXCEPT !.pc = pc] \in TaskType
         /\ [Idle EXCEPT !.pc = pc].pc = pc
         /\ [Idle EXCEPT !.pc = pc].gone = {}
<1>1. 0 \in 0 .. Len(clients) /\ 0 \in 0 .. Len(conns) /\ 0 \in 0 .. queued
  BY Typing
<1> QED BY <1>1 DEF Idle, TaskType

LEMMA BroadcastSteps ==
  ASSUME BroadcastTypeOK, Pending, NEW t \in Tasks, NEW tk \in TaskType, Broadcasting(t, tk)
  PROVE  Settling \/ \E i \in Live : Delivering(t, tk, i)
<1> DEFINE ahead == {i \in Live : i > tk.index}
           next == CHOOSE j \in ahead : \A k \in ahead : j <= k
<1>t. /\ running \in BOOLEAN /\ serving \in BOOLEAN
      /\ direct \subseteq [id : ClientIds, conn : DOMAIN conns]
      /\ \A d \in direct : conns[d.conn].id = d.id
      /\ task \in [Tasks -> TaskType]
      /\ UNCHANGED <<running, serving, queued, direct>>
      /\ (queue' = queue) \/ (queue # <<>> /\ queue' = Tail(queue))
  BY DEF BroadcastTypeOK, Pending, Broadcasting
<1>1. CASE /\ task' = [task EXCEPT ![t] = [Idle EXCEPT !.pc = "dead"]]
           /\ UNCHANGED <<clients, conns>>
  <2>1. /\ task' \in [Tasks -> TaskType]
        /\ TasksEnd
    BY <1>t, <1>1, IdleTypes, TaskEnds DEF TasksEnd
  <2> QED BY <1>t, <1>1, <2>1, ConnsUnchanged DEF Settling, Unregisters
<1>2. CASE /\ clients' = Without(tk.gone)
           /\ task' = [task EXCEPT ![t] = Idle]
           /\ UNCHANGED conns
  <2>1. Idle = [Idle EXCEPT !.pc = "idle"]
    BY DEF Idle
  <2>2. Idle \in TaskType /\ Idle.pc = "idle" /\ Idle.gone = {}
    BY <2>1, IdleTypes
  <2>3. /\ task' \in [Tasks -> TaskType]
        /\ TasksEnd
    BY <1>t, <1>2, <2>2, TaskEnds DEF TasksEnd
  <2>4. Unregisters
    BY <1>2 DEF Unregisters, Broadcasting, Ready
  <2> QED BY <1>t, <1>2, <2>3, <2>4, ConnsUnchanged DEF Settling
<1>3. CASE /\ ahead # {}
           /\ task' = [task EXCEPT ![t] =
                         [tk EXCEPT !.pc = "sending", !.index = next, !.conn = clients[next].conn]]
           /\ conns' = IF conns[clients[next].conn].up
                         THEN [conns EXCEPT ![clients[next].conn].got =
                                 Append(@, [event |-> tk.event, task |-> t])]
                         ELSE conns
           /\ UNCHANGED clients
  <2>1. next \in ahead /\ \A k \in ahead : next <= k
    <3>1. ahead \subseteq Nat
      BY LiveTyping, Typing
    <3>2. \E j \in ahead : \A k \in ahead : j <= k
      BY <1>3, <3>1, Minimum
    <3> QED BY <3>2
  <2> HIDE DEF next
  <2>2. Delivering(t, tk, next)
    BY <1>t, <1>3, <2>1 DEF Delivering, Delivery, Broadcasting
  <2> QED BY <2>1, <2>2
<1> QED BY <1>1, <1>2, <1>3 DEF Broadcasting, Advance

LEMMA Kinds ==
  ASSUME BroadcastInv, BroadcastNext
  PROVE  \/ \E id \in ClientIds : Connect(id)
         \/ QueueEvent
         \/ Settling
         \/ \E t \in Tasks, tk \in TaskType : \E i \in Live : Delivering(t, tk, i)
BY Steps, QuietSettles, BroadcastSteps DEF BroadcastInv
-----------------------------------------------------------------------------
(* What each kind of step does to table, connections and queue.             *)
LEMMA SettlingEffect ==
  ASSUME BroadcastTypeOK, Settling
  PROVE  /\ clients' \in Seq(ClientType) /\ conns' \in Seq(ConnType)
         /\ Len(clients') = Len(clients) /\ DOMAIN clients' = DOMAIN clients
         /\ DOMAIN conns' = DOMAIN conns
         /\ \A i \in DOMAIN clients : clients'[i].id = clients[i].id
         /\ Live' \subseteq Live
         /\ \A i \in Live' : clients'[i].conn = clients[i].conn
         /\ \A i \in Live \ Live' : Lost(clients[i].id)
         /\ \A c \in DOMAIN conns : \A e : Has(c, e)' <=> Has(c, e)
         /\ \A id : Lost(id) => Lost(id)'
<1>1. /\ clients' \in Seq(ClientType) /\ Len(clients') = Len(clients)
      /\ \A i \in DOMAIN clients :
           /\ clients'[i].id = clients[i].id
           /\ clients'[i].conn \in {0, clients[i].conn}
           /\ clients'[i].conn # clients[i].conn => Lost(clients[i].id)
  <2>1. CASE clients' = clients
    BY <2>1 DEF BroadcastTypeOK
  <2>2. ASSUME NEW ids, clients' = Without(ids), \A id \in ids : Lost(id)
        PROVE  /\ clients' \in Seq(ClientType) /\ Len(clients') = Len(clients)
               /\ \A i \in DOMAIN clients :
                    /\ clients'[i].id = clients[i].id
                    /\ clients'[i].conn \in {0, clients[i].conn}
                    /\ clients'[i].conn # clients[i].conn => Lost(clients[i].id)
    BY <2>2, WithoutEffect
  <2> QED BY <2>1, <2>2 DEF Settling, Unregisters
<1>2. DOMAIN clients' = DOMAIN clients
  BY <1>1, Typing
<1>3. /\ conns' \in Seq(ConnType) /\ Len(conns') = Len(conns)
      /\ \A c \in DOMAIN conns :
           /\ conns'[c].id = conns[c].id
           /\ conns'[c].got = conns[c].got
           /\ conns'[c].up => conns[c].up
  BY DEF Settling, ConnsSettle
<1>4. DOMAIN conns' = DOMAIN conns
  BY <1>3, Typing
<1>5. /\ Live' \subseteq Live
      /\ \A i \in Live' : clients'[i].conn = clients[i].conn
      /\ \A i \in Live \ Live' : Lost(clients[i].id)
  BY <1>1, <1>2 DEF Live
<1>6. /\ \A c \in DOMAIN conns : \A e : Has(c, e)' <=> Has(c, e)
      /\ \A id : Lost(id) => Lost(id)'
  BY <1>3, <1>4 DEF Has, Lost
<1> QED BY <1>1, <1>2, <1>3, <1>4, <1>5, <1>6

LEMMA QueueShrinks ==
  ASSUME BroadcastTypeOK,
         \/ queue' = queue
         \/ queue # <<>> /\ queue' = Tail(queue)
  PROVE  /\ queue' \in Seq(1 .. queued)
         /\ \E d \in {0, 1} : /\ \A i \in DOMAIN queue' :
                                 i + d \in DOMAIN queue /\ queue'[i] = queue[i + d]
                            /\ DOMAIN queue' \subseteq Nat
<1>1. queue \in Seq(1 .. queued) /\ Len(queue) \in Nat /\ DOMAIN queue = 1 .. Len(queue)
  BY Typing DEF BroadcastTypeOK
<1>2. CASE queue' = queue
  BY <1>1, <1>2
<1>3. CASE queue # <<>> /\ queue' = Tail(queue)
  <2>1. queue' \in Seq(1 .. queued)
    BY <1>1, <1>3, HeadTailProperties
  <2>2. Len(queue') = Len(queue) - 1 /\ \A i \in 1 .. Len(queue') : queue'[i] = queue[i + 1]
    BY <1>1, <1>3, HeadTailProperties
  <2>3. DOMAIN queue' = 1 .. Len(queue')
    BY <2>1
  <2>4. \A i \in DOMAIN queue' : i + 1 \in DOMAIN queue /\ queue'[i] = queue[i + 1]
    BY <1>1, <2>2, <2>3
  <2> QED BY <2>1, <2>3, <2>4
<1> QED BY <1>2, <1>3

LEMMA ConnectEffect ==
  ASSUME BroadcastTypeOK, Table, NEW id \in ClientIds, Connect(id)
  PROVE  /\ DOMAIN conns' = DOMAIN conns \cup {Len(conns) + 1}
         /\ Len(conns') = Len(conns) + 1
         /\ \A c \in DOMAIN conns : conns'[c] = conns[c]
         /\ conns'[Len(conns) + 1] =
              [id |-> id, handler |-> "welcoming", up |-> TRUE, got |-> <<>>]
         /\ Len(clients') \in Len(clients) .. Len(clients) + 1
         /\ Assigned(clients', id, Len(conns) + 1)
         /\ clients' = [i \in 1 .. Len(clients') |-> clients'[i]]
         /\ UNCHANGED <<running, serving, queued, queue, task, direct>>
<1>1. clients' = With(id, Len(conns) + 1)
  BY DEF Connect
<1>2. conns \in Seq(ConnType)
  BY DEF BroadcastTypeOK
<1>3. conns' = Append(conns, [id |-> id, handler |-> "welcoming", up |-> TRUE, got |-> <<>>])
  BY DEF Connect
<1>4. /\ Len(conns') = Len(conns) + 1
      /\ DOMAIN conns' = 1 .. Len(conns) + 1
      /\ \A c \in DOMAIN conns : conns'[c] = conns[c]
      /\ conns'[Len(conns) + 1] =
           [id |-> id, handler |-> "welcoming", up |-> TRUE, got |-> <<>>]
  BY <1>2, <1>3
<1>5. DOMAIN conns' = DOMAIN conns \cup {Len(conns) + 1}
  BY <1>4, Typing
<1>6. /\ Assigned(clients', id, Len(conns) + 1)
      /\ Len(clients') \in Len(clients) .. Len(clients) + 1
      /\ clients' = [i \in 1 .. Len(clients') |-> clients'[i]]
  BY <1>1, WithEffect
<1> QED BY <1>4, <1>5, <1>6 DEF Connect

LEMMA DeliveringEffect ==
  ASSUME BroadcastTypeOK, NEW t \in Tasks, NEW tk \in TaskType, NEW i \in Live, Delivering(t, tk, i)
  PROVE  /\ conns' \in Seq(ConnType)
         /\ Len(conns') = Len(conns) /\ DOMAIN conns' = DOMAIN conns
         /\ \A c \in DOMAIN conns :
              /\ conns'[c].id = conns[c].id
              /\ conns'[c].up = conns[c].up
              /\ conns'[c].handler = conns[c].handler
              /\ \/ conns'[c].got = conns[c].got
                 \/ /\ c = clients[i].conn
                    /\ conns'[c].got = Append(conns[c].got, Delivery(t, tk.event))
         /\ conns[clients[i].conn].up => Has(clients[i].conn, tk.event)'
<1> DEFINE c == clients[i].conn
           d == [conns[c] EXCEPT !.got = Append(@, Delivery(t, tk.event))]
           Deliveries == [event : 1 .. queued, task : Tasks]
<1>1. c \in DOMAIN conns /\ conns[c] \in ConnType /\ conns[c].got \in Seq(Deliveries)
  BY LiveTyping, Typing, GotTyping
<1>2. Delivery(t, tk.event) \in Deliveries
  BY DEF Delivery, Delivering, Ready
<1>3. Append(conns[c].got, Delivery(t, tk.event)) \in Seq(Deliveries)
  <2> HIDE DEF c, Deliveries
  <2> QED BY <1>1, <1>2, AppendProperties
<1>4. d \in ConnType /\ d.id = conns[c].id /\ d.up = conns[c].up /\ d.handler = conns[c].handler
      /\ d.got = Append(conns[c].got, Delivery(t, tk.event))
  <2> HIDE DEF c
  <2> QED BY <1>1, <1>3 DEF ConnType
<1>5. conns \in Seq(ConnType)
  BY DEF BroadcastTypeOK
<1>6. CASE conns[c].up
  <2>1. conns' = [conns EXCEPT ![c] = d]
    BY <1>6 DEF Delivering
  <2> HIDE DEF c, d
  <2>2. /\ conns' \in Seq(ConnType) /\ Len(conns') = Len(conns)
        /\ \A j \in DOMAIN conns : conns'[j] = IF j = c THEN d ELSE conns[j]
    BY <1>1, <1>4, <1>5, <2>1, ExceptSeq, Typing
  <2>3. \E k \in DOMAIN conns'[c].got : conns'[c].got[k].event = tk.event
    <3>1. Len(conns[c].got) + 1 \in DOMAIN d.got
          /\ d.got[Len(conns[c].got) + 1] = Delivery(t, tk.event)
      BY <1>1, <1>4
    <3> QED BY <1>1, <2>2, <3>1 DEF Delivery
  <2>4. DOMAIN conns' = DOMAIN conns
    BY <2>2, Typing
  <2>5. Has(clients[i].conn, tk.event)'
    BY <2>3 DEF Has, Delivering, c
  <2> QED BY <1>4, <2>2, <2>4, <2>5 DEF c
<1>7. CASE ~conns[c].up
  BY <1>5, <1>7 DEF Delivering
<1> QED BY <1>6, <1>7
-----------------------------------------------------------------------------
LEMMA TypesKept ==
  ASSUME BroadcastInv, BroadcastNext
  PROVE  BroadcastTypeOK'
<1>i. BroadcastTypeOK /\ Table
  BY DEF BroadcastInv
<1>t. /\ running \in BOOLEAN /\ serving \in BOOLEAN
      /\ clients \in Seq(ClientType) /\ conns \in Seq(ConnType)
      /\ queued \in 0 .. MaxEvents /\ queue \in Seq(1 .. queued)
      /\ task \in [Tasks -> TaskType] /\ direct \subseteq [id : ClientIds, conn : DOMAIN conns]
  BY <1>i DEF BroadcastTypeOK
<1>1. ASSUME NEW id \in ClientIds, Connect(id) PROVE BroadcastTypeOK'
  <2> DEFINE new == [id |-> id, handler |-> "welcoming", up |-> TRUE, got |-> <<>>]
  <2>e. UNCHANGED <<running, serving, queued, queue, task, direct>>
    BY <1>1 DEF Connect
  <2>1. /\ Len(conns') = Len(conns) + 1 /\ Len(clients') \in Len(clients) .. Len(clients) + 1
        /\ DOMAIN conns' = 1 .. Len(conns')
    <3>1. /\ Len(conns') = Len(conns) + 1 /\ Len(clients') \in Len(clients) .. Len(clients) + 1
          /\ DOMAIN conns' = DOMAIN conns \cup {Len(conns) + 1}
      BY <1>i, <1>1, ConnectEffect
    <3>2. DOMAIN conns = 1 .. Len(conns) /\ Len(conns) \in Nat
      BY <1>i, Typing
    <3>3. DOMAIN conns \cup {Len(conns) + 1} = 1 .. Len(conns) + 1
      BY <3>2
    <3> QED BY <3>1, <3>3
  <2>2. /\ ClientType \subseteq ClientType'
        /\ ConnType \subseteq ConnType'
        /\ TaskType \subseteq TaskType'
        /\ [id : ClientIds, conn : DOMAIN conns] \subseteq [id : ClientIds, conn : DOMAIN conns']
    BY <1>i, <2>1, <2>e, TypesGrow, Typing
  <2>3. conns' \in Seq(ConnType')
    <3>1. new \in ConnType
      BY EmptySeq DEF ConnType
    <3>2. conns' = Append(conns, new)
      BY <1>1 DEF Connect
    <3>3. conns' \in Seq(ConnType)
      <4> HIDE DEF new
      <4> QED BY <1>t, <3>1, <3>2, AppendProperties
    <3> QED BY <2>2, <3>3, SeqMonotonic
  <2>4. clients' \in Seq(ClientType')
    <3>1. Assigned(clients', id, Len(conns) + 1)
      BY <1>i, <1>1, ConnectEffect
    <3>2. [id |-> id, conn |-> Len(conns) + 1] \in ClientType'
      BY <1>i, <2>1, Typing DEF ClientType
    <3>3. \A i \in DOMAIN clients' : clients'[i] \in ClientType'
      BY <1>i, <2>2, <3>1, <3>2, Typing DEF Assigned
    <3>4. clients' = [i \in 1 .. Len(clients') |-> clients'[i]]
      BY <1>i, <1>1, ConnectEffect
    <3>5. Len(clients') \in Nat /\ DOMAIN clients' = 1 .. Len(clients')
      BY <1>i, <2>1, <3>4, Typing
    <3>6. clients' \in [1 .. Len(clients') -> ClientType']
      BY <3>3, <3>4, <3>5
    <3> QED BY <3>5, <3>6, Tabulated
  <2>5. task' \in [Tasks -> TaskType']
    BY <1>t, <2>2, <2>e
  <2>6. direct' \subseteq [id : ClientIds, conn : DOMAIN conns']
    BY <1>t, <2>2, <2>e
  <2> QED BY <1>t, <2>3, <2>4, <2>5, <2>6, <2>e DEF BroadcastTypeOK
<1>2. CASE QueueEvent
  <2>e. UNCHANGED <<running, serving, clients, conns, task, direct>> /\ queued' = queued + 1
        /\ queued < MaxEvents /\ queue' = Append(queue, queued')
    BY <1>2 DEF QueueEvent
  <2>n. queued \in Nat /\ MaxEvents \in Nat
    BY <1>i, Typing, BroadcastAssumption
  <2>1. /\ ClientType \subseteq ClientType'
        /\ ConnType \subseteq ConnType'
        /\ TaskType \subseteq TaskType'
        /\ 1 .. queued \subseteq 1 .. queued'
    BY <1>i, <2>e, <2>n, TypesGrow, Typing
  <2>2. clients' \in Seq(ClientType') /\ conns' \in Seq(ConnType')
    BY <1>t, <2>1, <2>e, SeqMonotonic
  <2>3. queue' \in Seq(1 .. queued')
    <3>1. queue \in Seq(1 .. queued')
      BY <1>t, <2>1, SeqMonotonic
    <3>2. queued' \in 1 .. queued'
      BY <2>e, <2>n
    <3> QED BY <2>e, <3>1, <3>2, AppendProperties
  <2>4. task' \in [Tasks -> TaskType']
    BY <1>t, <2>1, <2>e
  <2>5. queued' \in 0 .. MaxEvents
    BY <2>e, <2>n
  <2> QED BY <1>t, <2>2, <2>3, <2>4, <2>5, <2>e DEF BroadcastTypeOK
<1>3. CASE Settling
  <2>1. /\ clients' \in Seq(ClientType) /\ conns' \in Seq(ConnType)
        /\ Len(clients') = Len(clients) /\ DOMAIN conns' = DOMAIN conns /\ Len(conns') = Len(conns)
    BY <1>i, <1>3, SettlingEffect DEF Settling, ConnsSettle
  <2>2. queued' = queued /\ queue' \in Seq(1 .. queued) /\ task' \in [Tasks -> TaskType]
        /\ running' \in BOOLEAN /\ serving' \in BOOLEAN
        /\ direct' \subseteq [id : ClientIds, conn : DOMAIN conns]
    BY <1>i, <1>3, QueueShrinks DEF Settling
  <2>3. ClientType' = ClientType /\ ConnType' = ConnType /\ TaskType' = TaskType
    BY <2>1, <2>2 DEF ClientType, ConnType, TaskType
  <2> QED BY <1>t, <2>1, <2>2, <2>3 DEF BroadcastTypeOK
<1>4. ASSUME NEW t \in Tasks, NEW tk \in TaskType, NEW i \in Live, Delivering(t, tk, i)
      PROVE  BroadcastTypeOK'
  <2>1. conns' \in Seq(ConnType) /\ DOMAIN conns' = DOMAIN conns /\ Len(conns') = Len(conns)
    BY <1>i, <1>4, DeliveringEffect
  <2>2. /\ UNCHANGED <<running, serving, clients, queued, direct>>
        /\ queue' \in Seq(1 .. queued)
    BY <1>i, <1>4, QueueShrinks DEF Delivering
  <2>3. ClientType' = ClientType /\ ConnType' = ConnType /\ TaskType' = TaskType
    BY <2>1, <2>2 DEF ClientType, ConnType, TaskType
  <2>4. [tk EXCEPT !.pc = "sending", !.index = i, !.conn = clients[i].conn] \in TaskType
    <3>1. i \in 0 .. Len(clients) /\ clients[i].conn \in 0 .. Len(conns)
      BY <1>i, LiveTyping, Typing
    <3> QED BY <3>1 DEF TaskType
  <2>5. task' \in [Tasks -> TaskType]
    BY <1>t, <1>4, <2>4 DEF Delivering
  <2> QED BY <1>t, <2>1, <2>2, <2>3, <2>5 DEF BroadcastTypeOK
<1> QED BY <1>1, <1>2, <1>3, <1>4, Kinds

(* The table after a connection: the entry of the new connection has its    *)
(* id, and the others are as they were.                                     *)
LEMMA ConnectTable ==
  ASSUME BroadcastTypeOK, Table, NEW id \in ClientIds, Connect(id)
  PROVE  \E k \in Live' :
           /\ clients'[k].conn = Len(conns) + 1 /\ clients'[k].id = id
           /\ \A i \in Live' : i # k => i \in Live /\ clients'[i] = clients[i] /\ clients[i].id # id
           /\ \A i \in Live : i # k => i \in Live'
           /\ \A i \in DOMAIN clients : i \in DOMAIN clients' /\ clients'[i].id = clients[i].id
<1>1. PICK k \in DOMAIN clients' :
        /\ DOMAIN clients' = DOMAIN clients \cup {k}
        /\ clients'[k] = [id |-> id, conn |-> Len(conns) + 1]
        /\ \A i \in DOMAIN clients : i # k => clients'[i] = clients[i]
        /\ \/ k \in Live /\ clients[k].id = id
           \/ k = Len(clients) + 1 /\ \A i \in Live : clients[i].id # id
  BY ConnectEffect DEF Assigned
<1>2. Len(conns) + 1 # 0
  BY Typing
<1>3. k \in Live'
  BY <1>1, <1>2 DEF Live
<1>4. ASSUME NEW i \in Live', i # k
      PROVE  i \in Live /\ clients'[i] = clients[i] /\ clients[i].id # id
  <2>1. i \in Live /\ clients'[i] = clients[i]
    BY <1>1, <1>4 DEF Live
  <2> QED BY <1>1, <1>4, <2>1 DEF Table
<1>5. \A i \in Live : i # k => i \in Live'
  BY <1>1 DEF Live
<1>6. \A i \in DOMAIN clients : i \in DOMAIN clients' /\ clients'[i].id = clients[i].id
  <2>1. Len(clients) + 1 \notin DOMAIN clients
    BY Typing
  <2> QED BY <1>1, <2>1
<1> QED BY <1>1, <1>3, <1>4, <1>5, <1>6

LEMMA TableKept ==
  ASSUME BroadcastInv, BroadcastNext
  PROVE  Table'
<1>i. BroadcastTypeOK /\ Table
  BY DEF BroadcastInv
<1>l. \A i \in Live : clients[i].conn \in DOMAIN conns
  BY <1>i, LiveTyping
<1>1. ASSUME NEW id \in ClientIds, Connect(id) PROVE Table'
  <2>1. PICK k \in Live' :
          /\ clients'[k].conn = Len(conns) + 1 /\ clients'[k].id = id
          /\ \A i \in Live' : i # k => i \in Live /\ clients'[i] = clients[i] /\ clients[i].id # id
    BY <1>i, <1>1, ConnectTable
  <2>2. /\ \A c \in DOMAIN conns : conns'[c] = conns[c]
        /\ conns'[Len(conns) + 1].id = id
    <3>1. conns'[Len(conns) + 1] =
            [id |-> id, handler |-> "welcoming", up |-> TRUE, got |-> <<>>]
      BY <1>i, <1>1, ConnectEffect
    <3>2. conns'[Len(conns) + 1].id = id
      BY <3>1
    <3> QED BY <1>i, <1>1, <3>2, ConnectEffect
  <2>3. \A i \in Live' : clients'[i].id = conns'[clients'[i].conn].id
    BY <1>i, <1>l, <2>1, <2>2 DEF Table
  <2>4. \A i, j \in Live' : clients'[i].id = clients'[j].id => i = j
    BY <1>i, <2>1 DEF Table
  <2> QED BY <2>3, <2>4 DEF Table
<1>2. CASE QueueEvent
  BY <1>i, <1>2 DEF QueueEvent, Table, Live
<1>3. CASE Settling
  <2>1. /\ Live' \subseteq Live
        /\ \A i \in Live' : clients'[i].conn = clients[i].conn /\ clients'[i].id = clients[i].id
    BY <1>i, <1>3, SettlingEffect, LiveTyping
  <2>2. \A c \in DOMAIN conns : conns'[c].id = conns[c].id
    BY <1>3 DEF Settling, ConnsSettle
  <2> QED BY <1>i, <1>l, <2>1, <2>2 DEF Table
<1>4. ASSUME NEW t \in Tasks, NEW tk \in TaskType, NEW i \in Live, Delivering(t, tk, i)
      PROVE  Table'
  <2>1. \A c \in DOMAIN conns : conns'[c].id = conns[c].id
    BY <1>i, <1>4, DeliveringEffect
  <2>2. clients' = clients
    BY <1>4 DEF Delivering
  <2> QED BY <1>i, <1>l, <2>1, <2>2 DEF Table, Live
<1> QED BY <1>1, <1>2, <1>3, <1>4, Kinds

(* The record of the task that delivers, and those of the others.           *)
LEMMA DeliveringTasks ==
  ASSUME BroadcastTypeOK, NEW t \in Tasks, NEW tk \in TaskType, NEW i \in Live, Delivering(t, tk, i)
  PROVE  /\ task'[t].pc = "sending" /\ task'[t].index = i /\ task'[t].conn = clients[i].conn
         /\ task'[t].event = tk.event /\ task'[t].gone = tk.gone /\ task'[t].present = tk.present
         /\ \A u \in Tasks \ {t} : task'[u] = task[u]
<1> DEFINE new == [tk EXCEPT !.pc = "sending", !.index = i, !.conn = clients[i].conn]
<1>1. task' = [task EXCEPT ![t] = new] /\ task \in [Tasks -> TaskType]
  BY DEF Delivering, BroadcastTypeOK
<1>2. /\ new.pc = "sending" /\ new.index = i /\ new.conn = clients[i].conn
      /\ new.event = tk.event /\ new.gone = tk.gone /\ new.present = tk.present
  BY DEF TaskType
<1> HIDE DEF new
<1> QED BY <1>1, <1>2

LEMMA PendingKept ==
  ASSUME BroadcastInv, BroadcastNext
  PROVE  Pending'
<1>i. BroadcastTypeOK /\ Table /\ Pending
  BY DEF BroadcastInv
<1>1. ASSUME NEW id \in ClientIds, Connect(id) PROVE Pending'
  <2>1. /\ \A c \in DOMAIN conns : c \in DOMAIN conns' /\ conns'[c] = conns[c]
        /\ UNCHANGED <<task, direct>>
    BY <1>i, <1>1, ConnectEffect
  <2>2. \A i \in DOMAIN clients : i \in DOMAIN clients' /\ clients'[i].id = clients[i].id
    BY <1>i, <1>1, ConnectTable
  <2>3. \A x : Lost(x) => Lost(x)'
    BY <2>1 DEF Lost
  <2>4. \A d \in direct : d.conn \in DOMAIN conns
    BY <1>i DEF BroadcastTypeOK
  <2>5. \A d \in direct' : conns'[d.conn].id = d.id
    BY <1>i, <2>1, <2>4 DEF Pending
  <2>6. \A t \in Tasks : \A x \in task'[t].gone : Lost(x)'
    BY <1>i, <2>1, <2>3 DEF Pending
  <2>7. ASSUME NEW t \in Tasks, Sending(t)'
        PROVE  /\ task'[t].event \in 1 .. queued'
               /\ task'[t].index \in DOMAIN clients'
               /\ task'[t].conn \in DOMAIN conns'
               /\ clients'[task'[t].index].id = conns'[task'[t].conn].id
    <3>1. Sending(t) /\ queued' = queued
      BY <1>1, <2>1, <2>7 DEF Sending, Connect
    <3> QED BY <1>i, <2>1, <2>2, <3>1 DEF Pending
  <2> QED BY <2>5, <2>6, <2>7 DEF Pending
<1>2. CASE QueueEvent
  <2>1. UNCHANGED <<clients, conns, task, direct>> /\ queued' = queued + 1
    BY <1>2 DEF QueueEvent
  <2>2. 1 .. queued \subseteq 1 .. queued'
    BY <1>i, <2>1, Typing
  <2>3. \A x : Lost(x)' <=> Lost(x)
    BY <2>1 DEF Lost
  <2> QED BY <1>i, <2>1, <2>2, <2>3 DEF Pending, Sending
<1>3. CASE Settling
  <2>1. /\ DOMAIN clients' = DOMAIN clients /\ DOMAIN conns' = DOMAIN conns
        /\ \A i \in DOMAIN clients : clients'[i].id = clients[i].id
        /\ \A x : Lost(x) => Lost(x)'
    BY <1>i, <1>3, SettlingEffect
  <2>2. \A c \in DOMAIN conns : conns'[c].id = conns[c].id
    BY <1>3 DEF Settling, ConnsSettle
  <2>3. \A d \in direct' : d.conn \in DOMAIN conns /\ conns'[d.conn].id = d.id
    BY <1>3, <2>2 DEF Settling
  <2>4. \A t \in Tasks : task'[t] = task[t] \/ (task'[t].pc # "sending" /\ task'[t].gone = {})
    BY <1>3 DEF Settling, TasksEnd
  <2>5. \A t \in Tasks : \A x \in task'[t].gone : Lost(x)'
    BY <1>i, <2>1, <2>4 DEF Pending
  <2>6. ASSUME NEW t \in Tasks, Sending(t)'
        PROVE  /\ task'[t].event \in 1 .. queued'
               /\ task'[t].index \in DOMAIN clients'
               /\ task'[t].conn \in DOMAIN conns'
               /\ clients'[task'[t].index].id = conns'[task'[t].conn].id
    <3>1. task'[t] = task[t] /\ Sending(t) /\ queued' = queued
      BY <1>3, <2>4, <2>6 DEF Sending, Settling
    <3> QED BY <1>i, <2>1, <2>2, <3>1 DEF Pending
  <2> QED BY <2>3, <2>5, <2>6 DEF Pending
<1>4. ASSUME NEW t \in Tasks, NEW tk \in TaskType, NEW i \in Live, Delivering(t, tk, i)
      PROVE  Pending'
  <2>1. /\ DOMAIN conns' = DOMAIN conns
        /\ \A c \in DOMAIN conns : conns'[c].id = conns[c].id /\ conns'[c].up = conns[c].up
    BY <1>i, <1>4, DeliveringEffect
  <2>2. UNCHANGED <<clients, queued, direct>> /\ Ready(t, tk)
    BY <1>4 DEF Delivering
  <2>3. \A x : Lost(x) => Lost(x)'
    BY <2>1 DEF Lost
  <2>4. \A d \in direct' : conns'[d.conn].id = d.id
    <3>1. \A d \in direct : d.conn \in DOMAIN conns
      BY <1>i DEF BroadcastTypeOK
    <3> QED BY <1>i, <2>1, <2>2, <3>1 DEF Pending
  <2>5. ASSUME NEW u \in Tasks
        PROVE  /\ \A x \in task'[u].gone : Lost(x)'
               /\ Sending(u)' =>
                    /\ task'[u].event \in 1 .. queued'
                    /\ task'[u].index \in DOMAIN clients'
                    /\ task'[u].conn \in DOMAIN conns'
                    /\ clients'[task'[u].index].id = conns'[task'[u].conn].id
    <3>1. CASE u = t
      <4>1. /\ task'[t].index = i /\ task'[t].conn = clients[i].conn
            /\ task'[t].event = tk.event /\ task'[t].gone = tk.gone
        BY <1>i, <1>4, DeliveringTasks
      <4>2. i \in DOMAIN clients /\ clients[i].conn \in DOMAIN conns
            /\ clients[i].id = conns[clients[i].conn].id
        BY <1>i, LiveTyping DEF Table
      <4> QED BY <2>1, <2>2, <2>3, <3>1, <4>1, <4>2 DEF Ready
    <3>2. CASE u # t
      <4>1. task'[u] = task[u]
        BY <1>i, <1>4, <3>2, DeliveringTasks
      <4> QED BY <1>i, <2>1, <2>2, <2>3, <4>1 DEF Pending, Sending
    <3> QED BY <3>1, <3>2
  <2> QED BY <2>4, <2>5 DEF Pending
<1> QED BY <1>1, <1>2, <1>3, <1>4, Kinds

LEMMA OrderKept ==
  ASSUME BroadcastInv, BroadcastNext
  PROVE  Order'
<1>i. BroadcastTypeOK /\ Table /\ Order
  BY DEF BroadcastInv
<1>1. ASSUME NEW id \in ClientIds, Connect(id) PROVE Order'
  <2>1. /\ DOMAIN conns' = DOMAIN conns \cup {Len(conns) + 1}
        /\ \A c \in DOMAIN conns : conns'[c] = conns[c]
        /\ UNCHANGED <<task, queue>>
    BY <1>i, <1>1, ConnectEffect
  <2>2. DOMAIN conns'[Len(conns) + 1].got = {}
    <3>1. conns'[Len(conns) + 1] =
            [id |-> id, handler |-> "welcoming", up |-> TRUE, got |-> <<>>]
      BY <1>i, <1>1, ConnectEffect
    <3> QED BY <3>1
  <2>3. \A c \in DOMAIN conns' : \A k \in DOMAIN conns'[c].got : \A i \in DOMAIN queue :
          conns'[c].got[k].event < queue[i]
    BY <1>i, <2>1, <2>2 DEF Order
  <2> QED BY <1>i, <2>1, <2>3 DEF Order, Sending
<1>2. CASE QueueEvent
  <2>1. UNCHANGED <<conns, task>> /\ queue' = Append(queue, queued + 1)
    BY <1>2 DEF QueueEvent
  <2>2. queue \in Seq(1 .. queued) /\ queued \in Nat
    BY <1>i, Typing DEF BroadcastTypeOK
  <2>3. /\ DOMAIN queue' = 1 .. Len(queue) + 1 /\ queue'[Len(queue) + 1] = queued + 1
        /\ \A i \in DOMAIN queue : queue'[i] = queue[i] /\ queue[i] < queued + 1
    <3>1. \A i \in DOMAIN queue : queue[i] < queued + 1
      BY <1>i, Typing
    <3> QED BY <2>1, <2>2, <3>1, AppendProperties, Typing
  <2>4. DOMAIN queue = 1 .. Len(queue) /\ Len(queue) \in Nat
    BY <1>i, Typing
  <2>5. \A i, j \in DOMAIN queue' : i < j => queue'[i] < queue'[j]
    BY <1>i, <2>3, <2>4 DEF Order
  <2>6. \A c \in DOMAIN conns : \A k \in DOMAIN conns[c].got : conns[c].got[k].event < queued + 1
    BY <1>i, <2>2, GotTyping
  <2>7. \A t \in Tasks : task[t].event < queued + 1
    BY <1>i, <2>2, Typing DEF TaskType
  <2>8. \A i \in DOMAIN queue' : i \in DOMAIN queue \/ i = Len(queue) + 1
    BY <2>3, <2>4
  <2>9. \A c \in DOMAIN conns' : \A k \in DOMAIN conns'[c].got : \A i \in DOMAIN queue' :
          conns'[c].got[k].event < queue'[i]
    BY <1>i, <2>1, <2>3, <2>6, <2>8 DEF Order
  <2>10. \A t \in Tasks : Sending(t)' => \A i \in DOMAIN queue' : task'[t].event < queue'[i]
    BY <1>i, <2>1, <2>3, <2>7, <2>8 DEF Order, Sending
  <2> QED BY <1>i, <2>1, <2>5, <2>9, <2>10 DEF Order, Sending
<1>q. ASSUME queue' = queue \/ (queue # <<>> /\ queue' = Tail(queue))
      PROVE  /\ \A i, j \in DOMAIN queue' : i < j => queue'[i] < queue'[j]
             /\ \A i \in DOMAIN queue' : \E j \in DOMAIN queue : queue'[i] = queue[j]
  <2>1. PICK d \in {0, 1} :
          /\ \A i \in DOMAIN queue' : i + d \in DOMAIN queue /\ queue'[i] = queue[i + d]
          /\ DOMAIN queue' \subseteq Nat
    BY <1>i, <1>q, QueueShrinks
  <2>2. ASSUME NEW i \in DOMAIN queue', NEW j \in DOMAIN queue', i < j
        PROVE  queue'[i] < queue'[j]
    <3>1. i + d \in DOMAIN queue /\ j + d \in DOMAIN queue /\ i + d < j + d
      BY <2>1, <2>2
    <3> QED BY <1>i, <2>1, <3>1 DEF Order
  <2> QED BY <2>1, <2>2
<1>3. CASE Settling
  <2>1. /\ \A i, j \in DOMAIN queue' : i < j => queue'[i] < queue'[j]
        /\ \A i \in DOMAIN queue' : \E j \in DOMAIN queue : queue'[i] = queue[j]
    BY <1>3, <1>q DEF Settling
  <2>2. DOMAIN conns' = DOMAIN conns /\ \A c \in DOMAIN conns : conns'[c].got = conns[c].got
    BY <1>i, <1>3, SettlingEffect DEF Settling, ConnsSettle
  <2>3. \A t \in Tasks : Sending(t)' => Sending(t) /\ task'[t] = task[t]
    BY <1>3 DEF Settling, TasksEnd, Sending
  <2> QED BY <1>i, <2>1, <2>2, <2>3 DEF Order
<1>4. ASSUME NEW t \in Tasks, NEW tk \in TaskType, NEW i \in Live, Delivering(t, tk, i)
      PROVE  Order'
  <2>1. /\ \A m, j \in DOMAIN queue' : m < j => queue'[m] < queue'[j]
        /\ \A m \in DOMAIN queue' : \E j \in DOMAIN queue : queue'[m] = queue[j]
    BY <1>4, <1>q DEF Delivering
  <2>2. /\ \A m \in DOMAIN queue' : tk.event < queue'[m]
        /\ \A u \in Tasks \ {t} : Sending(u) => task[u].event # tk.event
    BY <1>4 DEF Delivering, Ready
  <2>3. /\ task'[t].event = tk.event
        /\ \A u \in Tasks \ {t} : task'[u] = task[u]
    BY <1>i, <1>4, DeliveringTasks
  <2>4. ASSUME NEW c \in DOMAIN conns', NEW k \in DOMAIN conns'[c].got, NEW m \in DOMAIN queue'
        PROVE  conns'[c].got[k].event < queue'[m]
    <3>1. /\ c \in DOMAIN conns
          /\ \/ conns'[c].got = conns[c].got
             \/ conns'[c].got = Append(conns[c].got, Delivery(t, tk.event))
      BY <1>i, <1>4, DeliveringEffect
    <3>2. \/ k \in DOMAIN conns[c].got /\ conns'[c].got[k] = conns[c].got[k]
          \/ conns'[c].got[k] = Delivery(t, tk.event)
      BY <1>i, <2>4, <3>1, GotTyping, AppendProperties
    <3>3. CASE k \in DOMAIN conns[c].got /\ conns'[c].got[k] = conns[c].got[k]
      <4>1. PICK j \in DOMAIN queue : queue'[m] = queue[j]
        BY <2>1
      <4>2. conns[c].got[k].event < queue[j]
        BY <1>i, <3>1, <3>3 DEF Order
      <4> QED BY <3>3, <4>1, <4>2
    <3>4. CASE conns'[c].got[k] = Delivery(t, tk.event)
      BY <2>2, <3>4 DEF Delivery
    <3> QED BY <3>2, <3>3, <3>4
  <2>5. \A u \in Tasks : Sending(u)' => \A m \in DOMAIN queue' : task'[u].event < queue'[m]
    BY <1>i, <2>1, <2>2, <2>3 DEF Order, Sending
  <2>6. \A u, v \in Tasks : Sending(u)' /\ Sending(v)' /\ u # v => task'[u].event # task'[v].event
    BY <1>i, <2>2, <2>3 DEF Order, Sending
  <2> QED BY <2>1, <2>4, <2>5, <2>6 DEF Order
<1> QED BY <1>1, <1>2, <1>3, <1>4, Kinds
-----------------------------------------------------------------------------
(* What has been sent on the connections, after a connection and after a    *)
(* delivery.                                                                *)
LEMMA ConnectGot ==
  ASSUME BroadcastTypeOK, Table, NEW id \in ClientIds, Connect(id)
  PROVE  /\ DOMAIN conns' = DOMAIN conns \cup {Len(conns) + 1}
         /\ Len(conns) + 1 \notin DOMAIN conns
         /\ \A c \in DOMAIN conns : conns'[c] = conns[c]
         /\ DOMAIN conns'[Len(conns) + 1].got = {}
         /\ conns'[Len(conns) + 1].id = id
<1>1. conns'[Len(conns) + 1] =
        [id |-> id, handler |-> "welcoming", up |-> TRUE, got |-> <<>>]
  BY ConnectEffect
<1>2. DOMAIN conns'[Len(conns) + 1].got = {} /\ conns'[Len(conns) + 1].id = id
  BY <1>1
<1>3. Len(conns) + 1 \notin DOMAIN conns
  BY Typing
<1> QED BY <1>2, <1>3, ConnectEffect

LEMMA DeliveringGot ==
  ASSUME BroadcastTypeOK, NEW t \in Tasks, NEW tk \in TaskType, NEW i \in Live,
         Delivering(t, tk, i),
         NEW c \in DOMAIN conns
  PROVE  /\ \A k \in DOMAIN conns'[c].got :
              \/ k \in DOMAIN conns[c].got /\ conns'[c].got[k] = conns[c].got[k]
              \/ /\ k = Len(conns[c].got) + 1
                 /\ conns'[c].got[k] = Delivery(t, tk.event)
                 /\ c = clients[i].conn
         /\ \A k \in DOMAIN conns[c].got :
              k \in DOMAIN conns'[c].got /\ conns'[c].got[k] = conns[c].got[k]
<1>1. \/ conns'[c].got = conns[c].got
      \/ c = clients[i].conn /\ conns'[c].got = Append(conns[c].got, Delivery(t, tk.event))
  BY DeliveringEffect
<1>2. CASE conns'[c].got = conns[c].got
  BY <1>2
<1>3. CASE c = clients[i].conn /\ conns'[c].got = Append(conns[c].got, Delivery(t, tk.event))
  <2>1. conns[c].got \in Seq([event : 1 .. queued, task : Tasks])
        /\ DOMAIN conns[c].got = 1 .. Len(conns[c].got) /\ Len(conns[c].got) \in Nat
    BY GotTyping
  <2>2. /\ DOMAIN conns'[c].got = 1 .. Len(conns[c].got) + 1
        /\ conns'[c].got[Len(conns[c].got) + 1] = Delivery(t, tk.event)
        /\ \A k \in 1 .. Len(conns[c].got) : conns'[c].got[k] = conns[c].got[k]
    <3> DEFINE D == [event : 1 .. queued, task : Tasks]
    <3>1. PICK g, e : g = conns[c].got /\ e = Delivery(t, tk.event)
      OBVIOUS
    <3>2. g \in Seq(D) /\ conns'[c].got = Append(g, e)
      BY <1>3, <2>1, <3>1
    <3> HIDE DEF D
    <3> QED BY <3>1, <3>2
  <2>3. \A k \in DOMAIN conns'[c].got :
          k \in DOMAIN conns[c].got \/ k = Len(conns[c].got) + 1
    BY <2>1, <2>2
  <2>4. \A k \in DOMAIN conns[c].got : k \in DOMAIN conns'[c].got
    BY <2>1, <2>2
  <2> QED BY <1>3, <2>1, <2>2, <2>3, <2>4
<1> QED BY <1>1, <1>2, <1>3

LEMMA DeliveringHas ==
  ASSUME BroadcastTypeOK, NEW t \in Tasks, NEW tk \in TaskType, NEW i \in Live,
         Delivering(t, tk, i),
         NEW c \in DOMAIN conns, NEW e
  PROVE  /\ Has(c, e) => Has(c, e)'
         /\ Has(c, e)' => Has(c, e) \/ (c = clients[i].conn /\ e = tk.event)
<1>1. ASSUME Has(c, e) PROVE Has(c, e)'
  BY <1>1, DeliveringGot DEF Has
<1>2. ASSUME Has(c, e)' PROVE Has(c, e) \/ (c = clients[i].conn /\ e = tk.event)
  <2>1. PICK k \in DOMAIN conns'[c].got : conns'[c].got[k].event = e
    BY <1>2 DEF Has
  <2>2. CASE k \in DOMAIN conns[c].got /\ conns'[c].got[k] = conns[c].got[k]
    BY <2>1, <2>2 DEF Has
  <2>3. CASE conns'[c].got[k] = Delivery(t, tk.event) /\ c = clients[i].conn
    BY <2>1, <2>3 DEF Delivery
  <2> QED BY <2>1, <2>2, <2>3, DeliveringGot
<1> QED BY <1>1, <1>2

LEMMA SweepsKept ==
  ASSUME BroadcastInv, BroadcastNext
  PROVE  Sweeps'
<1>i. BroadcastTypeOK /\ Table /\ Sweeps
  BY DEF BroadcastInv
<1>l. \A i \in Live : i \in Nat /\ clients[i].conn \in DOMAIN conns
  BY <1>i, LiveTyping, Typing
<1>k. \A u \in Tasks : /\ task[u].present \subseteq DOMAIN conns
                       /\ task[u].index \in Nat
                       /\ task[u].event \in Nat
  BY <1>i, Typing DEF TaskType
<1>1. ASSUME NEW id \in ClientIds, Connect(id) PROVE Sweeps'
  <2>1. /\ DOMAIN conns' = DOMAIN conns \cup {Len(conns) + 1}
        /\ Len(conns) + 1 \notin DOMAIN conns
        /\ \A c \in DOMAIN conns : conns'[c] = conns[c]
        /\ DOMAIN conns'[Len(conns) + 1].got = {}
    BY <1>i, <1>1, ConnectGot
  <2>2. PICK n \in Live' :
          /\ clients'[n].conn = Len(conns) + 1
          /\ \A i \in Live' : i # n => i \in Live /\ clients'[i] = clients[i]
    BY <1>i, <1>1, ConnectTable
  <2>3. ASSUME NEW u \in Tasks, Sending(u)'
        PROVE  Progress(u, task[u].event, task[u].index, task[u].present)'
    <3>1. task' = task /\ Progress(u, task[u].event, task[u].index, task[u].present)
      BY <1>i, <1>1, <2>3 DEF Connect, Sweeps, Sending
    <3>2. ASSUME NEW i \in Live', i > task[u].index
          PROVE  ~Has(clients[i].conn, task[u].event)'
      <4>1. CASE i = n
        BY <2>1, <2>2, <4>1 DEF Has
      <4>2. CASE i # n
        BY <1>l, <2>1, <2>2, <3>1, <3>2, <4>2 DEF Has, Progress
      <4> QED BY <4>1, <4>2
    <3>3. ASSUME NEW i \in Live', i <= task[u].index,
                 clients'[i].conn \in task[u].present, conns'[clients'[i].conn].up
          PROVE  Has(clients[i].conn, task[u].event)'
      <4>1. i # n
        BY <1>k, <2>1, <2>2, <3>3
      <4> QED BY <1>l, <2>1, <2>2, <3>1, <3>3, <4>1 DEF Has, Progress
    <3>4. ASSUME NEW c \in DOMAIN conns', NEW k \in DOMAIN conns'[c].got,
                 conns'[c].got[k].task = u
          PROVE  conns'[c].got[k].event <= task[u].event
      BY <2>1, <3>1, <3>4 DEF Progress
    <3> QED BY <3>1, <3>2, <3>3, <3>4 DEF Progress
  <2> QED BY <2>3 DEF Sweeps
<1>2. CASE QueueEvent
  <2>1. UNCHANGED <<clients, conns, task>>
    BY <1>2 DEF QueueEvent
  <2> QED BY <1>i, <2>1 DEF Sweeps, Sending, Progress, Has, Live
<1>3. CASE Settling
  <2>1. /\ Live' \subseteq Live
        /\ \A i \in Live' : clients'[i].conn = clients[i].conn
        /\ DOMAIN conns' = DOMAIN conns
    BY <1>i, <1>3, SettlingEffect
  <2>2. \A c \in DOMAIN conns : conns'[c].got = conns[c].got /\ (conns'[c].up => conns[c].up)
    BY <1>3 DEF Settling, ConnsSettle
  <2>3. ASSUME NEW u \in Tasks, Sending(u)'
        PROVE  Progress(u, task[u].event, task[u].index, task[u].present)'
    <3>1. task'[u] = task[u] /\ Sending(u)
      BY <1>3, <2>3 DEF Settling, TasksEnd, Sending
    <3>2. Progress(u, task[u].event, task[u].index, task[u].present)
      BY <1>i, <3>1 DEF Sweeps
    <3>3. ASSUME NEW i \in Live', i > task[u].index
          PROVE  ~Has(clients[i].conn, task[u].event)'
      BY <1>l, <2>1, <2>2, <3>1, <3>2, <3>3 DEF Has, Progress
    <3>4. ASSUME NEW i \in Live', i <= task[u].index,
                 clients'[i].conn \in task[u].present, conns'[clients'[i].conn].up
          PROVE  Has(clients[i].conn, task[u].event)'
      BY <1>l, <2>1, <2>2, <3>1, <3>2, <3>4 DEF Has, Progress
    <3>5. ASSUME NEW c \in DOMAIN conns', NEW k \in DOMAIN conns'[c].got,
                 conns'[c].got[k].task = u
          PROVE  conns'[c].got[k].event <= task[u].event
      BY <2>1, <2>2, <3>2, <3>5 DEF Progress
    <3> QED BY <3>1, <3>3, <3>4, <3>5 DEF Progress
  <2> QED BY <2>3 DEF Sweeps
<1>4. ASSUME NEW t \in Tasks, NEW tk \in TaskType, NEW i \in Live, Delivering(t, tk, i)
      PROVE  Sweeps'
  <2>1. /\ clients' = clients /\ Live' = Live
        /\ DOMAIN conns' = DOMAIN conns
        /\ \A c \in DOMAIN conns : conns'[c].up = conns[c].up
        /\ conns[clients[i].conn].up => Has(clients[i].conn, tk.event)'
    BY <1>i, <1>4, DeliveringEffect DEF Delivering, Live
  <2>2. /\ i > tk.index
        /\ \A j \in Live : j > tk.index => i <= j
        /\ Ready(t, tk)
    BY <1>4 DEF Delivering
  <2>3. /\ task'[t].event = tk.event /\ task'[t].index = i /\ task'[t].present = tk.present
        /\ \A u \in Tasks \ {t} : task'[u] = task[u]
    BY <1>i, <1>4, DeliveringTasks
  <2>4. ASSUME NEW c \in DOMAIN conns, NEW e
        PROVE  /\ Has(c, e) => Has(c, e)'
               /\ Has(c, e)' => Has(c, e) \/ (c = clients[i].conn /\ e = tk.event)
    BY <1>i, <1>4, DeliveringHas
  <2>9. ASSUME NEW c \in DOMAIN conns, NEW e, e # tk.event
        PROVE  (\E k \in DOMAIN conns'[c].got : conns'[c].got[k].event = e) <=> Has(c, e)
    <3>1. Has(c, e)' <=> Has(c, e)
      BY <2>4, <2>9
    <3> QED BY <3>1 DEF Has
  <2>5. ASSUME NEW c \in DOMAIN conns, NEW k \in DOMAIN conns'[c].got
        PROVE  \/ k \in DOMAIN conns[c].got /\ conns'[c].got[k] = conns[c].got[k]
               \/ conns'[c].got[k] = Delivery(t, tk.event)
    BY <1>i, <1>4, DeliveringGot
  <2>6. Progress(t, tk.event, tk.index, tk.present) /\ tk.event \in Nat /\ tk.index \in Nat
    <3>1. tk.event \in 1 .. queued /\ tk.index \in 0 .. Len(clients)
      BY <2>2 DEF Ready, TaskType
    <3> QED BY <1>i, <2>2, <3>1, Typing DEF Ready
  <2>7. Progress(t, task[t].event, task[t].index, task[t].present)'
    <3>1. ASSUME NEW j \in Live, j > i
          PROVE  ~Has(clients[j].conn, task[t].event)'
      <4>1. clients[j].conn # clients[i].conn
        BY <1>i, <1>l, <3>1 DEF Table
      <4>2. ~Has(clients[j].conn, tk.event)
        BY <1>l, <2>2, <2>6, <3>1 DEF Progress
      <4>3. clients[j].conn \in DOMAIN conns
        BY <1>l
      <4> DEFINE c == clients[j].conn
      <4>4. ~Has(c, tk.event)'
        BY <2>4, <4>1, <4>2, <4>3, <2>1 DEF Has
      <4> QED BY <2>1, <2>3, <4>4 DEF Has
    <3>2. ASSUME NEW j \in Live, j <= i,
                 clients[j].conn \in tk.present, conns'[clients[j].conn].up
          PROVE  Has(clients[j].conn, task[t].event)'
      <4>1. clients[j].conn \in DOMAIN conns
        BY <1>l
      <4>2. CASE j <= tk.index
        <5>1. Has(clients[j].conn, tk.event)
          BY <2>1, <2>6, <3>2, <4>1, <4>2 DEF Progress
        <5> DEFINE c == clients[j].conn
        <5>2. Has(c, tk.event)'
          BY <2>1, <2>4, <4>1, <5>1 DEF Has
        <5> QED BY <2>1, <2>3, <5>2 DEF Has
      <4>3. CASE j > tk.index
        <5>1. j = i
          BY <1>l, <2>2, <3>2, <4>3
        <5>2. Has(clients[i].conn, tk.event)'
          BY <2>1, <3>2, <4>1, <5>1
        <5> QED BY <2>1, <2>3, <5>1, <5>2 DEF Has
      <4> QED BY <1>l, <2>6, <4>2, <4>3
    <3>3. ASSUME NEW c \in DOMAIN conns, NEW k \in DOMAIN conns'[c].got,
                 conns'[c].got[k].task = t
          PROVE  conns'[c].got[k].event <= tk.event
      <4>1. CASE k \in DOMAIN conns[c].got /\ conns'[c].got[k] = conns[c].got[k]
        BY <2>6, <3>3, <4>1 DEF Progress
      <4>2. CASE conns'[c].got[k] = Delivery(t, tk.event)
        BY <2>6, <4>2 DEF Delivery
      <4> QED BY <2>5, <4>1, <4>2
    <3> QED BY <2>1, <2>3, <3>1, <3>2, <3>3 DEF Progress
  <2>8. ASSUME NEW u \in Tasks \ {t}, Sending(u)'
        PROVE  Progress(u, task[u].event, task[u].index, task[u].present)'
    <3>1. task'[u] = task[u] /\ Sending(u)
      BY <2>3, <2>8 DEF Sending
    <3>2. Progress(u, task[u].event, task[u].index, task[u].present)
      BY <1>i, <3>1 DEF Sweeps
    <3>3. task[u].event # tk.event
      BY <2>2, <3>1 DEF Ready
    <3>4. \A c \in DOMAIN conns : Has(c, task[u].event)' <=> Has(c, task[u].event)
      <4> DEFINE e == task[u].event
      <4>1. e # tk.event
        BY <3>3
      <4>2. \A c \in DOMAIN conns :
              (\E k \in DOMAIN conns'[c].got : conns'[c].got[k].event = e) <=> Has(c, e)
        <5> HIDE DEF e
        <5> QED BY <2>9, <4>1
      <4> QED BY <3>1, <4>2 DEF Has
    <3>5. ASSUME NEW c \in DOMAIN conns, NEW k \in DOMAIN conns'[c].got,
                 conns'[c].got[k].task = u
          PROVE  conns'[c].got[k].event <= task[u].event
      <4>1. CASE k \in DOMAIN conns[c].got /\ conns'[c].got[k] = conns[c].got[k]
        BY <3>2, <3>5, <4>1 DEF Progress
      <4>2. CASE conns'[c].got[k] = Delivery(t, tk.event)
        BY <2>8, <3>5, <4>2 DEF Delivery
      <4> QED BY <2>5, <4>1, <4>2
    <3>6. ASSUME NEW j \in Live, j > task[u].index
          PROVE  ~Has(clients[j].conn, task[u].event)'
      BY <1>l, <2>1, <3>2, <3>4, <3>6 DEF Progress, Has
    <3>7. ASSUME NEW j \in Live, j <= task[u].index,
                 clients[j].conn \in task[u].present, conns'[clients[j].conn].up
          PROVE  Has(clients[j].conn, task[u].event)'
      BY <1>l, <2>1, <3>2, <3>4, <3>7 DEF Progress, Has
    <3> QED BY <2>1, <3>1, <3>5, <3>6, <3>7 DEF Progress
  <2> QED BY <2>7, <2>8 DEF Sweeps
<1> QED BY <1>1, <1>2, <1>3, <1>4, Kinds

LEMMA ReachableKept ==
  ASSUME BroadcastInv, BroadcastNext
  PROVE  Reachable'
<1>i. BroadcastTypeOK /\ Table /\ Reachable
  BY DEF BroadcastInv
<1>l. \A c \in Registered : \E i \in Live : clients[i].conn = c /\ clients[i].id = conns[c].id
  BY <1>i DEF Registered, Table
<1>1. ASSUME NEW id \in ClientIds, Connect(id) PROVE Reachable'
  <2>1. /\ DOMAIN conns' = DOMAIN conns \cup {Len(conns) + 1}
        /\ Len(conns) + 1 \notin DOMAIN conns
        /\ \A c \in DOMAIN conns : conns'[c] = conns[c]
        /\ conns'[Len(conns) + 1].id = id
    BY <1>i, <1>1, ConnectGot
  <2>2. PICK n \in Live' :
          /\ clients'[n].conn = Len(conns) + 1 /\ clients'[n].id = id
          /\ \A i \in Live' : i # n => i \in Live /\ clients'[i] = clients[i]
          /\ \A i \in Live : i # n => i \in Live'
          /\ \A i \in DOMAIN clients : clients'[i].id = clients[i].id
    BY <1>i, <1>1, ConnectTable
  <2>3. ASSUME NEW c \in DOMAIN conns, conns[c].handler # "over", conns[c].up, Alone(c)'
        PROVE  c \in Registered'
    <3>1. conns[c].id # id
      BY <2>1, <2>3 DEF Alone
    <3>2. Alone(c)
      BY <2>1, <2>3 DEF Alone
    <3>3. PICK i \in Live : clients[i].conn = c /\ clients[i].id = conns[c].id
      BY <1>i, <1>l, <2>3, <3>2 DEF Reachable
    <3>4. i # n /\ i \in Live'
      BY <1>i, <2>2, <3>1, <3>3, LiveTyping
    <3> QED BY <2>2, <3>3, <3>4 DEF Registered
  <2>4. Len(conns) + 1 \in Registered'
    BY <2>2 DEF Registered
  <2> QED BY <2>1, <2>3, <2>4 DEF Reachable
<1>2. CASE QueueEvent
  <2>1. UNCHANGED <<clients, conns>>
    BY <1>2 DEF QueueEvent
  <2> QED BY <1>i, <2>1 DEF Reachable, Alone, Registered, Live
<1>3. CASE Settling
  <2>1. /\ Live' \subseteq Live
        /\ \A i \in Live' : clients'[i].conn = clients[i].conn
        /\ \A i \in Live \ Live' : Lost(clients[i].id)
        /\ DOMAIN conns' = DOMAIN conns
    BY <1>i, <1>3, SettlingEffect
  <2>2. \A c \in DOMAIN conns :
          /\ conns'[c].id = conns[c].id
          /\ conns'[c].up => conns[c].up
          /\ conns'[c].handler # "over" => conns[c].handler # "over"
    BY <1>3 DEF Settling, ConnsSettle
  <2>3. ASSUME NEW c \in DOMAIN conns, conns'[c].handler # "over", conns'[c].up, Alone(c)'
        PROVE  c \in Registered'
    <3>1. Alone(c) /\ conns[c].up
      BY <2>1, <2>2, <2>3 DEF Alone
    <3>2. PICK i \in Live : clients[i].conn = c /\ clients[i].id = conns[c].id
      BY <1>i, <1>l, <2>2, <2>3, <3>1 DEF Reachable
    <3>3. ~Lost(clients[i].id)
      BY <3>1, <3>2 DEF Lost, Alone
    <3> QED BY <2>1, <3>2, <3>3 DEF Registered
  <2> QED BY <2>1, <2>3 DEF Reachable
<1>4. ASSUME NEW t \in Tasks, NEW tk \in TaskType, NEW i \in Live, Delivering(t, tk, i)
      PROVE  Reachable'
  <2>1. /\ DOMAIN conns' = DOMAIN conns
        /\ \A c \in DOMAIN conns : /\ conns'[c].id = conns[c].id
                                   /\ conns'[c].up = conns[c].up
                                   /\ conns'[c].handler = conns[c].handler
        /\ clients' = clients
    BY <1>i, <1>4, DeliveringEffect DEF Delivering
  <2>2. \A c \in DOMAIN conns : Alone(c)' <=> Alone(c)
    BY <2>1 DEF Alone
  <2>3. Registered' = Registered
    BY <2>1 DEF Registered, Live
  <2> QED BY <1>i, <2>1, <2>2, <2>3 DEF Reachable
<1> QED BY <1>1, <1>2, <1>3, <1>4, Kinds

LEMMA DeliveredKept ==
  ASSUME BroadcastInv, BroadcastNext
  PROVE  DeliveredInOrder'
<1>i. BroadcastTypeOK /\ Table /\ DeliveredInOrder
  BY DEF BroadcastInv
<1> DEFINE InOrder(got) ==
      \A i, j \in DOMAIN got : i < j => /\ got[i].event # got[j].event
                                        /\ got[i].task = got[j].task => got[i].event < got[j].event
<1>d. \A c \in DOMAIN conns : InOrder(conns[c].got)
  BY <1>i DEF DeliveredInOrder
<1>g. (\A c \in DOMAIN conns' : InOrder(conns'[c].got)) => DeliveredInOrder'
  BY DEF DeliveredInOrder
<1>1. ASSUME NEW id \in ClientIds, Connect(id) PROVE DeliveredInOrder'
  <2>1. /\ DOMAIN conns' = DOMAIN conns \cup {Len(conns) + 1}
        /\ \A c \in DOMAIN conns : conns'[c] = conns[c]
        /\ DOMAIN conns'[Len(conns) + 1].got = {}
    BY <1>i, <1>1, ConnectGot
  <2>2. InOrder(conns'[Len(conns) + 1].got)
    BY <2>1
  <2>3. \A c \in DOMAIN conns : InOrder(conns'[c].got)
    <3> HIDE DEF InOrder
    <3> QED BY <1>d, <2>1
  <2> HIDE DEF InOrder
  <2> QED BY <1>g, <2>1, <2>2, <2>3
<1>2. CASE QueueEvent
  <2>1. conns' = conns
    BY <1>2 DEF QueueEvent
  <2> QED BY <1>i, <2>1 DEF DeliveredInOrder
<1>3. CASE Settling
  <2>1. DOMAIN conns' = DOMAIN conns /\ \A c \in DOMAIN conns : conns'[c].got = conns[c].got
    BY <1>i, <1>3, SettlingEffect DEF Settling, ConnsSettle
  <2> HIDE DEF InOrder
  <2> QED BY <1>d, <1>g, <2>1
<1>4. ASSUME NEW t \in Tasks, NEW tk \in TaskType, NEW i \in Live, Delivering(t, tk, i)
      PROVE  DeliveredInOrder'
  <2>1. DOMAIN conns' = DOMAIN conns /\ Ready(t, tk) /\ i > tk.index
    BY <1>i, <1>4, DeliveringEffect DEF Delivering
  <2>2. Progress(t, tk.event, tk.index, tk.present) /\ tk.event \in Nat
    <3>1. tk.event \in 1 .. queued
      BY <2>1 DEF Ready
    <3> QED BY <1>i, <2>1, <3>1, Typing DEF Ready
  <2>3. ~Has(clients[i].conn, tk.event)
    BY <2>1, <2>2 DEF Progress
  <2>4. ASSUME NEW c \in DOMAIN conns, NEW k \in DOMAIN conns[c].got
        PROVE  conns[c].got[k].event \in Nat /\ k \in 1 .. Len(conns[c].got)
               /\ Len(conns[c].got) \in Nat
    BY <1>i, GotTyping
  <2>5. ASSUME NEW c \in DOMAIN conns,
               NEW j \in DOMAIN conns'[c].got, NEW k \in DOMAIN conns'[c].got, j < k
        PROVE  /\ conns'[c].got[j].event # conns'[c].got[k].event
               /\ conns'[c].got[j].task = conns'[c].got[k].task
                    => conns'[c].got[j].event < conns'[c].got[k].event
    <3>1. ASSUME NEW n \in DOMAIN conns'[c].got
          PROVE  \/ n \in DOMAIN conns[c].got /\ conns'[c].got[n] = conns[c].got[n]
                 \/ /\ n = Len(conns[c].got) + 1
                    /\ conns'[c].got[n] = Delivery(t, tk.event)
                    /\ c = clients[i].conn
      BY <1>i, <1>4, DeliveringGot
    <3>2. CASE /\ k \in DOMAIN conns[c].got /\ conns'[c].got[k] = conns[c].got[k]
               /\ j \in DOMAIN conns[c].got /\ conns'[c].got[j] = conns[c].got[j]
      BY <1>d, <2>5, <3>2
    <3>3. CASE /\ k = Len(conns[c].got) + 1
               /\ conns'[c].got[k] = Delivery(t, tk.event)
               /\ c = clients[i].conn
      <4>1. j \in DOMAIN conns[c].got /\ conns'[c].got[j] = conns[c].got[j]
        <5>1. j # k
          <6>1. k \in Nat
            BY <1>i, <3>3, GotTyping
          <6> QED BY <2>5, <6>1
        <5> QED BY <3>1, <3>3, <5>1
      <4>2. conns[c].got[j].event # tk.event
        BY <2>3, <3>3, <4>1 DEF Has
      <4>3. conns[c].got[j].task = t => conns[c].got[j].event <= tk.event
        BY <2>2, <4>1 DEF Progress
      <4>4. conns[c].got[j].event \in Nat
        BY <2>4, <4>1
      <4>5. conns[c].got[j].task = t => conns[c].got[j].event < tk.event
        BY <2>2, <4>2, <4>3, <4>4
      <4> QED BY <3>3, <4>1, <4>2, <4>5 DEF Delivery
    <3>4. CASE /\ k \in DOMAIN conns[c].got
               /\ j = Len(conns[c].got) + 1
      BY <2>4, <2>5, <3>4
    <3> QED BY <3>1, <3>2, <3>3, <3>4
  <2> QED BY <1>g, <2>1, <2>5
<1> QED BY <1>1, <1>2, <1>3, <1>4, Kinds
-----------------------------------------------------------------------------
LEMMA BroadcastAtStart == BroadcastInit => BroadcastInv
<1> SUFFICES ASSUME BroadcastInit PROVE BroadcastInv
  OBVIOUS
<1>1. /\ clients = <<>> /\ conns = <<>> /\ queue = <<>> /\ direct = {} /\ queued = 0
      /\ running = TRUE /\ serving = TRUE /\ task = [t \in Tasks |-> Idle]
  BY DEF BroadcastInit
<1>2. DOMAIN clients = {} /\ DOMAIN conns = {} /\ DOMAIN queue = {} /\ Live = {}
      /\ Len(clients) = 0 /\ Len(conns) = 0
  BY <1>1 DEF Live
<1>3. \A t \in Tasks : task[t].pc = "idle" /\ task[t].gone = {} /\ ~Sending(t)
  BY <1>1 DEF Idle, Sending
<1>4. BroadcastTypeOK
  <2>1. Idle \in TaskType
    BY <1>1, <1>2 DEF Idle, TaskType
  <2>2. clients \in Seq(ClientType) /\ conns \in Seq(ConnType) /\ queue \in Seq(1 .. queued)
    BY <1>1
  <2>3. queued \in 0 .. MaxEvents
    BY <1>1, BroadcastAssumption
  <2> QED BY <1>1, <2>1, <2>2, <2>3 DEF BroadcastTypeOK
<1>5. Table
  BY <1>2 DEF Table
<1>6. Pending
  BY <1>1, <1>3 DEF Pending
<1>7. Order
  BY <1>2, <1>3 DEF Order
<1>8. Sweeps
  BY <1>3 DEF Sweeps
<1>9. Reachable /\ DeliveredInOrder
  BY <1>2 DEF Reachable, DeliveredInOrder
<1> QED BY <1>4, <1>5, <1>6, <1>7, <1>8, <1>9 DEF BroadcastInv

LEMMA BroadcastStutters == BroadcastInv /\ UNCHANGED broadcastVars => BroadcastInv'
<1> SUFFICES ASSUME BroadcastInv, UNCHANGED broadcastVars PROVE BroadcastInv'
  OBVIOUS
<1>1. /\ running' = running /\ serving' = serving /\ clients' = clients /\ conns' = conns
      /\ queued' = queued /\ queue' = queue /\ task' = task /\ direct' = direct
  BY DEF broadcastVars
<1>2. BroadcastTypeOK' /\ Table' /\ Pending'
  BY <1>1 DEF BroadcastInv, BroadcastTypeOK, ClientType, ConnType, TaskType, Table, Pending,
              Lost, Sending, Live
<1>3. Order' /\ Sweeps'
  BY <1>1 DEF BroadcastInv, Order, Sweeps, Progress, Has, Sending, Live
<1>4. Reachable' /\ DeliveredInOrder'
  BY <1>1 DEF BroadcastInv, Reachable, DeliveredInOrder, Alone, Registered, Live
<1> QED BY <1>2, <1>3, <1>4 DEF BroadcastInv

LEMMA BroadcastKept == BroadcastInv /\ [BroadcastNext]_broadcastVars => BroadcastInv'
<1>1. ASSUME BroadcastInv, BroadcastNext PROVE BroadcastInv'
  BY <1>1, TypesKept, TableKept, PendingKept, OrderKept, SweepsKept, ReachableKept,
     DeliveredKept DEF BroadcastInv
<1> QED BY <1>1, BroadcastStutters

(* BroadcastInv holds of every state that the server reaches.               *)
THEOREM BroadcastInvariance == BroadcastSpec => []BroadcastInv
BY BroadcastAtStart, BroadcastKept, PTL DEF BroadcastSpec

(* The types of the variables are what they should be.                      *)
THEOREM BroadcastTypeCorrectness == BroadcastSpec => []BroadcastTypeOK
<1>1. BroadcastInv => BroadcastTypeOK
  BY DEF BroadcastInv
<1> QED BY <1>1, BroadcastInvariance, PTL

(* Each connection is sent the events of a task in the order in which they  *)
(* were queued, and no event twice, whatever joins and leaves do to the     *)
(* table that process_queue and the driver walk over.                       *)
THEOREM EventsAreSentInOrder == BroadcastSpec => []DeliveredInOrder
<1>1. BroadcastInv => DeliveredInOrder
  BY DEF BroadcastInv
<1> QED BY <1>1, BroadcastInvariance, PTL

(* No clean-up, of a handler, of a broadcast or of send_to_client, takes an *)
(* open client whose id is its own out of the table.                        *)
THEOREM NobodyElseIsUnregistered == BroadcastSpec => []ReachableUnlessReconnected
<1>1. BroadcastInv => ReachableUnlessReconnected
  BY DEF BroadcastInv, Reachable, Alone, ReachableUnlessReconnected
<1> QED BY <1>1, BroadcastInvariance, PTL

(* A turn of a broadcast after which its task is idle found nothing ahead.  *)
LEMMA NothingAhead ==
  ASSUME BroadcastTypeOK, NEW t \in Tasks, NEW tk \in TaskType, Advance(t, tk), task'[t].pc = "idle"
  PROVE  \A i \in Live : ~(i > tk.index)
<1>1. task \in [Tasks -> TaskType]
  BY DEF BroadcastTypeOK
<1>2. CASE task' = [task EXCEPT ![t] = [Idle EXCEPT !.pc = "dead"]]
  BY <1>1, <1>2 DEF Idle
<1>3. ASSUME NEW i, NEW c,
             task' = [task EXCEPT ![t] = [tk EXCEPT !.pc = "sending", !.index = i, !.conn = c]]
      PROVE  FALSE
  <2>1. [tk EXCEPT !.pc = "sending", !.index = i, !.conn = c].pc = "sending"
    BY DEF TaskType
  <2> QED BY <1>1, <1>3, <2>1
<1>4. CASE {i \in Live : i > tk.index} = {}
  BY <1>4
<1> QED BY <1>2, <1>3, <1>4 DEF Advance

LEMMA FullSweep ==
  ASSUME BroadcastInv, NEW t \in Tasks, Sent(t), task'[t].pc = "idle",
         NEW c \in task[t].present \cap Registered, conns[c].up
  PROVE  Has(c, task[t].event)
<1> DEFINE tk == task[t]
           failed == [tk EXCEPT !.gone = @ \cup {clients[tk.index].id}]
<1>i. BroadcastTypeOK /\ Pending /\ Sweeps
  BY DEF BroadcastInv
<1>1. tk \in TaskType /\ Sending(t) /\ tk.index \in Nat
  BY <1>i, Typing DEF Sent, Sending, TaskType
<1>2. failed \in TaskType /\ failed.index = tk.index
  <2>1. clients[tk.index].id \in ClientIds
    BY <1>i, <1>1, Typing DEF Pending, ClientType
  <2> QED BY <1>1, <2>1 DEF TaskType
<1>3. \A i \in Live : ~(i > tk.index)
  <2>1. Advance(t, tk) \/ Advance(t, failed)
    BY DEF Sent
  <2> HIDE DEF tk, failed
  <2> QED BY <1>i, <1>1, <1>2, <2>1, NothingAhead
<1>4. Progress(t, tk.event, tk.index, tk.present)
  BY <1>i, <1>1 DEF Sweeps
<1>5. PICK i \in Live : clients[i].conn = c
  BY DEF Registered
<1>6. i <= tk.index
  BY <1>i, <1>1, <1>3, LiveTyping, Typing
<1> QED BY <1>4, <1>5, <1>6 DEF Progress

(* A broadcast that gets to its end has skipped no open connection that was *)
(* registered when it began and still is, wherever joins and leaves have    *)
(* put it in the table meanwhile.                                           *)
THEOREM NobodySkipped == BroadcastSpec => NobodyIsSkipped
<1> DEFINE Complete ==
      \A t \in Tasks :
        task[t].pc = "sending" /\ task'[t].pc = "idle" =>
          \A c \in task[t].present \cap Registered :
            conns[c].up => Has(c, task[t].event)
<1>1. ASSUME BroadcastInv, BroadcastNext,
             NEW t \in Tasks, task[t].pc = "sending", task'[t].pc = "idle"
      PROVE  Sent(t)
  <2>1. CASE task' = task
    BY <1>1, <2>1
  <2>2. CASE \E u \in Tasks : Process(u) \/ Sent(u)
    <3>1. PICK u \in Tasks : Process(u) \/ Sent(u)
      BY <2>2
    <3>2. task \in [Tasks -> TaskType]
      BY <1>1 DEF BroadcastInv, BroadcastTypeOK
    <3>3. ASSUME NEW tk, Advance(u, tk), u # t
          PROVE  task'[t] = task[t]
      BY <3>2, <3>3 DEF Advance
    <3>4. u = t
      BY <1>1, <3>1, <3>3 DEF Process, Sent
    <3> QED BY <1>1, <3>1, <3>4 DEF Process
  <2>3. CASE \/ \E c \in DOMAIN conns : Welcomed(c) \/ WelcomeFails(c) \/ Drop(c) \/ Leave(c)
             \/ \E i \in DOMAIN clients : SendToClient(i)
             \/ \E d \in direct : SentToClient(d)
             \/ StopServer
             \/ CloseServer
    BY <1>1, <2>1, <2>3, QuietSteps DEF BroadcastInv, Quiet
  <2>4. CASE QueueEvent \/ \E id \in ClientIds : Connect(id)
    BY <2>1, <2>4 DEF QueueEvent, Connect
  <2> QED BY <1>1, <2>2, <2>3, <2>4 DEF BroadcastNext
<1>2. BroadcastInv /\ [BroadcastNext]_broadcastVars => [Complete]_broadcastVars
  <2>1. ASSUME BroadcastInv, BroadcastNext PROVE Complete
    <3> SUFFICES ASSUME NEW t \in Tasks, task[t].pc = "sending", task'[t].pc = "idle",
                        NEW c \in task[t].present \cap Registered, conns[c].up
                 PROVE  Has(c, task[t].event)
      OBVIOUS
    <3> QED BY <1>1, <2>1, FullSweep
  <2> QED BY <2>1
<1>3. [][Complete]_broadcastVars => NobodyIsSkipped
  BY PTL DEF NobodyIsSkipped
<1> QED BY <1>2, <1>3, BroadcastInvariance, PTL DEF BroadcastSpec
=============================================================================
