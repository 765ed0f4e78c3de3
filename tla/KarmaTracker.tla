----------------------------- MODULE KarmaTracker -----------------------------
(***************************************************************************)
(* The karma tracker's server: requests that run at the same time, on the  *)
(* four worker processes of its Dockerfile and the threads of each, and    *)
(* share the documents of one MongoDB database.  Every access of a handler *)
(* to the database is one step; what a handler has read stays in its       *)
(* request while other requests write.                                     *)
(***************************************************************************)
EXTENDS KarmaRules, SequencesExt

CONSTANTS Users,        \* the identifiers that users may have
          NoUser,       \* an absent user or successor
          InitialUsers, \* the users that exist at the start
          OpeningBalances, \* their balances then
          Workloads     \* the bounds of a behaviour, see WorkloadAssumption

ASSUME UsersAssumption == NoUser \notin Users /\ InitialUsers \subseteq Users
ASSUME OpeningAssumption == OpeningBalances \in [Tokens -> Int]

(* The calls of the routes that the gateway maps to, of the routes of       *)
(* karma.py, and of the others (v1 of the interface).                       *)
GatewayOps == {"log", "submit", "appeal", "death", "view", "unknown"}
ApiOps == {"apiLog", "apiSubmit", "profile"}
RouteOps == {"log", "submit", "appeal", "death", "view", "redeem", "prarabdha", "createDebt",
             "repay", "transfer", "process", "rebirth"}
Operations == GatewayOps \cup ApiOps \cup RouteOps

(* What a call is: who makes it by which way, and what it is about.  The    *)
(* other party may be absent only where it is optional, and redeem refuses  *)
(* other tokens at once.                                                    *)
IsCall(c) ==
  /\ DOMAIN c = {"op", "via", "user", "other", "what", "id", "n"}
  /\ c.user \in Users /\ c.other \in Users \cup {NoUser} /\ c.n \in Int
  /\ \/ c.via = "gateway" /\ c.op \in GatewayOps
     \/ c.via = "api" /\ c.op \in ApiOps
     \/ c.via = "v1" /\ c.op \in RouteOps
  /\ c.op \in {"createDebt", "transfer"} => c.other \in Users
  /\ c.op = "redeem" => c.what \in Tokens

(* A workload bounds a behaviour: the calls that are made, how many, how   *)
(* many at a time, how many fail, and which of the first users' documents  *)
(* have a last_decay, as create_user_if_missing gives them and the life    *)
(* cycle's simulations do not.                                             *)
ASSUME WorkloadAssumption ==
  \A w \in Workloads : /\ DOMAIN w = {"kinds", "calls", "parallel", "faults", "dated"}
                       /\ \A c \in w.kinds : IsCall(c)
                       /\ {w.calls, w.parallel, w.faults} \subseteq Nat
                       /\ w.dated \subseteq InitialUsers

VARIABLES users,     \* the users collection
          plans,     \* the atonements collection, in insertion order
          debts,     \* the rnanubandhan_relationships collection
          txs,       \* the transactions collection
          deaths,    \* the death_events collection
          events,    \* the karma_events collection: statuses by request
          req,       \* the requests, finished ones included
          load       \* the workload of this behaviour

vars == <<users, plans, debts, txs, deaths, events, req, load>>

NoDoc == [exists |-> FALSE]

(* A user's document.  "last_decay" is what a reader of the document gets: *)
(* the client of database.py is not tz_aware, so a stored date is read     *)
(* back naive, and a document of rebirth_user has none; "aware" is only    *)
(* the copy of the request that makes the document.  "cheats" tells        *)
(* whether the cheat history has an entry; "born", the balances it was     *)
(* inserted with, is kept for the properties only.                         *)
NewDoc(bal, role, last_decay) ==
  [exists |-> TRUE, bal |-> bal, born |-> bal, role |-> role, last_decay |-> last_decay,
   cheats |-> FALSE, dead |-> FALSE, prev |-> NoUser, rebirths |-> 0]
(* the count of the lives before it is not carried over *)
RebornDocFault(u, doc) ==
  LET inherited == Inheritance(doc.bal)
  IN  [NewDoc(Only("SanchitaKarma", inherited), StartingLevel(inherited), "absent")
         EXCEPT !.prev = u, !.rebirths = 1]
RebornDoc(u, doc) ==
  LET inherited == Inheritance(doc.bal)
  IN  [NewDoc(Only("SanchitaKarma", inherited), StartingLevel(inherited), "absent")
         EXCEPT !.prev = u, !.rebirths = doc.rebirths + 1]

(* A request: its call, where it stands, the document it works on, the     *)
(* writes it has made, and a number it has computed (the count of a user's *)
(* plans, the position of a plan).  It ends done, rejected for its         *)
(* contents, raised by an exception of the handler's own, or failed.       *)
NewRequest(c) == [call |-> c, pc |-> "received", doc |-> NoDoc, wrote |-> {}, mark |-> 0]
Slots == DOMAIN req
Finished == {"done", "rejected", "raised", "failed"}
InFlight == {s \in Slots : req[s].pc \notin Finished}
Failures == {r \in Slots : req[r].pc = "failed" \/ "noTx" \in req[r].wrote}
Goto(s, pc) == req' = [req EXCEPT ![s].pc = pc]
Read(s, doc, pc) == req' = [req EXCEPT ![s].doc = doc, ![s].pc = pc]
Wrote(s, what, pc) == req' = [req EXCEPT ![s].wrote = @ \cup {what}, ![s].pc = pc]
At(s, pc, ops) == req[s].pc = pc /\ req[s].call.op \in ops

(* Balances are incremented in the database, or written whole from the     *)
(* request's copy over what other requests may have added since.           *)
IncBalances(u, gain) == users' = [users EXCEPT ![u].bal = Plus(@, gain)]
SetBalances(u, bal) == users' = [users EXCEPT ![u].bal = bal]

(***************************************************************************)
(* Beginning a request                                                     *)
(***************************************************************************)
(* a request that no audit slot was made for *)
CallFault ==
  /\ Len(req) < load.calls
  /\ Cardinality(InFlight) < load.parallel
  /\ \E c \in load.kinds : req' = Append(req, NewRequest(c))
  /\ UNCHANGED <<users, plans, debts, txs, deaths, events, load>>
Call ==
  /\ Len(req) < load.calls
  /\ Cardinality(InFlight) < load.parallel
  /\ \E c \in load.kinds : req' = Append(req, NewRequest(c))
  /\ events' = Append(events, <<>>)
  /\ UNCHANGED <<users, plans, debts, txs, deaths, load>>

(* a refused request leaves its record as it was *)
FinishFault(s, how) ==
  /\ Goto(s, how)
  /\ events' = IF req[s].call.via = "gateway"
               THEN [events EXCEPT ![s] = Append(@, IF how = "done" THEN "processed" ELSE "failed")]
               ELSE IF events[s] = <<>> \/ how = "rejected" THEN events
               ELSE [events EXCEPT ![s] = <<IF how = "done" THEN "completed" ELSE "failed">>]

(* How a request ends, and the audit record the gateway writes only then.  *)
Finish(s, how) ==
  /\ Goto(s, how)
  /\ events' = IF req[s].call.via = "gateway"
               THEN [events EXCEPT ![s] = Append(@, IF how = "done" THEN "processed" ELSE "failed")]
               ELSE IF events[s] = <<>> THEN events
               ELSE [events EXCEPT ![s] = <<IF how = "done" THEN "completed" ELSE "failed">>]

(* unified_event_endpoint with a type it does not know: the record is      *)
(* inserted before the exception is raised and again when it is caught.    *)
UnknownEvent(s) ==
  /\ At(s, "received", {"unknown"})
  /\ events' = [events EXCEPT ![s] = @ \o <<"failed", "failed">>]
  /\ Goto(s, "rejected")
  /\ UNCHANGED <<users, plans, debts, txs, deaths, load>>

(***************************************************************************)
(* Reading the user                                                        *)
(***************************************************************************)
Logs == {"log", "apiLog"}

(* The routes of karma.py record the request before they do anything.      *)
RecordRequest(s) ==
  /\ At(s, "received", ApiOps)
  /\ events' = [events EXCEPT ![s] = <<"processing">>]
  /\ Goto(s, IF req[s].call.op = "apiSubmit" THEN "proof" ELSE "read")
  /\ UNCHANGED <<users, plans, debts, txs, deaths, load>>

Readers == {"log", "redeem", "view", "prarabdha", "appeal", "rebirth"}
AfterRead == [log |-> "decay", apiLog |-> "decay", redeem |-> "decay", view |-> "decay",
              profile |-> "decay", apiSubmit |-> "decay", prarabdha |-> "set",
              appeal |-> "count", rebirth |-> "insert"]

ValidAction(c) == c.op = "log" => c.what \in ActionNames
ReadUser(s) ==
  LET c == req[s].call  u == c.user
  IN  /\ \/ At(s, "received", Readers) \/ At(s, "read", ApiOps)
      /\ \/ /\ ValidAction(c) /\ users[u].exists
            /\ Read(s, users[u], AfterRead[c.op])
            /\ UNCHANGED events
         \/ /\ ValidAction(c) /\ ~users[u].exists /\ c.op \in Logs
            /\ Read(s, NoDoc, "create")
            /\ UNCHANGED events
         \/ /\ ~ValidAction(c) \/ (~users[u].exists /\ c.op \notin Logs)
            /\ Finish(s, "rejected")
      /\ UNCHANGED <<users, plans, debts, txs, deaths, load>>

(* create_user_if_missing reads again and inserts.  The collection has no  *)
(* unique index: a second document of the same user is inserted but never  *)
(* found, and its request goes on with a fresh copy of its own.            *)
CheckAgain(s) ==
  /\ At(s, "create", Logs)
  /\ IF users[req[s].call.user].exists
     THEN Read(s, users[req[s].call.user], "decay")
     ELSE Goto(s, "insertUser")
  /\ UNCHANGED <<users, plans, debts, txs, deaths, events, load>>

InsertUser(s) ==
  LET u == req[s].call.user
      fresh(last_decay) == NewDoc(Nothing, "learner", last_decay)
  IN  /\ At(s, "insertUser", Logs)
      /\ users' = IF users[u].exists THEN users ELSE [users EXCEPT ![u] = fresh("naive")]
      /\ Read(s, fresh("aware"), "decay")
      /\ UNCHANGED <<plans, debts, txs, deaths, events, load>>

(* Every route that shows a balance applies decay and expiry first.  The   *)
(* time since a stored last_decay cannot be computed: aware and naive      *)
(* datetimes do not subtract, and the handler ends there.  The time since  *)
(* the date of a document just made can, and so can that of a document     *)
(* without one, which counts as now: then no time has passed, and nothing  *)
(* happens, or some, and the whole balances, read some steps ago, are      *)
(* written with a last_decay; nothing has decayed in so short a time.      *)
AfterDecay == [log |-> "update", apiLog |-> "update", redeem |-> "check", view |-> "done",
               profile |-> "done", apiSubmit |-> "learn"]
GoOn(s, copy) ==
  LET next == AfterDecay[req[s].call.op]
  IN  IF next = "done" THEN Finish(s, "done") ELSE Read(s, copy, next) /\ UNCHANGED events
ApplyDecayAndExpiry(s) ==
  LET u == req[s].call.user  doc == req[s].doc
  IN  /\ req[s].pc = "decay"
      /\ \/ /\ doc.last_decay = "naive"
            /\ Finish(s, "raised") /\ UNCHANGED users
         \/ /\ doc.last_decay # "naive"
            /\ users' = [users EXCEPT ![u].bal = doc.bal, ![u].last_decay = "naive"]
            /\ GoOn(s, [doc EXCEPT !.last_decay = "aware"])
         \/ /\ doc.last_decay # "naive"
            /\ GoOn(s, doc) /\ UNCHANGED users
      /\ UNCHANGED <<plans, debts, txs, deaths, load>>

(***************************************************************************)
(* log_action of routes/v1 ("log") and of routes/karma.py ("apiLog")       *)
(***************************************************************************)
IsCheat(c) == c.op = "log" /\ c.what = "cheat"
LogGain(c) ==
  CASE IsCheat(c) -> Only("DharmaPoints", -CheatPenalty)
    [] c.what \in GoodActions -> Only(REWARD_MAP[c.what].token, REWARD_MAP[c.what].value)
    [] OTHER -> Nothing

(* The $inc of the reward or of the punishment, which replaces the cheat   *)
(* history by what is left of it and this cheat.  The age of an entry that *)
(* was read cannot be computed either, so that a second cheat raises and   *)
(* every punishment is that of the first.                                  *)
UpdateBalance(s) ==
  LET c == req[s].call  unreadable == IsCheat(c) /\ req[s].doc.cheats
  IN  /\ At(s, "update", Logs)
      /\ \/ /\ unreadable
            /\ Finish(s, "raised") /\ UNCHANGED users
         \/ /\ ~unreadable
            /\ users' = [users EXCEPT ![c.user].bal = Plus(@, LogGain(c)),
                                      ![c.user].cheats = @ \/ IsCheat(c)]
            /\ req' = [req EXCEPT ![s].doc.bal = Plus(@, LogGain(c)),
                                  ![s].wrote = @ \cup {"update"},
                                  ![s].pc = IF c.op = "log" THEN "reread"
                                            ELSE IF IsPaap(c.what) THEN "paap" ELSE "advance"]
            /\ UNCHANGED events
      /\ UNCHANGED <<plans, debts, txs, deaths, load>>

(* karma.py adds the paap to its own copy and writes the copy whole.       *)
ApplyPaap(s) ==
  LET c == req[s].call
      bal == Plus(req[s].doc.bal, PaapGain(c.what, NegativeImpact(c.what)))
  IN  /\ At(s, "paap", {"apiLog"})
      /\ SetBalances(c.user, bal)
      /\ req' = [req EXCEPT ![s].doc.bal = bal, ![s].wrote = @ \cup {"paap"}, ![s].pc = "advance"]
      /\ UNCHANGED <<plans, debts, txs, deaths, events, load>>

UpdateAdvancedKarma(s) ==
  /\ At(s, "advance", {"apiLog"})
  /\ IncBalances(req[s].call.user, AdvancedChange(req[s].call.what))
  /\ Wrote(s, "advance", "role")
  /\ UNCHANGED <<plans, debts, txs, deaths, events, load>>

(* log_action of v1 and the atonement routes read the user again before    *)
(* they recompute the role; karma.py's log_action uses its own copy.       *)
Reread(s) ==
  /\ At(s, "reread", {"log", "apiSubmit"})
  /\ Read(s, users[req[s].call.user], "role")
  /\ UNCHANGED <<users, plans, debts, txs, deaths, events, load>>

SetRole(s) ==
  /\ At(s, "role", Logs \cup {"apiSubmit"})
  /\ users' = [users EXCEPT ![req[s].call.user].role = RoleOf(Merit(req[s].doc.bal))]
  /\ Wrote(s, "role", "transaction")
  /\ UNCHANGED <<plans, debts, txs, deaths, events, load>>

(* log_transaction: the transaction is inserted, the push to the history   *)
(* that nothing reads always fails, and log_action of v1 ignores the       *)
(* exception, as it does when the insertion fails.                         *)
OwesForCheat(c) == IsCheat(c) /\ c.other \notin {NoUser, c.user}
AfterTransaction(s) ==
  IF OwesForCheat(req[s].call) THEN Goto(s, "debt") /\ UNCHANGED events ELSE Finish(s, "done")
LogTransaction(s) ==
  /\ At(s, "transaction", Logs \cup {"apiSubmit", "redeem"})
  /\ txs' = txs \cup {[slot |-> s, what |-> "action"]}
  /\ AfterTransaction(s)
  /\ UNCHANGED <<users, plans, debts, deaths, load>>
TransactionFails(s) ==
  /\ At(s, "transaction", {"log"})
  /\ Cardinality(Failures) < load.faults
  /\ Wrote(s, "noTx", IF OwesForCheat(req[s].call) THEN "debt" ELSE "done")
  /\ events' = IF req[s].call.via = "gateway" /\ ~OwesForCheat(req[s].call)
               THEN [events EXCEPT ![s] = Append(@, "processed")] ELSE events
  /\ UNCHANGED <<users, plans, debts, txs, deaths, load>>

(***************************************************************************)
(* redeem: the balance is checked in the request's copy                    *)
(***************************************************************************)
(* the balances are written whole *)
RedeemFault(s) ==
  LET c == req[s].call
  IN  /\ At(s, "check", {"redeem"})
      /\ IF req[s].doc.bal[c.what] >= c.n /\ c.n > 0
         THEN /\ users' = [users EXCEPT ![c.user].bal = Plus(req[s].doc.bal, Only(c.what, -c.n))]
              /\ Wrote(s, "redeem", "transaction")
              /\ UNCHANGED events
         ELSE Finish(s, "rejected") /\ UNCHANGED users
      /\ UNCHANGED <<plans, debts, txs, deaths, load>>

Redeem(s) ==
  LET c == req[s].call
  IN  /\ At(s, "check", {"redeem"})
      /\ IF req[s].doc.bal[c.what] >= c.n /\ c.n > 0
         THEN /\ IncBalances(c.user, Only(c.what, -c.n))
              /\ Wrote(s, "redeem", "transaction")
              /\ UNCHANGED events
         ELSE Finish(s, "rejected") /\ UNCHANGED users
      /\ UNCHANGED <<plans, debts, txs, deaths, load>>

(***************************************************************************)
(* The Prarabdha counter: read, then set                                   *)
(***************************************************************************)
UpdatePrarabdha(s) ==
  LET c == req[s].call  seen == req[s].doc.bal["PrarabdhaKarma"]
  IN  /\ At(s, "set", {"prarabdha"})
      /\ users' = [users EXCEPT ![c.user].bal["PrarabdhaKarma"] = seen + c.n]
      /\ req' = [req EXCEPT ![s].wrote = @ \cup {"set"}, ![s].pc = "done"]
      /\ UNCHANGED <<plans, debts, txs, deaths, events, load>>

(***************************************************************************)
(* Appeals and atonement plans.  A plan is named after its user, its       *)
(* action and the number of plans the user had, so two appeals at once can *)
(* insert two plans of one name; a lookup finds the first.                 *)
(***************************************************************************)
PlansOf(u) == {i \in DOMAIN plans : plans[i].id.user = u}
CountPlans(s) ==
  LET c == req[s].call
  IN  /\ At(s, "count", {"appeal"})
      /\ IF IsPaap(c.what)
         THEN /\ req' = [req EXCEPT ![s].mark = Cardinality(PlansOf(c.user)), ![s].pc = "insertPlan"]
              /\ UNCHANGED events
         ELSE Finish(s, "rejected")
      /\ UNCHANGED <<users, plans, debts, txs, deaths, load>>

NoProgress == [k \in AtonementKinds |-> 0]
InsertPlan(s) ==
  LET c == req[s].call
  IN  /\ At(s, "insertPlan", {"appeal"})
      /\ plans' = Append(plans, [id |-> [user |-> c.user, action |-> c.what, n |-> req[s].mark],
                                progress |-> NoProgress, status |-> "pending"])
      /\ Finish(s, "done")
      /\ UNCHANGED <<users, debts, txs, deaths, load>>

Submits == {"submit", "apiSubmit"}
Named(id) == {i \in DOMAIN plans : plans[i].id = id}
Found(id) == Min(Named(id))
Award(plan) ==
  LET severity == PAAP_CLASSES[plan.id.action]
  IN  Only(PaapToken[severity], ATONEMENT_REWARDS[severity])

(* validate_atonement_proof records the proof first and looks at the plan  *)
(* again to see whether it is complete.                                    *)
SubmitProof(s) ==
  LET c == req[s].call
  IN  /\ At(s, "received", {"submit"}) \/ At(s, "proof", {"apiSubmit"})
      /\ IF Named(c.id) = {} \/ c.what \notin AtonementKinds
         THEN Finish(s, "rejected") /\ UNCHANGED plans
         ELSE /\ plans' = [plans EXCEPT ![Found(c.id)].progress[c.what] = @ + c.n]
              /\ req' = [req EXCEPT ![s].mark = Found(c.id), ![s].pc = "readPlan"]
              /\ UNCHANGED events
      /\ UNCHANGED <<users, debts, txs, deaths, load>>

AfterProof(s) == IF req[s].call.op = "submit" THEN Finish(s, "done")
                 ELSE Goto(s, "read") /\ UNCHANGED events
ReadPlan(s) ==
  /\ At(s, "readPlan", Submits)
  /\ IF PlanComplete(plans[req[s].mark].progress)
     THEN Goto(s, "award") /\ UNCHANGED events
     ELSE AfterProof(s)
  /\ UNCHANGED <<users, plans, debts, txs, deaths, load>>

(* mark_atonement_completed: the reward of the Q-learning step is added to *)
(* the PaapTokens, whatever the status of the plan; then the transaction,  *)
(* then the status.                                                        *)
AwardAtonement(s) ==
  /\ At(s, "award", Submits)
  /\ IncBalances(plans[req[s].mark].id.user, Award(plans[req[s].mark]))
  /\ Wrote(s, "award", "rewardTx")
  /\ UNCHANGED <<plans, debts, txs, deaths, events, load>>

RewardTransaction(s) ==
  /\ At(s, "rewardTx", Submits)
  /\ txs' = txs \cup {[slot |-> s, what |-> "reward"]}
  /\ Goto(s, "complete")
  /\ UNCHANGED <<users, plans, debts, deaths, events, load>>

CompletePlan(s) ==
  /\ At(s, "complete", Submits)
  /\ plans' = [plans EXCEPT ![req[s].mark].status = "completed"]
  /\ AfterProof(s)
  /\ UNCHANGED <<users, debts, txs, deaths, load>>

(* submit_atonement of karma.py then makes the Q-learning step once more   *)
(* and takes the same amount off again, complete or not.                   *)
LearnAtonement(s) ==
  /\ At(s, "learn", {"apiSubmit"})
  /\ IncBalances(req[s].call.user, Award(plans[req[s].mark]))
  /\ Wrote(s, "learn", "reduce")
  /\ UNCHANGED <<plans, debts, txs, deaths, events, load>>

Reduction(plan) == LET gain == Award(plan) IN [t \in Tokens |-> -gain[t]]
ReducePaap(s) ==
  /\ At(s, "reduce", {"apiSubmit"})
  /\ IncBalances(req[s].call.user, Reduction(plans[req[s].mark]))
  /\ Wrote(s, "reduce", "reread")
  /\ UNCHANGED <<plans, debts, txs, deaths, events, load>>

(***************************************************************************)
(* Rnanubandhan: debts between users.  "due" is the amount the debt was    *)
(* created with, kept for the properties only; "paid" is the sum of the    *)
(* repayment history.                                                      *)
(***************************************************************************)
NewDebt(debtor, receiver, amount) ==
  [debtor |-> debtor, receiver |-> receiver, amount |-> amount, status |-> "active",
   paid |-> 0, due |-> amount]
CanOwe(debtor, receiver) == debtor # receiver /\ users[debtor].exists /\ users[receiver].exists

(* create_debt_relationship.  No user document is ever removed, so the     *)
(* look at the two users and the insertion are one step.                   *)
CreateDebt(s) ==
  LET c == req[s].call
  IN  /\ At(s, "received", {"createDebt"})
      /\ IF CanOwe(c.user, c.other)
         THEN debts' = Append(debts, NewDebt(c.user, c.other, c.n)) /\ Finish(s, "done")
         ELSE Finish(s, "rejected") /\ UNCHANGED debts
      /\ UNCHANGED <<users, plans, txs, deaths, load>>

(* The debt that follows a cheat: its failure does not fail the request.   *)
DebtOfCheat(s) ==
  LET c == req[s].call
  IN  /\ At(s, "debt", {"log"})
      /\ debts' = IF CanOwe(c.user, c.other)
                  THEN Append(debts, NewDebt(c.user, c.other, CheatPenalty \div 2))
                  ELSE debts
      /\ Finish(s, "done")
      /\ UNCHANGED <<users, plans, txs, deaths, load>>

DebtOps == {"repay", "transfer"}
Payable(d, n) == n > 0 /\ n <= d.amount
ReadDebt(s) ==
  LET c == req[s].call
      ok == /\ c.id \in DOMAIN debts
            /\ IF c.op = "repay" THEN Payable(debts[c.id], c.n) ELSE users[c.other].exists
  IN  /\ At(s, "received", DebtOps)
      /\ IF ok THEN Read(s, debts[c.id], c.op) /\ UNCHANGED events
               ELSE Finish(s, "rejected")
      /\ UNCHANGED <<users, plans, debts, txs, deaths, load>>

(* repay_debt sets the amount computed from the copy it read, and pushes   *)
(* the repayment to the history.                                           *)
(* a tolerance of one unit *)
RepaidFault(d, seen, n) ==
  [d EXCEPT !.amount = seen.amount - n, !.paid = @ + n,
            !.status = IF seen.amount - n <= 1 THEN "repaid" ELSE @]
Repaid(d, seen, n) ==
  [d EXCEPT !.amount = seen.amount - n, !.paid = @ + n,
            !.status = IF seen.amount - n = 0 THEN "repaid" ELSE @]
RepayDebt(s) ==
  LET c == req[s].call
  IN  /\ At(s, "repay", {"repay"})
      /\ debts' = [debts EXCEPT ![c.id] = Repaid(@, req[s].doc, c.n)]
      /\ Finish(s, "done")
      /\ UNCHANGED <<users, plans, txs, deaths, load>>

(* transfer_debt inserts a copy with the new debtor, then marks the old.   *)
InsertTransferred(s) ==
  /\ At(s, "transfer", {"transfer"})
  /\ debts' = Append(debts, [req[s].doc EXCEPT !.debtor = req[s].call.other, !.status = "active"])
  /\ Goto(s, "markTransferred")
  /\ UNCHANGED <<users, plans, txs, deaths, events, load>>

MarkTransferred(s) ==
  /\ At(s, "markTransferred", {"transfer"})
  /\ debts' = [debts EXCEPT ![req[s].call.id].status = "transferred"]
  /\ Finish(s, "done")
  /\ UNCHANGED <<users, plans, txs, deaths, load>>

(***************************************************************************)
(* Death and rebirth                                                       *)
(***************************************************************************)
DeathThreshold == -10000
DeathOps == {"death", "process"}

(* The gateway looks at the threshold to choose between the two handlers,  *)
(* each of which reads the user again and records a death in any case.     *)
CheckThreshold(s) ==
  LET u == req[s].call.user
  IN  /\ At(s, "received", {"death"}) /\ req[s].call.via = "gateway"
      /\ IF ~users[u].exists THEN Finish(s, "rejected")
         ELSE /\ req' = [req EXCEPT ![s].pc = "readDeath",
                 ![s].call = IF users[u].bal["PrarabdhaKarma"] <= DeathThreshold
                             THEN [@ EXCEPT !.op = "process"] ELSE @]
              /\ UNCHANGED events
      /\ UNCHANGED <<users, plans, debts, txs, deaths, load>>

ReadDeath(s) ==
  LET u == req[s].call.user
  IN  /\ \/ At(s, "readDeath", DeathOps)
         \/ At(s, "received", DeathOps) /\ req[s].call.via # "gateway"
      /\ IF users[u].exists THEN Read(s, users[u], "insertDeath") /\ UNCHANGED events
                            ELSE Finish(s, "rejected")
      /\ UNCHANGED <<users, plans, debts, txs, deaths, load>>

InsertDeath(s) ==
  LET c == req[s].call  bal == req[s].doc.bal
      karma == IF c.op = "process" THEN NetKarma(bal) ELSE LokaKarma(bal)
  IN  /\ At(s, "insertDeath", DeathOps)
      /\ deaths' = Append(deaths, [user |-> c.user, loka |-> LokaOf(karma)])
      /\ Finish(s, "done")
      /\ UNCHANGED <<users, plans, debts, txs, load>>

(* rebirth_user: a new document under a new identifier, one that no call   *)
(* has named, then the old one is marked; neither step looks whether the   *)
(* user is already deceased.                                               *)
IsNew(u) == ~users[u].exists /\ \A s \in Slots : req[s].call.user # u
InsertReborn(s) ==
  /\ At(s, "insert", {"rebirth"})
  /\ \E new \in {u \in Users : IsNew(u)} :
       users' = [users EXCEPT ![new] = RebornDoc(req[s].call.user, req[s].doc)]
  /\ Goto(s, "markDeceased")
  /\ UNCHANGED <<plans, debts, txs, deaths, events, load>>

MarkDeceased(s) ==
  /\ At(s, "markDeceased", {"rebirth"})
  /\ users' = [users EXCEPT ![req[s].call.user].dead = TRUE]
  /\ Finish(s, "done")
  /\ UNCHANGED <<plans, debts, txs, deaths, load>>

(***************************************************************************)
(* Failures, and the specification                                         *)
(***************************************************************************)
(* A worker stops between two steps of a request, or the database fails,  *)
(* which the handler still records.                                        *)
Fail(s) ==
  /\ req[s].pc \notin Finished
  /\ Cardinality(Failures) < load.faults
  /\ \/ Goto(s, "failed") /\ UNCHANGED events
     \/ Finish(s, "failed")
  /\ UNCHANGED <<users, plans, debts, txs, deaths, load>>

Init ==
  /\ load \in Workloads
  /\ users = [u \in Users |->
                IF u \in InitialUsers
                THEN NewDoc(OpeningBalances, "learner", IF u \in load.dated THEN "naive" ELSE "absent")
                ELSE NoDoc]
  /\ plans = <<>> /\ debts = <<>> /\ txs = {} /\ deaths = <<>> /\ events = <<>>
  /\ req = <<>>

LogStep(s) == \/ CheckAgain(s) \/ InsertUser(s) \/ UpdateBalance(s) \/ ApplyPaap(s)
              \/ UpdateAdvancedKarma(s) \/ Reread(s) \/ SetRole(s) \/ LogTransaction(s)
              \/ TransactionFails(s)
PlanStep(s) == \/ CountPlans(s) \/ InsertPlan(s) \/ SubmitProof(s) \/ ReadPlan(s)
               \/ AwardAtonement(s) \/ RewardTransaction(s) \/ CompletePlan(s)
               \/ LearnAtonement(s) \/ ReducePaap(s)
DebtStep(s) == \/ CreateDebt(s) \/ DebtOfCheat(s) \/ ReadDebt(s) \/ RepayDebt(s)
               \/ InsertTransferred(s) \/ MarkTransferred(s)
LifeStep(s) == \/ CheckThreshold(s) \/ ReadDeath(s) \/ InsertDeath(s) \/ InsertReborn(s)
               \/ MarkDeceased(s)
Step(s) == \/ RecordRequest(s) \/ UnknownEvent(s) \/ ReadUser(s) \/ ApplyDecayAndExpiry(s)
           \/ Redeem(s) \/ UpdatePrarabdha(s) \/ Fail(s)
           \/ LogStep(s) \/ PlanStep(s) \/ DebtStep(s) \/ LifeStep(s)
Next == Call \/ \E s \in Slots : Step(s)

Spec == Init /\ [][Next]_vars

(***************************************************************************)
(* Properties                                                              *)
(***************************************************************************)
Documents ==
  [exists : {TRUE}, bal : [Tokens -> Int], born : [Tokens -> Int], role : Roles,
   last_decay : {"absent", "aware", "naive"}, cheats : BOOLEAN, dead : BOOLEAN,
   prev : Users \cup {NoUser}, rebirths : Nat]
Plans ==
  [id : [user : Users, action : DOMAIN PAAP_CLASSES, n : Nat],
   progress : [AtonementKinds -> Int], status : {"pending", "completed"}]
Debts ==
  [debtor : Users, receiver : Users, amount : Int,
   status : {"active", "repaid", "transferred"}, paid : Nat, due : Int]

(* The gateway turns a call about a death into the other one, perhaps.      *)
Calls ==
  LET made == UNION {w.kinds : w \in Workloads}
  IN  made \cup {[c EXCEPT !.op = "process"] : c \in {d \in made : d.op = "death"}}
Stages ==
  {"received", "proof", "read", "create", "insertUser", "decay", "update", "paap", "advance",
   "reread", "role", "transaction", "debt", "check", "set", "count", "insertPlan", "readPlan",
   "award", "rewardTx", "complete", "learn", "reduce", "repay", "transfer", "markTransferred",
   "readDeath", "insertDeath", "insert", "markDeceased"} \cup Finished
Writings ==
  {"update", "paap", "advance", "role", "noTx", "redeem", "set", "award", "learn", "reduce"}
Requests ==
  [call : Calls, pc : Stages, doc : Documents \cup Debts \cup {NoDoc}, wrote : SUBSET Writings,
   mark : Nat]

(* Every collection and every request has the shape the handlers give it.  *)
TypeOK ==
  /\ users \in [Users -> Documents \cup {NoDoc}]
  /\ plans \in Seq(Plans)
  /\ debts \in Seq(Debts)
  /\ txs \subseteq [slot : Slots, what : {"action", "reward"}]
  /\ deaths \in Seq([user : Users, loka : {"Swarga", "Mrityuloka", "Antarloka", "Naraka"}])
  /\ events \in Seq(Seq({"processing", "completed", "failed", "processed"}))
  /\ req \in Seq(Requests) /\ Len(events) = Len(req)
  /\ load \in Workloads

(* What the writes a request has made should add to a user's balances.     *)
GainOf(s, what) ==
  LET c == req[s].call
  IN  CASE what = "update"  -> LogGain(c)
        [] what = "paap"    -> PaapGain(c.what, NegativeImpact(c.what))
        [] what = "advance" -> AdvancedChange(c.what)
        [] what = "redeem"  -> Only(c.what, -c.n)
        [] what = "set"     -> Only("PrarabdhaKarma", c.n)
        [] what \in {"award", "learn"} -> Award(plans[req[s].mark])
        [] what = "reduce"  -> Reduction(plans[req[s].mark])
        [] OTHER -> Nothing
BenefitsFrom(s, what, u) ==
  u = IF what = "award" THEN plans[req[s].mark].id.user ELSE req[s].call.user
Writes(u) == {w \in {<<s, what>> : s \in Slots, what \in UNION {req[s].wrote : s \in Slots}} :
                w[2] \in req[w[1]].wrote /\ BenefitsFrom(w[1], w[2], u)}
Sum(W, t) == SumFunction([w \in W |-> GainOf(w[1], w[2])[t]])

(* What a user's writes have added that is not in the balance: nothing, or *)
(* the sum of some writes that are forgotten whole.                        *)
Missing(u, t) ==
  IF users[u].exists THEN users[u].born[t] + Sum(Writes(u), t) - users[u].bal[t] ELSE 0
Forgotten(u, t) == \E W \in SUBSET Writes(u) : Missing(u, t) = Sum(W, t)

(* A user is settled when no request in flight may write balances whole.   *)
WritesWhole(s, u) ==
  /\ req[s].call.user = u
  /\ \/ req[s].pc = "insertUser"
     \/ req[s].pc = "decay" /\ req[s].doc.last_decay # "naive"
     \/ At(s, "update", {"apiLog"}) /\ IsPaap(req[s].call.what)
     \/ req[s].pc = "paap"
Settled(u) ==
  /\ users[u].exists /\ users[u].last_decay = "naive"
  /\ \A s \in Slots : ~WritesWhole(s, u)

(* Each step keeps the account of each balance, to the token, in any order *)
(* of the requests' steps and wherever one fails: a balance changes by     *)
(* what is written and no write is doubled, halved or invented.  Only      *)
(* requests at the same time can forget writes, whole, and only while the  *)
(* first requests of a user run, who is settled for good afterwards; the   *)
(* counter of PrarabdhaKarma alone can forget one at any time.             *)
AccountsAreKept ==
  [][\A u \in Users :
       /\ Settled(u) => Settled(u)'
       /\ \A t \in Tokens :
            \/ Missing(u, t)' = Missing(u, t)
            \/ /\ load.parallel > 1
               /\ Settled(u) => t = "PrarabdhaKarma"
               /\ Forgotten(u, t)']_vars

(* A debt is never lower than what was owed less what was repaid, and is   *)
(* marked repaid only when it was: repayments and transfers that overlap   *)
(* can forget a repayment, never invent one.                               *)
DebtsAreHonoured ==
  \A i \in DOMAIN debts :
    LET d == debts[i]
    IN  /\ d.amount >= d.due - d.paid
        /\ d.status = "repaid" => d.paid >= d.due

(* Some proof for a plan was of a negative amount, which nothing refuses.  *)
TakenBack(i) ==
  \E s \in Slots : /\ req[s].call.op \in Submits /\ req[s].call.n < 0
                  /\ req[s].call.id = plans[i].id

(* A plan is completed only after a reward was paid for it and, unless a   *)
(* proof takes something back, only when all its requirements are met,     *)
(* also when proofs are submitted at the same time or a worker stops       *)
(* halfway.                                                                *)
CompletionIsEarned ==
  \A i \in DOMAIN plans : plans[i].status = "completed" =>
    /\ TakenBack(i) \/ \A k \in AtonementKinds : plans[i].progress[k] >= Required[k]
    /\ \E s \in Slots : [slot |-> s, what |-> "reward"] \in txs /\ req[s].mark = i

(* Who is deceased has been reborn, and every reborn user continues a life *)
(* that came before it: generations count up, though a user can be reborn  *)
(* twice.                                                                  *)
LivesAreLinked ==
  /\ \A u \in Users : users[u].exists /\ users[u].dead =>
       \E v \in Users : users[v].exists /\ users[v].prev = u
  /\ \A v \in Users : users[v].exists /\ users[v].prev # NoUser =>
       /\ users[users[v].prev].exists
       /\ users[v].rebirths = users[users[v].prev].rebirths + 1

(* The audit record of an answered request gives its outcome; one that the *)
(* gateway serves has none before, and after a stop of the worker none at  *)
(* all, while a route of karma.py leaves it at "processing".               *)
AuditsAgree ==
  \A s \in Slots :
    LET via == req[s].call.via  pc == req[s].pc
    IN  /\ via = "gateway" /\ pc = "done" => events[s] = <<"processed">>
        /\ via = "gateway" /\ pc \in {"rejected", "raised"} => Len(events[s]) > 0 /\ Last(events[s]) = "failed"
        /\ via = "gateway" /\ pc \notin Finished => events[s] = <<>>
        /\ via = "api" /\ pc = "done" => events[s] = <<"completed">>
        /\ via = "api" /\ pc \in {"rejected", "raised"} => events[s] = <<"failed">>
===============================================================================
