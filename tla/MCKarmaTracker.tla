---------------------------- MODULE MCKarmaTracker ----------------------------
(***************************************************************************)
(* Instances of KarmaTracker for TLC: the workloads of its runs.           *)
(***************************************************************************)
EXTENDS KarmaTracker

CONSTANTS u1, u2, u3, u4

MCOpening == Plus(Only("DharmaPoints", 1000), Only("PaapTokens.medium", 1000))

Request(op, via, user) == [op |-> op, via |-> via, user |-> user, other |-> NoUser,
                           what |-> "none", id |-> 0, n |-> 0]
Log(user, action) == [Request("log", "v1", user) EXCEPT !.what = action]
ApiLog(user, action) == [Request("apiLog", "api", user) EXCEPT !.what = action]
RedeemCall(user, token, n) == [Request("redeem", "v1", user) EXCEPT !.what = token, !.n = n]
View(user) == Request("view", "v1", user)
Profile(user) == Request("profile", "api", user)
Prarabdha(user, n) == [Request("prarabdha", "v1", user) EXCEPT !.n = n]
Appeal(user, action) == [Request("appeal", "v1", user) EXCEPT !.what = action]
PlanId(user, action, n) == [user |-> user, action |-> action, n |-> n]
Submit(op, via, id, kind) == [Request(op, via, id.user) EXCEPT !.id = id, !.what = kind, !.n = 1]
Owe(user, other, n) == [Request("createDebt", "v1", user) EXCEPT !.other = other, !.n = n]
Repay(id, n) == [Request("repay", "v1", u1) EXCEPT !.id = id, !.n = n]
Transfer(id, other) == [Request("transfer", "v1", u1) EXCEPT !.id = id, !.other = other]
CheatOn(user, other) == [Log(user, "cheat") EXCEPT !.other = other]
Gateway(c) == [c EXCEPT !.via = "gateway"]

Workload(kinds, calls, parallel, faults, dated) ==
  [kinds |-> kinds, calls |-> calls, parallel |-> parallel, faults |-> faults,
   dated |-> dated]

FirstPlan == PlanId(u1, "cheat", 0)
Account == {Log(u1, "completing_lessons"), Log(u1, "cheat"), ApiLog(u1, "helping_peers"),
            ApiLog(u1, "cheat"), RedeemCall(u1, "DharmaPoints", 500), View(u1),
            Prarabdha(u1, 100)}
Proofs == {Appeal(u1, "cheat"), Submit("submit", "v1", FirstPlan, "Jap"),
           Submit("apiSubmit", "api", FirstPlan, "Daan")}
MCWorkloads ==
  { (* two requests at a time on one account, without and with a last_decay *)
    Workload(Account, 2, 2, 1, {}),
    Workload(Account, 3, 2, 0, {u1}),
    (* the first requests of a user that does not exist, and the next *)
    Workload({Log(u3, "completing_lessons"), Log(u3, "cheat"), ApiLog(u3, "break_promise"),
              View(u3), Prarabdha(u3, 100)}, 3, 2, 0, {}),
    (* one request at a time *)
    Workload({Log(u1, "cheat"), ApiLog(u1, "helping_peers"), View(u1), ApiLog(u1, "harm_others"),
              RedeemCall(u1, "SevaPoints", 500), Log(u3, "cheat"), Prarabdha(u1, 100)},
             3, 1, 0, {}),
    (* appeals and proofs, without and with a last_decay *)
    Workload(Proofs, 4, 2, 0, {}),
    Workload(Proofs, 4, 2, 1, {u1}),
    (* a proof that takes something back *)
    Workload({Appeal(u1, "cheat"),
              [Submit("apiSubmit", "api", FirstPlan, "Jap") EXCEPT !.n = 2],
              [Submit("apiSubmit", "api", FirstPlan, "Daan") EXCEPT !.n = 2],
              [Submit("submit", "v1", FirstPlan, "Jap") EXCEPT !.n = -2]}, 4, 1, 0, {}),
    (* debts *)
    Workload({Owe(u1, u2, 2), Repay(1, 1), Repay(1, 2), Transfer(1, u2), Repay(2, 1)}, 4, 2, 1,
             {u1, u2}),
    Workload({CheatOn(u1, u2), CheatOn(u1, u3), Owe(u1, u1, 1)}, 2, 1, 1, {u2}),
    (* lives, and a life's first requests after a rebirth *)
    Workload({Request("death", "v1", u1), Gateway(Request("death", "v1", u1)),
              Request("process", "v1", u1), Request("rebirth", "v1", u1),
              Request("rebirth", "v1", u3), Prarabdha(u1, -10000)}, 3, 2, 1, {u1, u2}),
    Workload({Request("rebirth", "v1", u1), ApiLog(u3, "cheat"), View(u3)}, 3, 2, 0, {u1, u2}),
    (* the gateway and the audit records *)
    Workload({Gateway(Request("unknown", "v1", u1)), Gateway(Log(u1, "selfless_service")),
              Gateway(View(u1)), Gateway(View(u2)), Profile(u2),
              Gateway(Request("death", "v1", u4)),
              Gateway(Log(u1, "theft")), Gateway(Appeal(u4, "cheat")),
              Gateway(Appeal(u1, "helping_peers")), Profile(u1), Profile(u4)}, 2, 2, 1, {u2})
  }
===============================================================================
