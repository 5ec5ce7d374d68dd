-------------------------- MODULE MCActionLifecycle --------------------------
(* Instances of the action workflow for TLC. *)
EXTENDS ActionLifecycle

CONSTANTS planner, manager, executive, admin

MCRoleOf ==
  [u \in Users |-> CASE u = planner -> "Inventory Planner"
                     [] u = manager -> "Supply Chain Manager"
                     [] u = executive -> "Executive"
                     [] OTHER -> "Administrator"]

\* one rule of each effect, as the seed data has them
MCRules ==
  {[effect |-> "ALLOW_AUTO", level |-> 3, types |-> {"TRANSFER_STOCK"}, minCost |-> 0, maxCost |-> 1],
   [effect |-> "REQUIRE_APPROVAL", level |-> 2, types |-> {"CREATE_PO"}, minCost |-> 2, maxCost |-> NoCost],
   [effect |-> "NEVER_AUTO", level |-> 1, types |-> {}, minCost |-> 3, maxCost |-> NoCost]}

\* planner up to a cost of 1, manager up to 2, executive above
MCLadder == <<[maxCost |-> 1, rank |-> 1], [maxCost |-> 2, rank |-> 2], [maxCost |-> NoCost, rank |-> 3]>>
MCLadders == {MCLadder}

\* Many kinds of actions of two users under the rules, decided on twice ...
Wide(a) ==
  /\ Len(approvals[a]) <= 2 /\ mode = "SIMULATION_ONLY"
  /\ base = 4 \/ (base = 1 /\ enabled = Rules)

\* ... or purchases of one user while no rule is switched on, decided on up to MaxRows times.
Long(a) ==
  /\ enabled = {} /\ base \in {0, 4}
  /\ action[a].type = "CREATE_PO" /\ action[a].by \in {System, manager} /\ action[a].cost <= 1
  /\ \A i \in DOMAIN approvals[a] : approvals[a][i].by \in {System, manager}

WideOrLong == \A a \in Actions : Wide(a) \/ Long(a)

\* The alert, which only actions read, is moved by others before the first decision.
AlertMovesFirst == alert = "Resolved" => \A a \in Actions : approvals[a] = <<>>
=============================================================================
