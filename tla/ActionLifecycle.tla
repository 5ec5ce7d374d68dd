--------------------------- MODULE ActionLifecycle ---------------------------
(***************************************************************************)
(* The governed actions of app/services/action_service.py: an action is    *)
(* created, simulated, checked against policy and the autonomy rules,      *)
(* approved, rejected, escalated or modified by users, and executed by the *)
(* mock connector.  One TLA+ action is one request that commits; a request *)
(* that raises ActionError and is rolled back changes nothing.             *)
(*                                                                         *)
(* The snapshot that simulation and policy checks read is not modelled:    *)
(* any outcome of a check and any simulated cost is possible.  The setting *)
(* execution.apply_to_local_data keeps its default, off.                   *)
(***************************************************************************)
EXTENDS Integers, Sequences, FiniteSets

CONSTANTS
  Actions,       \* rows of the table action
  Users, RoleOf, \* the users, and the role of each
  Types,         \* action types of this instance
  Quantities,    \* quantities asked for, 0 included
  UnitCost,      \* unit cost of the item
  SimCosts,      \* costs a simulation may come to
  Rules,         \* the autonomy rules; the user switches them on and off
  Ladders,       \* values of the setting approval.matrix
  NoCost,        \* no upper limit of cost in a rule or a band
  Modes,         \* values execution.mode takes in this instance
  Levels,        \* values autonomy.default_level takes
  AlertMoves,    \* statuses planners and detection give the alert
  MaxRows        \* bound on the approval rows of an action

PurchaseLike == {"CREATE_PO", "EXPEDITE_PO", "REPLENISH"}
QualityTypes == {"RELEASE_STOCK", "QUARANTINE"}
ActionTypes == PurchaseLike \cup QualityTypes \cup
  {"TRANSFER_STOCK", "CHANGE_QUANTITY", "CHANGE_DATE", "ALLOCATE_STOCK", "DEALLOCATE_STOCK",
   "REVIEW_EXPIRY", "REVIEW_OBSOLESCENCE", "CHANGE_SAFETY_STOCK", "CHANGE_REORDER_POINT"}
PricedTypes == PurchaseLike \cup {"TRANSFER_STOCK"}    \* the types a simulation prices
OrderTypes == PricedTypes \cup {"ALLOCATE_STOCK"}      \* the types created with a quantity
CountedTypes == OrderTypes \cup QualityTypes \cup {"CHANGE_QUANTITY"}

Roles == {"Inventory Planner", "Procurement", "Warehouse Manager", "Supply Chain Manager",
          "Operations", "Finance", "Executive", "Administrator"}
Rank(role) ==
  CASE role = "Administrator" -> 4
    [] role = "Executive" -> 3
    [] role \in {"Supply Chain Manager", "Operations", "Finance"} -> 2
    [] OTHER -> 1

(* DEFAULT_ROLES *)
MayCreate == Roles \ {"Finance", "Executive"}
MayApprove == Roles \ {"Warehouse Manager"}
MayExecute == {"Supply Chain Manager", "Administrator"}

Effects == {"NEVER_AUTO", "REQUIRE_APPROVAL", "ALLOW_AUTO"}
AllModes == {"RECOMMENDATION", "SIMULATION_ONLY", "LIVE"}

Rule == [effect: Effects, level: 0..4, types: SUBSET ActionTypes, minCost: Nat,
         maxCost: Nat \cup {NoCost}]
Band == [maxCost: Nat \cup {NoCost}, rank: 1..4]

OpenAlerts == {"New", "Acknowledged", "Investigating", "Action Proposed", "Approved"}
AlertStatuses == OpenAlerts \cup {"Executed", "Resolved", "Dismissed"}

ASSUME ActionAssumption ==
  /\ RoleOf \in [Users -> Roles]
  /\ Types \subseteq ActionTypes
  /\ Quantities \subseteq Nat
  /\ UnitCost \in Nat
  /\ SimCosts \subseteq Nat
  /\ NoCost \notin Nat
  /\ Rules \subseteq Rule
  /\ Ladders \subseteq Seq(Band)
  /\ Modes \subseteq AllModes
  /\ Levels \subseteq 0..4
  /\ AlertMoves \subseteq AlertStatuses
  /\ MaxRows \in Nat

System == "AUTONOMY-POLICY"     \* the approver the code names itself
ASSUME SystemAssumption == System \notin Users

VARIABLES
  action,       \* the rows of the table action
  approvals,    \* Action.approvals, oldest first
  executions,   \* Action.executions, oldest first
  rec,          \* status of the recommendation actions are created from
  alert,        \* status of the alert behind it
  mode,         \* execution.mode
  base,         \* autonomy.default_level
  enabled,      \* the rules that are switched on
  ladder,       \* approval.matrix
  noSelf        \* approval.no_self_approval

rows == <<action, approvals, executions, rec, alert>>
settings == <<mode, base, enabled, ladder, noSelf>>
vars == <<rows, settings>>

Statuses == {"NONE", "PROPOSED", "PENDING_APPROVAL", "ESCALATED", "APPROVED", "EXECUTED",
             "VERIFIED", "REJECTED", "FAILED", "OBSERVED", "CANCELLED"}
Decisions == {"APPROVE", "REJECT", "MODIFY", "ESCALATE"}

(* status NONE is a row that does not exist yet.  required is the rank of   *)
(* required_role, and blocking and level are what policy_check and autonomy *)
(* found last.                                                              *)
ActionRow == [status: Statuses, type: ActionTypes, qty: Nat, cost: Nat, by: Users \cup {System},
              required: 1..4, blocking: BOOLEAN, level: 0..4, fromRec: BOOLEAN]

(* qty is not a column of the two tables: it is the quantity the action had *)
(* when the row was written, kept for the properties.                       *)
ApprovalRow == [decision: Decisions, by: Users \cup {System}, rank: 0..4, qty: Nat]
ExecutionRow == [status: {"SIMULATED", "FAILED"}, qty: Nat]

TypeOK ==
  /\ action \in [Actions -> ActionRow]
  /\ approvals \in [Actions -> Seq(ApprovalRow)]
  /\ executions \in [Actions -> Seq(ExecutionRow)]
  /\ rec \in {"OPEN", "DISMISSED", "ACTIONED", "GONE"}
  /\ alert \in AlertStatuses
  /\ mode \in AllModes
  /\ base \in 0..4
  /\ enabled \subseteq Rules
  /\ ladder \in Seq(Band)
  /\ noSelf \in BOOLEAN

-----------------------------------------------------------------------------
(* decide_autonomy() *)

AtMost(m, n) == IF m <= n THEN m ELSE n
AtLeast(m, n) == IF m >= n THEN m ELSE n

Considered(act) ==
  IF act.type \in PurchaseLike THEN AtLeast(act.cost, act.qty * UnitCost) ELSE act.cost

Below(cost, limit) == limit = NoCost \/ cost <= limit

(* _matches(): confidence, criticality and industry do not change during    *)
(* the life of an action, so a rule whose conditions on them fail is simply *)
(* not among Rules.                                                         *)
Matching(act) ==
  {r \in enabled : /\ r.types # {} => act.type \in r.types
                   /\ Considered(act) >= r.minCost
                   /\ Below(Considered(act), r.maxCost)}

Granted(act) ==
  LET offers == {base} \cup {r.level : r \in {s \in Matching(act) : s.effect = "ALLOW_AUTO"}}
  IN  CHOOSE n \in offers : \A m \in offers : m <= n

HasEffect(act, effect) == \E r \in Matching(act) : r.effect = effect

\* mutant: a rule that allows wins over one that denies
AutonomyLevelAllowWins(act, blocking) ==
  IF blocking THEN AtMost(Granted(act), 1) ELSE Granted(act)

AutonomyLevel(act, blocking) ==
  LET ruled == IF HasEffect(act, "NEVER_AUTO") THEN AtMost(Granted(act), 1)
               ELSE IF HasEffect(act, "REQUIRE_APPROVAL") THEN AtMost(Granted(act), 2)
               ELSE Granted(act)
  IN  IF blocking THEN AtMost(ruled, 1) ELSE ruled

(* The first band of the ladder the cost fits in names the approver; a role *)
(* that is missing or unknown ranks as a planner.                           *)
RequiredRank(act) ==
  LET fits == {i \in 1..Len(ladder) : Below(Considered(act), ladder[i].maxCost)}
      rank == IF fits = {} THEN 1
              ELSE ladder[CHOOSE i \in fits : \A j \in fits : i <= j].rank
  IN  IF act.type \in QualityTypes THEN AtLeast(rank, 2) ELSE rank

-----------------------------------------------------------------------------
(* execute(), for an action row that is APPROVED; the outcome in mode LIVE  *)
(* is an error.                                                             *)

Store(a, act, decided) ==
  /\ action' = [action EXCEPT ![a] = act]
  /\ approvals' = [approvals EXCEPT ![a] = @ \o decided]

Executed(a, act, decided) ==
  \/ /\ mode = "RECOMMENDATION"
     /\ Store(a, act, decided)
     /\ UNCHANGED <<executions, rec, alert>>
  \/ /\ mode = "SIMULATION_ONLY"
     /\ Store(a, [act EXCEPT !.status = "VERIFIED"], decided)
     /\ executions' = [executions EXCEPT ![a] = Append(@, [status |-> "SIMULATED", qty |-> act.qty])]
     /\ rec' = IF act.fromRec /\ rec # "GONE" THEN "ACTIONED" ELSE rec
     /\ alert' = IF act.fromRec /\ alert \in OpenAlerts THEN "Executed" ELSE alert

\* mutants: the refused action keeps its status; the recommendation is marked anyway
RefusedUnmarked(a, act, decided) ==
  /\ mode = "LIVE"
  /\ Store(a, act, decided)
  /\ executions' = [executions EXCEPT ![a] = Append(@, [status |-> "FAILED", qty |-> act.qty])]
  /\ UNCHANGED <<rec, alert>>
RefusedMarked(a, act, decided) ==
  /\ mode = "LIVE"
  /\ Store(a, [act EXCEPT !.status = "FAILED"], decided)
  /\ executions' = [executions EXCEPT ![a] = Append(@, [status |-> "FAILED", qty |-> act.qty])]
  /\ rec' = IF act.fromRec /\ rec # "GONE" THEN "ACTIONED" ELSE rec
  /\ UNCHANGED alert

(* The row that a refused LIVE execution leaves when its caller commits.    *)
Refused(a, act, decided) ==
  /\ mode = "LIVE"
  /\ Store(a, [act EXCEPT !.status = "FAILED"], decided)
  /\ executions' = [executions EXCEPT ![a] = Append(@, [status |-> "FAILED", qty |-> act.qty])]
  /\ UNCHANGED <<rec, alert>>

Decision(decision, u, qty) ==
  <<[decision |-> decision, by |-> u, rank |-> Rank(RoleOf[u]), qty |-> qty]>>

AutoApproval(act) == <<[decision |-> "APPROVE", by |-> System, rank |-> 0, qty |-> act.qty]>>

\* mutant: the level is decided as if no check blocked
AssessedUnblocked(act, sim, blocking) ==
  [act EXCEPT !.cost = IF @ = 0 THEN sim ELSE @, !.blocking = blocking,
              !.level = AutonomyLevel(act, FALSE)]

(* process(): simulate, check, decide; decided holds the rows its caller    *)
(* added before.                                                            *)
Assessed(act, sim, blocking) ==
  LET priced == [act EXCEPT !.cost = IF @ = 0 THEN sim ELSE @, !.blocking = blocking]
  IN  [priced EXCEPT !.level = AutonomyLevel(priced, blocking),
                     !.required = RequiredRank(priced)]

SimulatedCosts(act) == IF act.type \in PricedTypes THEN SimCosts ELSE {0}

(* check_policy(): whether a check blocks depends on the snapshot, except   *)
(* that a quantity of zero always does for the types that have one.         *)
PolicyFindings(act) == IF act.type \in CountedTypes /\ act.qty = 0 THEN {TRUE} ELSE BOOLEAN

\* mutant: an action approved before stays approved
ParkedApproved(a, act, decided) ==
  /\ act.level < 3
  /\ Store(a, [act EXCEPT !.status = IF @ = "APPROVED" THEN @ ELSE "PENDING_APPROVAL"], decided)
  /\ UNCHANGED <<executions, rec, alert>>

Parked(a, act, decided) ==
  /\ act.level < 3
  /\ Store(a, [act EXCEPT !.status = IF act.level = 0 THEN "OBSERVED" ELSE "PENDING_APPROVAL"],
           decided)
  /\ UNCHANGED <<executions, rec, alert>>

AutoExecuted(a, act, decided) ==
  /\ act.level >= 3
  /\ Executed(a, [act EXCEPT !.status = "APPROVED"], decided \o AutoApproval(act))

Process(a, act, decided) ==
  \E sim \in SimulatedCosts(act), blocking \in PolicyFindings(act) :
    LET done == Assessed(act, sim, blocking)
    IN  Parked(a, done, decided) \/ AutoExecuted(a, done, decided)
-----------------------------------------------------------------------------
New(type, qty, cost, u, fromRec) ==
  [status |-> "PROPOSED", type |-> type, qty |-> qty, cost |-> cost, by |-> u,
   required |-> 1, blocking |-> FALSE, level |-> 0, fromRec |-> fromRec]

Absent == [New("CREATE_PO", 0, 0, System, FALSE) EXCEPT !.status = "NONE"]

Init ==
  /\ action = [a \in Actions |-> Absent]
  /\ approvals = [a \in Actions |-> <<>>]
  /\ executions = [a \in Actions |-> <<>>]
  /\ rec = "OPEN"
  /\ alert = "New"
  /\ mode \in Modes
  /\ base \in Levels
  /\ enabled = Rules
  /\ ladder \in Ladders
  /\ noSelf \in BOOLEAN

(* create_action() from the API, a recommendation or an option page: the    *)
(* cost is the caller's, and a refused execution rolls the row back.        *)
Create(a, u) ==
  /\ action[a].status = "NONE"
  /\ RoleOf[u] \in MayCreate
  /\ \E type \in Types, qty \in Quantities, cost \in SimCosts \cup {0}, fromRec \in BOOLEAN :
       /\ fromRec => rec # "GONE"
       /\ type \in OrderTypes => qty > 0
       /\ Process(a, New(type, qty, cost, u, fromRec), <<>>)
  /\ UNCHANGED settings

(* The purchase plan of the optimiser creates its actions in one request    *)
(* that skips the ones refused and commits the rest, so the row of a        *)
(* refused execution stays.                                                 *)
CreateFromPlan(a, u) ==
  /\ action[a].status = "NONE"
  /\ RoleOf[u] \in MayCreate
  /\ "CREATE_PO" \in Types
  /\ \E qty \in Quantities \ {0}, sim \in SimCosts, blocking \in BOOLEAN :
       LET done == Assessed(New("CREATE_PO", qty, 0, u, FALSE), sim, blocking)
       IN  \/ Parked(a, done, <<>>)
           \/ AutoExecuted(a, done, <<>>)
           \/ done.level >= 3 /\ Refused(a, [done EXCEPT !.status = "APPROVED"], AutoApproval(done))
  /\ UNCHANGED settings

(* The rows a user decides on; the bound keeps the history finite.          *)
Decides(a, u) ==
  /\ action[a].status # "NONE"
  /\ RoleOf[u] \in MayApprove
  /\ Len(approvals[a]) < MaxRows

\* mutant: a verified action is not final
FinalButVerified == {"EXECUTED", "REJECTED", "CANCELLED"}

(* The statuses that can be rejected or modified no more. *)
Final == {"EXECUTED", "VERIFIED", "REJECTED", "CANCELLED"}

\* mutant: the rank is not looked at
AuthorisedByAnyone(act, u) == ~(noSelf /\ u = act.by /\ RoleOf[u] # "Administrator")

(* _authorise() *)
Authorised(act, u) ==
  /\ RoleOf[u] = "Administrator" \/ Rank(RoleOf[u]) >= act.required
  /\ ~(noSelf /\ u = act.by /\ RoleOf[u] # "Administrator" /\ act.cost > 0)

Approve(a, u) ==
  /\ Decides(a, u)
  /\ action[a].status \in {"PENDING_APPROVAL", "ESCALATED", "PROPOSED"}
  /\ Authorised(action[a], u)
  /\ ~action[a].blocking
  /\ Executed(a, [action[a] EXCEPT !.status = "APPROVED"], Decision("APPROVE", u, action[a].qty))
  /\ UNCHANGED settings

Reject(a, u) ==
  /\ Decides(a, u)
  /\ action[a].status \notin Final
  /\ Store(a, [action[a] EXCEPT !.status = "REJECTED"], Decision("REJECT", u, action[a].qty))
  /\ rec' = IF action[a].fromRec /\ rec # "GONE" THEN "DISMISSED" ELSE rec
  /\ UNCHANGED <<executions, alert, settings>>

Escalate(a, u) ==
  /\ Decides(a, u)
  /\ Store(a, [action[a] EXCEPT !.status = "ESCALATED", !.required = AtMost(@ + 1, 3)],
           Decision("ESCALATE", u, action[a].qty))
  /\ UNCHANGED <<executions, rec, alert, settings>>

(* A new quantity is optional; it drops the cost, so that the simulation    *)
(* prices the action again.                                                 *)
Modify(a, u) ==
  /\ Decides(a, u)
  /\ action[a].status \notin Final
  /\ \/ Process(a, action[a], Decision("MODIFY", u, action[a].qty))
     \/ \E qty \in Quantities \ {0} :
          Process(a, [action[a] EXCEPT !.qty = qty, !.cost = 0], Decision("MODIFY", u, qty))
  /\ UNCHANGED settings

(* The execute button commits whatever execute() did, refusals included.    *)
Execute(a, u) ==
  /\ action[a].status = "APPROVED"
  /\ RoleOf[u] \in MayExecute
  /\ Executed(a, action[a], <<>>) \/ Refused(a, action[a], <<>>)
  /\ UNCHANGED settings

(* A recommendation is dismissed by hand, or replaced when recommendations  *)
(* are generated anew while it is open.                                     *)
Dismiss ==
  /\ rec \notin {"GONE", "DISMISSED"}
  /\ rec' = "DISMISSED"
  /\ UNCHANGED <<action, approvals, executions, alert, settings>>

Regenerate ==
  /\ rec = "OPEN"
  /\ rec' = "GONE"
  /\ UNCHANGED <<action, approvals, executions, alert, settings>>

(* Planners and detection move the alert. *)
MoveAlert ==
  /\ alert' \in AlertMoves \ {alert}
  /\ UNCHANGED <<action, approvals, executions, rec, settings>>

(* An administrator changes one of the settings. *)
Configure ==
  /\ \/ mode' \in Modes \ {mode} /\ UNCHANGED <<base, enabled, ladder, noSelf>>
     \/ noSelf' = ~noSelf /\ UNCHANGED <<mode, base, enabled, ladder>>
     \/ base' \in Levels \ {base} /\ UNCHANGED <<mode, enabled, ladder, noSelf>>
     \/ /\ \E r \in Rules : enabled' = (enabled \cup {r}) \ (enabled \cap {r})
        /\ UNCHANGED <<mode, base, ladder, noSelf>>
     \/ ladder' \in Ladders \ {ladder} /\ UNCHANGED <<mode, base, enabled, noSelf>>
  /\ UNCHANGED rows

Next ==
  \/ \E a \in Actions, u \in Users :
       \/ Create(a, u)
       \/ CreateFromPlan(a, u)
       \/ Approve(a, u)
       \/ Reject(a, u)
       \/ Escalate(a, u)
       \/ Modify(a, u)
       \/ Execute(a, u)
  \/ Dismiss
  \/ Regenerate
  \/ MoveAlert
  \/ Configure

Spec == Init /\ [][Next]_vars

-----------------------------------------------------------------------------
(* Properties *)

LastOf(s) == s[Len(s)]
RowsOf(s, kind) == {i \in 1..Len(s) : s[i].decision = kind}
Simulated(a) == {i \in 1..Len(executions[a]) : executions[a][i].status = "SIMULATED"}

(* An action that may be executed now was approved as it stands: its last   *)
(* approval row is an approval, of the quantity it still has, and its last  *)
(* policy check did not block.  Approving, modifying, escalating and        *)
(* re-assessing under other rules may interleave in any order before.       *)
ApprovedAsIs ==
  \A a \in Actions : action[a].status = "APPROVED" =>
    /\ Len(approvals[a]) > 0
    /\ LastOf(approvals[a]).decision = "APPROVE"
    /\ LastOf(approvals[a]).qty = action[a].qty
    /\ ~action[a].blocking

(* The connector is never called for a quantity nobody approved last, nor   *)
(* for an action whose policy check blocks, whichever request calls it.     *)
ExecutesWhatWasApproved ==
  [][\A a \in Actions : Len(executions'[a]) > Len(executions[a]) =>
       /\ LastOf(approvals'[a]).decision = "APPROVE"
       /\ LastOf(approvals'[a]).qty = LastOf(executions'[a]).qty
       /\ ~action'[a].blocking]_vars

(* "NEVER_AUTO beats everything (deny wins); REQUIRE_APPROVAL caps at level *)
(* 2": the system approves an action by itself only when every rule in      *)
(* force that matches it, at the cost it is approved with, allows it,       *)
(* whatever the default level.                                              *)
DenyWins ==
  [][\A a \in Actions :
       Len(approvals'[a]) > Len(approvals[a]) /\ LastOf(approvals'[a]).by = System =>
         \A r \in Matching(action'[a]) : r.effect = "ALLOW_AUTO"]_vars

(* "approval roles follow a cost ladder": whoever approves ranks at least   *)
(* as high as the band of the cost asks for, escalations and modifications  *)
(* before the approval included.                                            *)
ApproverMeetsLadder ==
  [][\A a \in Actions :
       /\ Len(approvals'[a]) > Len(approvals[a])
       /\ LastOf(approvals'[a]).decision = "APPROVE"
       /\ LastOf(approvals'[a]).by # System
       => LastOf(approvals'[a]).rank >= RequiredRank(action'[a])]_vars

(* An action is carried out once, unless somebody escalated it again after: *)
(* no chain of failures, modifications and approvals repeats an execution.  *)
RepeatNeedsEscalation ==
  \A a \in Actions :
    Cardinality(Simulated(a)) <= 1 + Cardinality(RowsOf(approvals[a], "ESCALATE"))

(* A recommendation that counts as acted upon led to an execution: neither  *)
(* an approval that only recommends nor a refused LIVE execution marks it.  *)
ActionedWasExecuted ==
  rec = "ACTIONED" => \E a \in Actions : action[a].fromRec /\ Simulated(a) # {}

(* "Action {a.action_no} is already {a.status}", "... and cannot be         *)
(* modified": an action that was verified or rejected stays so.             *)
FinalStaysFinal ==
  [][\A a \in Actions : action[a].status \in {"EXECUTED", "VERIFIED", "REJECTED"} =>
       action'[a].status = action[a].status]_vars

(* One approval, at most one execution, of what was approved. *)
Grants == [a \in Actions |-> Cardinality(RowsOf(approvals[a], "APPROVE"))]
Usable == [a \in Actions |-> IF action[a].status = "APPROVED" THEN LastOf(approvals[a]).qty ELSE -1]
Used == [a \in Actions |-> [i \in 1..Len(executions[a]) |-> executions[a][i].qty]]

Gate == INSTANCE ApprovalGate WITH
          Contents <- Quantities, Nothing <- -1,
          granted <- Grants, open <- Usable, done <- Used
ImplementsGate == Gate!Spec
=============================================================================
