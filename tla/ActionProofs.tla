---------------------------- MODULE ActionProofs ----------------------------
(***************************************************************************)
(* Theorems about the action workflow for every set of actions, users,     *)
(* rules, ladders and quantities.                                          *)
(***************************************************************************)
EXTENDS ActionLifecycle, NatLemmas, FiniteSetTheorems, SequenceTheorems

(* A level is granted: the default one, or the highest a matching rule      *)
(* offers.                                                                  *)
LEMMA GrantedLevel ==
  ASSUME base \in 0..4, enabled \subseteq Rules, NEW act
  PROVE  Granted(act) \in 0..4
<1> DEFINE offers == {base} \cup {r.level : r \in {s \in Matching(act) : s.effect = "ALLOW_AUTO"}}
<1>1. \A r \in Matching(act) : r.level \in 0..4
  BY ActionAssumption DEF Matching, Rule
<1>2. offers \subseteq 0..4 /\ offers # {}
  BY <1>1
<1>3. Granted(act) = CHOOSE n \in offers : \A m \in offers : m <= n
  BY DEF Granted
<1> HIDE DEF offers
<1>4. \E n \in offers : \A m \in offers : m <= n
  <2>1. offers \subseteq Nat /\ \A n \in offers : n <= 4 BY <1>2
  <2>2. 4 \in Nat OBVIOUS
  <2> QED BY <1>2, <2>1, <2>2, GreatestNat
<1> QED BY <1>2, <1>3, <1>4

(* A level is a level, and a blocking policy check keeps it out of the      *)
(* automatic ones.                                                          *)
LEMMA LevelBounds ==
  ASSUME base \in 0..4, enabled \subseteq Rules, NEW act, NEW blocking \in BOOLEAN
  PROVE  /\ AutonomyLevel(act, blocking) \in 0..4
         /\ blocking => AutonomyLevel(act, blocking) < 3
         /\ HasEffect(act, "NEVER_AUTO") \/ HasEffect(act, "REQUIRE_APPROVAL")
              => AutonomyLevel(act, blocking) < 3
<1> DEFINE g == Granted(act)
<1>1. g \in 0..4 BY GrantedLevel
<1> HIDE DEF g
<1>2. \A k \in {1, 2} : AtMost(g, k) \in 0..4 /\ AtMost(g, k) < 3
  BY <1>1 DEF AtMost
<1>3. \A k \in 0..4 : AtMost(k, 1) \in 0..4 /\ AtMost(k, 1) < 3
  BY DEF AtMost
<1> QED BY <1>1, <1>2, <1>3 DEF AutonomyLevel, g

(* The approver the ladder asks for has a rank. *)
LEMMA RankBounds ==
  ASSUME ladder \in Seq(Band), NEW act
  PROVE  RequiredRank(act) \in 1..4
<1> DEFINE fits == {i \in 1..Len(ladder) : Below(Considered(act), ladder[i].maxCost)}
           first == CHOOSE i \in fits : \A j \in fits : i <= j
           rank == IF fits = {} THEN 1 ELSE ladder[first].rank
<1>1. rank \in 1..4
  <2>1. CASE fits = {} BY <2>1
  <2>2. CASE fits # {}
    <3>1. fits \subseteq Nat /\ \A i \in fits : i \in 1..Len(ladder) OBVIOUS
    <3> HIDE DEF fits
    <3>2. first \in fits BY <2>2, <3>1, LeastNat
    <3>3. first \in 1..Len(ladder) BY <3>1, <3>2
    <3> HIDE DEF first
    <3>4. ladder[first] \in Band BY <3>3
    <3> QED BY <2>2, <3>4 DEF Band
  <2> QED BY <2>1, <2>2
<1>2. RequiredRank(act) = IF act.type \in QualityTypes THEN AtLeast(rank, 2) ELSE rank
  BY DEF RequiredRank
<1> HIDE DEF rank
<1> QED BY <1>1, <1>2 DEF AtLeast

-----------------------------------------------------------------------------
(* Typed pieces of a step *)

(* An assessed row is a row; blocked, it is not for automatic execution.    *)
LEMMA AssessedRow ==
  ASSUME base \in 0..4, enabled \subseteq Rules, ladder \in Seq(Band),
         NEW act \in ActionRow, NEW sim \in Nat, NEW blocking \in BOOLEAN
  PROVE  LET done == Assessed(act, sim, blocking)
         IN  /\ done \in ActionRow
             /\ done.qty = act.qty
             /\ done.level >= 3 => ~done.blocking
<1> DEFINE priced == [act EXCEPT !.cost = IF @ = 0 THEN sim ELSE @, !.blocking = blocking]
           level == AutonomyLevel(priced, blocking)
           rank == RequiredRank(priced)
           done == [priced EXCEPT !.level = level, !.required = rank]
<1>1. priced \in ActionRow /\ priced.blocking = blocking /\ priced.qty = act.qty
  BY DEF ActionRow
<1>2. level \in 0..4 /\ (blocking => level < 3) BY LevelBounds
<1>3. rank \in 1..4 BY RankBounds
<1>4. Assessed(act, sim, blocking) = done BY DEF Assessed
<1> HIDE DEF priced, level, rank
<1>5. done \in ActionRow /\ done.qty = priced.qty /\ done.level = level /\ done.blocking = priced.blocking
  BY <1>1, <1>2, <1>3 DEF ActionRow
<1> HIDE DEF done
<1>6. done.level >= 3 => ~done.blocking BY <1>1, <1>2, <1>5
<1> QED BY <1>1, <1>4, <1>5, <1>6

(* The last row of a history is the last one added. *)
LEMMA LastAdded ==
  ASSUME NEW s \in Seq(ApprovalRow), NEW t \in Seq(ApprovalRow)
  PROVE  /\ s \o t \in Seq(ApprovalRow)
         /\ Len(t) > 0 => Len(s \o t) > 0 /\ LastOf(s \o t) = LastOf(t)
<1>1. s \o t \in Seq(ApprovalRow) OBVIOUS
<1>2. /\ Len(s) \in Nat /\ Len(t) \in Nat /\ Len(s \o t) = Len(s) + Len(t)
      /\ Len(t) > 0 => (s \o t)[Len(s) + Len(t)] = t[Len(t)]
  OBVIOUS
<1> QED BY <1>1, <1>2 DEF LastOf

(* The same when two histories are added. *)
LEMMA LastAddedTwice ==
  ASSUME NEW s \in Seq(ApprovalRow), NEW d \in Seq(ApprovalRow), NEW t \in Seq(ApprovalRow), Len(t) > 0
  PROVE  /\ d \o t \in Seq(ApprovalRow)
         /\ s \o (d \o t) \in Seq(ApprovalRow)
         /\ Len(s \o (d \o t)) > 0
         /\ LastOf(s \o (d \o t)) = LastOf(t)
<1> DEFINE dt == d \o t
<1>1. dt \in Seq(ApprovalRow) /\ Len(dt) > 0 /\ LastOf(dt) = LastOf(t)
  BY LastAdded
<1> HIDE DEF dt
<1>2. /\ s \o dt \in Seq(ApprovalRow) /\ Len(s \o dt) > 0 /\ LastOf(s \o dt) = LastOf(dt)
  BY <1>1, LastAdded
<1> QED BY <1>1, <1>2 DEF dt

(* The row a user adds. *)
LEMMA DecidedRows ==
  ASSUME NEW u \in Users, NEW decision \in Decisions, NEW qty \in Nat
  PROVE  /\ Decision(decision, u, qty) \in Seq(ApprovalRow)
         /\ Len(Decision(decision, u, qty)) > 0
         /\ LastOf(Decision(decision, u, qty)).decision = decision
         /\ LastOf(Decision(decision, u, qty)).qty = qty
<1>1. Rank(RoleOf[u]) \in 0..4 BY DEF Rank
<1> QED BY <1>1 DEF Decision, ApprovalRow, Decisions, LastOf

(* The row the autonomy policy adds. *)
LEMMA DecidedAuto ==
  ASSUME NEW act \in ActionRow
  PROVE  /\ AutoApproval(act) \in Seq(ApprovalRow)
         /\ Len(AutoApproval(act)) > 0
         /\ LastOf(AutoApproval(act)).decision = "APPROVE"
         /\ LastOf(AutoApproval(act)).qty = act.qty
<1>1. act.qty \in Nat BY DEF ActionRow
<1> QED BY <1>1 DEF AutoApproval, ApprovalRow, Decisions, LastOf

(* An action row and its history: approved means approved as it stands.     *)
Sound(act, history) ==
  /\ act \in ActionRow
  /\ history \in Seq(ApprovalRow)
  /\ act.status = "APPROVED" => /\ Len(history) > 0
                               /\ LastOf(history).decision = "APPROVE"
                               /\ LastOf(history).qty = act.qty
                               /\ ~act.blocking

(* The inductive invariant: typing, and soundness of every row.  Typing is  *)
(* needed for the autonomy level to be a number that a blocking check can   *)
(* pull below 3, which is what keeps blocked actions out of APPROVED.       *)
IInv == TypeOK /\ ApprovedAsIs

(* The invariant gives the tables their types, and the actions their rows.  *)
LEMMA IInvSound ==
  IInv <=> /\ DOMAIN action = Actions /\ action = [a \in Actions |-> action[a]]
           /\ DOMAIN approvals = Actions /\ approvals = [a \in Actions |-> approvals[a]]
           /\ \A a \in Actions : Sound(action[a], approvals[a])
           /\ executions \in [Actions -> Seq(ExecutionRow)]
           /\ rec \in {"OPEN", "DISMISSED", "ACTIONED", "GONE"}
           /\ alert \in AlertStatuses
           /\ mode \in AllModes
           /\ base \in 0..4
           /\ enabled \subseteq Rules
           /\ ladder \in Seq(Band)
           /\ noSelf \in BOOLEAN
BY DEF IInv, TypeOK, ApprovedAsIs, Sound

(* The kinds of step that write rows: all store a sound row, and the        *)
(* connector runs only with the approval just before it.                    *)
Settled(a) ==
  /\ action' = [action EXCEPT ![a] = action'[a]]
  /\ approvals' = [approvals EXCEPT ![a] = approvals'[a]]
  /\ Sound(action'[a], approvals'[a])
  /\ \/ UNCHANGED executions
     \/ /\ \E row \in ExecutionRow :
             /\ executions' = [executions EXCEPT ![a] = Append(@, row)]
             /\ row.qty = LastOf(approvals'[a]).qty
        /\ LastOf(approvals'[a]).decision = "APPROVE"
        /\ ~action'[a].blocking
  /\ rec' \in {"OPEN", "DISMISSED", "ACTIONED", "GONE"}
  /\ alert' \in AlertStatuses

(* Storing a sound row without touching executions settles the action.      *)
LEMMA StoreSettles ==
  ASSUME IInv, NEW a \in Actions, NEW act, NEW decided \in Seq(ApprovalRow),
         Store(a, act, decided), Sound(act, approvals[a] \o decided), UNCHANGED executions,
         rec' \in {"OPEN", "DISMISSED", "ACTIONED", "GONE"}, alert' = alert
  PROVE  Settled(a)
<1>1. /\ action'[a] = act /\ approvals'[a] = approvals[a] \o decided
      /\ action' = [action EXCEPT ![a] = act]
      /\ approvals' = [approvals EXCEPT ![a] = approvals[a] \o decided]
  BY DEF Store, IInv, TypeOK
<1> QED BY <1>1 DEF Settled, IInv, TypeOK

(* An approved row that is executed, or refused, settles the action too.    *)
LEMMA ExecutedSettles ==
  ASSUME IInv, NEW a \in Actions, NEW act, NEW decided \in Seq(ApprovalRow),
         Executed(a, act, decided) \/ Refused(a, act, decided),
         act.status = "APPROVED", Sound(act, approvals[a] \o decided)
  PROVE  Settled(a)
<1>0. /\ action \in [Actions -> ActionRow] /\ approvals \in [Actions -> Seq(ApprovalRow)]
      /\ executions \in [Actions -> Seq(ExecutionRow)]
      /\ rec \in {"OPEN", "DISMISSED", "ACTIONED", "GONE"} /\ alert \in AlertStatuses
  BY DEF IInv, TypeOK
<1>1. CASE /\ Store(a, act, decided) /\ UNCHANGED <<executions, rec, alert>>
  BY <1>0, <1>1, StoreSettles
<1>2. ASSUME NEW status \in {"VERIFIED", "FAILED"}, NEW kind \in {"SIMULATED", "FAILED"},
             Store(a, [act EXCEPT !.status = status], decided),
             executions' = [executions EXCEPT ![a] = Append(@, [status |-> kind, qty |-> act.qty])],
             rec' \in {"OPEN", "DISMISSED", "ACTIONED", "GONE"}, alert' \in AlertStatuses
      PROVE  Settled(a)
  <2> DEFINE after == [act EXCEPT !.status = status]
             row == [status |-> kind, qty |-> act.qty]
  <2>1. /\ after \in ActionRow /\ after.status # "APPROVED" /\ after.blocking = act.blocking
        /\ act.qty \in Nat
    BY DEF Sound, ActionRow, Statuses
  <2>2. row \in ExecutionRow /\ row.qty = act.qty BY <2>1 DEF ExecutionRow
  <2> HIDE DEF after, row
  <2>3. /\ action'[a] = after /\ approvals'[a] = approvals[a] \o decided
        /\ action' = [action EXCEPT ![a] = after]
        /\ approvals' = [approvals EXCEPT ![a] = approvals[a] \o decided]
    BY <1>0, <1>2 DEF Store, after
  <2>4. Sound(after, approvals[a] \o decided) BY <2>1 DEF Sound
  <2>5. /\ LastOf(approvals[a] \o decided).decision = "APPROVE"
        /\ LastOf(approvals[a] \o decided).qty = act.qty
        /\ ~act.blocking
    BY DEF Sound
  <2>6. executions' = [executions EXCEPT ![a] = Append(@, row)] BY <1>2 DEF row
  <2> QED BY <1>2, <2>1, <2>2, <2>3, <2>4, <2>5, <2>6 DEF Settled
<1>3. CASE Executed(a, act, decided) /\ mode = "SIMULATION_ONLY"
  <2>1. /\ rec' \in {"OPEN", "DISMISSED", "ACTIONED", "GONE"} /\ alert' \in AlertStatuses
    BY <1>0, <1>3 DEF Executed, AlertStatuses, OpenAlerts
  <2> QED BY <1>2, <1>3, <2>1 DEF Executed
<1>4. CASE Refused(a, act, decided)
  BY <1>0, <1>2, <1>4 DEF Refused
<1> QED BY <1>1, <1>3, <1>4 DEF Executed

(* process() settles the action, whatever rows its caller adds before.      *)
LEMMA ProcessSettles ==
  ASSUME IInv, NEW a \in Actions, NEW act \in ActionRow, NEW decided \in Seq(ApprovalRow),
         Process(a, act, decided)
  PROVE  Settled(a)
<1>0. /\ approvals[a] \in Seq(ApprovalRow)
      /\ base \in 0..4 /\ enabled \subseteq Rules /\ ladder \in Seq(Band)
      /\ rec \in {"OPEN", "DISMISSED", "ACTIONED", "GONE"}
  BY DEF IInv, TypeOK
<1>1. PICK sim \in SimulatedCosts(act), blocking \in PolicyFindings(act) :
        LET done == Assessed(act, sim, blocking)
        IN  Parked(a, done, decided) \/ AutoExecuted(a, done, decided)
  BY DEF Process
<1> DEFINE done == Assessed(act, sim, blocking)
<1>2. sim \in Nat /\ blocking \in BOOLEAN
  <2>1. SimulatedCosts(act) \subseteq Nat BY ActionAssumption DEF SimulatedCosts
  <2>2. PolicyFindings(act) \subseteq BOOLEAN BY DEF PolicyFindings
  <2> QED BY <2>1, <2>2
<1>3. done \in ActionRow /\ (done.level >= 3 => ~done.blocking)
  BY <1>0, <1>2, AssessedRow
<1>4. Parked(a, done, decided) \/ AutoExecuted(a, done, decided) BY <1>1
<1> HIDE DEF done
<1>5. CASE Parked(a, done, decided)
  <2>1. PICK status \in {"OBSERVED", "PENDING_APPROVAL"} :
          Store(a, [done EXCEPT !.status = status], decided) /\ UNCHANGED <<executions, rec, alert>>
    BY <1>5 DEF Parked
  <2>2. approvals[a] \o decided \in Seq(ApprovalRow) BY <1>0
  <2>3. Sound([done EXCEPT !.status = status], approvals[a] \o decided)
    BY <1>3, <2>2 DEF Sound, ActionRow, Statuses
  <2> QED BY <1>0, <2>1, <2>3, StoreSettles
<1>6. CASE AutoExecuted(a, done, decided)
  <2> DEFINE ready == [done EXCEPT !.status = "APPROVED"]
             rows2 == decided \o AutoApproval(done)
  <2>1. /\ ready \in ActionRow /\ ready.status = "APPROVED" /\ ready.qty = done.qty /\ ~ready.blocking
    BY <1>3, <1>6 DEF AutoExecuted, ActionRow, Statuses
  <2>2. Executed(a, ready, rows2) BY <1>6 DEF AutoExecuted
  <2>3. /\ AutoApproval(done) \in Seq(ApprovalRow) /\ Len(AutoApproval(done)) > 0
        /\ LastOf(AutoApproval(done)).decision = "APPROVE"
        /\ LastOf(AutoApproval(done)).qty = done.qty
    BY <1>3, DecidedAuto
  <2> HIDE DEF ready
  <2>4. /\ rows2 \in Seq(ApprovalRow)
        /\ approvals[a] \o rows2 \in Seq(ApprovalRow) /\ Len(approvals[a] \o rows2) > 0
        /\ LastOf(approvals[a] \o rows2) = LastOf(AutoApproval(done))
    <3> DEFINE last == AutoApproval(done)
    <3>1. /\ last \in Seq(ApprovalRow) /\ Len(last) > 0 /\ decided \in Seq(ApprovalRow)
          /\ approvals[a] \in Seq(ApprovalRow) /\ rows2 = decided \o last
      BY <1>0, <2>3
    <3> HIDE DEF last, rows2
    <3> QED BY <3>1, LastAddedTwice DEF last
  <2> HIDE DEF rows2
  <2>6. Sound(ready, approvals[a] \o rows2) BY <2>1, <2>3, <2>4 DEF Sound
  <2> QED BY <2>1, <2>2, <2>4, <2>6, ExecutedSettles
<1> QED BY <1>4, <1>5, <1>6

-----------------------------------------------------------------------------
(* Each request settles the action it is about *)

(* Both ways to create an action. *)
LEMMA CreateSettles ==
  ASSUME IInv, NEW a \in Actions, NEW u \in Users, Create(a, u) \/ CreateFromPlan(a, u)
  PROVE  Settled(a)
<1>0. /\ approvals[a] \in Seq(ApprovalRow)
      /\ base \in 0..4 /\ enabled \subseteq Rules /\ ladder \in Seq(Band)
  BY DEF IInv, TypeOK
<1>1. ASSUME NEW type \in ActionTypes, NEW qty \in Nat, NEW cost \in Nat, NEW fromRec \in BOOLEAN
      PROVE  New(type, qty, cost, u, fromRec) \in ActionRow
  BY DEF New, ActionRow, Statuses
<1>2. <<>> \in Seq(ApprovalRow) OBVIOUS
<1>3. CASE Create(a, u)
  <2>1. PICK type \in Types, qty \in Quantities, cost \in SimCosts \cup {0}, fromRec \in BOOLEAN :
          Process(a, New(type, qty, cost, u, fromRec), <<>>)
    BY <1>3 DEF Create
  <2>2. type \in ActionTypes /\ qty \in Nat /\ cost \in Nat BY ActionAssumption
  <2> QED BY <1>1, <1>2, <2>1, <2>2, ProcessSettles
<1>4. CASE CreateFromPlan(a, u)
  <2>1. PICK qty \in Quantities \ {0}, sim \in SimCosts, blocking \in BOOLEAN :
          LET done == Assessed(New("CREATE_PO", qty, 0, u, FALSE), sim, blocking)
          IN  \/ Parked(a, done, <<>>)
              \/ AutoExecuted(a, done, <<>>)
              \/ done.level >= 3 /\ Refused(a, [done EXCEPT !.status = "APPROVED"], AutoApproval(done))
    BY <1>4 DEF CreateFromPlan
  <2> DEFINE fresh == New("CREATE_PO", qty, 0, u, FALSE)
             done == Assessed(fresh, sim, blocking)
  <2>2. qty \in Nat /\ sim \in Nat /\ "CREATE_PO" \in ActionTypes
    BY ActionAssumption DEF ActionTypes, PurchaseLike
  <2>3. fresh \in ActionRow /\ fresh.type = "CREATE_PO" /\ fresh.qty = qty
    BY <1>1, <2>2 DEF New
  <2>4. CASE Parked(a, done, <<>>) \/ AutoExecuted(a, done, <<>>)
    <3>1. qty # 0 OBVIOUS
    <3>2. sim \in SimulatedCosts(fresh) /\ blocking \in PolicyFindings(fresh)
      BY <2>3, <3>1 DEF SimulatedCosts, PolicyFindings, PricedTypes, PurchaseLike
    <3> HIDE DEF fresh
    <3>3. Process(a, fresh, <<>>) BY <2>4, <3>2 DEF Process
    <3> QED BY <1>2, <2>3, <3>3, ProcessSettles
  <2>5. CASE done.level >= 3 /\ Refused(a, [done EXCEPT !.status = "APPROVED"], AutoApproval(done))
    <3> HIDE DEF fresh
    <3>1. done \in ActionRow /\ (done.level >= 3 => ~done.blocking)
      BY <1>0, <2>2, <2>3, AssessedRow
    <3> HIDE DEF done
    <3> DEFINE ready == [done EXCEPT !.status = "APPROVED"]
    <3>2. ready \in ActionRow /\ ready.status = "APPROVED" /\ ready.qty = done.qty /\ ~ready.blocking
      BY <2>5, <3>1 DEF ActionRow, Statuses
    <3>3. /\ AutoApproval(done) \in Seq(ApprovalRow) /\ Len(AutoApproval(done)) > 0
          /\ LastOf(AutoApproval(done)).decision = "APPROVE"
          /\ LastOf(AutoApproval(done)).qty = done.qty
      BY <3>1, DecidedAuto
    <3> HIDE DEF ready
    <3>4. /\ approvals[a] \o AutoApproval(done) \in Seq(ApprovalRow)
          /\ Len(approvals[a] \o AutoApproval(done)) > 0
          /\ LastOf(approvals[a] \o AutoApproval(done)) = LastOf(AutoApproval(done))
      BY <1>0, <3>3, LastAdded
    <3>5. Sound(ready, approvals[a] \o AutoApproval(done)) BY <3>2, <3>3, <3>4 DEF Sound
    <3> QED BY <2>5, <3>2, <3>3, <3>5, ExecutedSettles DEF ready
  <2> QED BY <2>1, <2>4, <2>5
<1> QED BY <1>3, <1>4

(* The four decisions of a user. *)
LEMMA DecisionSettles ==
  ASSUME IInv, NEW a \in Actions, NEW u \in Users,
         Approve(a, u) \/ Reject(a, u) \/ Escalate(a, u) \/ Modify(a, u)
  PROVE  Settled(a)
<1>0. /\ approvals[a] \in Seq(ApprovalRow) /\ Len(approvals[a]) \in Nat /\ action[a] \in ActionRow
      /\ action[a].qty \in Nat /\ action[a].required \in 1..4
      /\ rec \in {"OPEN", "DISMISSED", "ACTIONED", "GONE"}
  BY DEF IInv, TypeOK, ActionRow
<1>1. ASSUME NEW decision \in Decisions, NEW qty \in Nat
      PROVE  /\ Decision(decision, u, qty) \in Seq(ApprovalRow)
             /\ approvals[a] \o Decision(decision, u, qty) \in Seq(ApprovalRow)
             /\ Len(approvals[a] \o Decision(decision, u, qty)) > 0
             /\ LastOf(approvals[a] \o Decision(decision, u, qty)).decision = decision
             /\ LastOf(approvals[a] \o Decision(decision, u, qty)).qty = qty
  <2> DEFINE row == Decision(decision, u, qty)
  <2>1. /\ row \in Seq(ApprovalRow) /\ Len(row) > 0
        /\ LastOf(row).decision = decision /\ LastOf(row).qty = qty
    BY DecidedRows
  <2> HIDE DEF row
  <2>2. /\ approvals[a] \o row \in Seq(ApprovalRow) /\ Len(approvals[a] \o row) > 0
        /\ LastOf(approvals[a] \o row) = LastOf(row)
    BY <1>0, <2>1, LastAdded
  <2> QED BY <2>1, <2>2 DEF row
<1>2. CASE Approve(a, u)
  <2> DEFINE ready == [action[a] EXCEPT !.status = "APPROVED"]
  <2>1. ready \in ActionRow /\ ready.status = "APPROVED" /\ ready.qty = action[a].qty
        /\ ready.blocking = action[a].blocking
    BY <1>0 DEF ActionRow, Statuses
  <2> HIDE DEF ready
  <2>2. Executed(a, ready, Decision("APPROVE", u, action[a].qty)) /\ ~action[a].blocking
    BY <1>2 DEF Approve, ready
  <2>3. "APPROVE" \in Decisions BY DEF Decisions
  <2>4. Sound(ready, approvals[a] \o Decision("APPROVE", u, action[a].qty))
    BY <1>0, <1>1, <2>1, <2>2, <2>3 DEF Sound
  <2> QED BY <1>0, <1>1, <2>1, <2>2, <2>3, <2>4, ExecutedSettles
<1>3. CASE Reject(a, u)
  <2> DEFINE after == [action[a] EXCEPT !.status = "REJECTED"]
  <2>1. after \in ActionRow /\ after.status # "APPROVED" BY <1>0 DEF ActionRow, Statuses
  <2>2. "REJECT" \in Decisions BY DEF Decisions
  <2>3. Store(a, after, Decision("REJECT", u, action[a].qty)) BY <1>3 DEF Reject
  <2> HIDE DEF after
  <2>4. Sound(after, approvals[a] \o Decision("REJECT", u, action[a].qty))
    BY <1>0, <1>1, <2>1, <2>2 DEF Sound
  <2>5. /\ rec' \in {"OPEN", "DISMISSED", "ACTIONED", "GONE"} /\ alert' = alert
        /\ UNCHANGED executions
    BY <1>0, <1>3 DEF Reject
  <2> QED BY <1>0, <1>1, <2>2, <2>3, <2>4, <2>5, StoreSettles
<1>4. CASE Escalate(a, u)
  <2> DEFINE after == [action[a] EXCEPT !.status = "ESCALATED", !.required = AtMost(@ + 1, 3)]
  <2>1. AtMost(action[a].required + 1, 3) \in 1..4 BY <1>0 DEF AtMost
  <2>2. after \in ActionRow /\ after.status # "APPROVED" BY <1>0, <2>1 DEF ActionRow, Statuses
  <2>3. "ESCALATE" \in Decisions BY DEF Decisions
  <2>4. Store(a, after, Decision("ESCALATE", u, action[a].qty)) BY <1>4 DEF Escalate
  <2> HIDE DEF after
  <2>5. Sound(after, approvals[a] \o Decision("ESCALATE", u, action[a].qty))
    BY <1>0, <1>1, <2>2, <2>3 DEF Sound
  <2>6. rec' = rec /\ alert' = alert /\ UNCHANGED executions BY <1>4 DEF Escalate
  <2> QED BY <1>0, <1>1, <2>3, <2>4, <2>5, <2>6, StoreSettles
<1>5. CASE Modify(a, u)
  <2>1. "MODIFY" \in Decisions BY DEF Decisions
  <2>2. CASE Process(a, action[a], Decision("MODIFY", u, action[a].qty))
    BY <1>0, <1>1, <2>1, <2>2, ProcessSettles
  <2>3. ASSUME NEW qty \in Quantities \ {0},
               Process(a, [action[a] EXCEPT !.qty = qty, !.cost = 0], Decision("MODIFY", u, qty))
        PROVE  Settled(a)
    <3>1. qty \in Nat BY ActionAssumption
    <3>2. [action[a] EXCEPT !.qty = qty, !.cost = 0] \in ActionRow BY <1>0, <3>1 DEF ActionRow
    <3> QED BY <1>1, <2>1, <2>3, <3>1, <3>2, ProcessSettles
  <2> QED BY <1>5, <2>2, <2>3 DEF Modify
<1> QED BY <1>2, <1>3, <1>4, <1>5

(* The execute button. *)
LEMMA ExecuteSettles ==
  ASSUME IInv, NEW a \in Actions, NEW u \in Users, Execute(a, u)
  PROVE  Settled(a)
<1>1. Sound(action[a], approvals[a]) /\ approvals[a] \in Seq(ApprovalRow)
  BY IInvSound, IInv DEF Sound
<1>2. approvals[a] \o <<>> = approvals[a] /\ <<>> \in Seq(ApprovalRow) BY <1>1
<1> QED BY <1>1, <1>2, ExecutedSettles DEF Execute
-----------------------------------------------------------------------------
(* The inductive invariant *)

(* Every row is absent at first. *)
LEMMA InitKeeps == Init => IInv
<1> SUFFICES ASSUME Init PROVE IInv
  OBVIOUS
<1> DEFINE fresh == New("CREATE_PO", 0, 0, System, FALSE)
<1>0. /\ fresh \in ActionRow
      /\ Absent = [fresh EXCEPT !.status = "NONE"]
  BY DEF Absent, New, ActionRow, ActionTypes, PurchaseLike, Statuses
<1> HIDE DEF fresh
<1>1. Absent \in ActionRow /\ Absent.status = "NONE"
  BY <1>0 DEF ActionRow, Statuses
<1> HIDE DEF Absent
<1>2. <<>> \in Seq(ApprovalRow) /\ <<>> \in Seq(ExecutionRow)
  OBVIOUS
<1>3. /\ action \in [Actions -> ActionRow] /\ approvals \in [Actions -> Seq(ApprovalRow)]
      /\ executions \in [Actions -> Seq(ExecutionRow)]
      /\ \A a \in Actions : action[a].status = "NONE"
  BY <1>1, <1>2 DEF Init
<1>4. /\ rec \in {"OPEN", "DISMISSED", "ACTIONED", "GONE"} /\ alert \in AlertStatuses
      /\ mode \in AllModes /\ base \in 0..4 /\ enabled \subseteq Rules
      /\ ladder \in Seq(Band) /\ noSelf \in BOOLEAN
  BY ActionAssumption DEF Init, AlertStatuses, OpenAlerts
<1> QED BY <1>3, <1>4 DEF IInv, TypeOK, ApprovedAsIs

(* A settled action keeps the invariant when the settings stay. *)
LEMMA SettledKeeps ==
  ASSUME IInv, NEW a \in Actions, Settled(a), UNCHANGED settings
  PROVE  IInv'
<1>1. /\ action \in [Actions -> ActionRow] /\ approvals \in [Actions -> Seq(ApprovalRow)]
      /\ executions \in [Actions -> Seq(ExecutionRow)]
  BY DEF IInv, TypeOK
<1>2. action'[a] \in ActionRow /\ approvals'[a] \in Seq(ApprovalRow)
  BY DEF Settled, Sound
<1>3. action' \in [Actions -> ActionRow] /\ approvals' \in [Actions -> Seq(ApprovalRow)]
  BY <1>1, <1>2 DEF Settled
<1>4. executions' \in [Actions -> Seq(ExecutionRow)]
  <2>1. ASSUME NEW row \in ExecutionRow, executions' = [executions EXCEPT ![a] = Append(@, row)]
        PROVE  executions' \in [Actions -> Seq(ExecutionRow)]
    <3>1. Append(executions[a], row) \in Seq(ExecutionRow) BY <1>1
    <3> QED BY <1>1, <2>1, <3>1
  <2> QED BY <1>1, <2>1 DEF Settled
<1>5. TypeOK'
  BY <1>3, <1>4 DEF IInv, TypeOK, Settled, settings
<1>6. \A b \in Actions : Sound(action'[b], approvals'[b])
  <2> TAKE b \in Actions
  <2>1. Sound(action[b], approvals[b]) BY IInvSound
  <2>2. b # a => action'[b] = action[b] /\ approvals'[b] = approvals[b]
    BY <1>1 DEF Settled
  <2> QED BY <2>1, <2>2 DEF Settled
<1>7. ApprovedAsIs'
  BY <1>6 DEF ApprovedAsIs, Sound
<1> QED BY <1>5, <1>7 DEF IInv

(* Every request of a user settles the action it names. *)
LEMMA RequestSettles ==
  ASSUME IInv, NEW a \in Actions, NEW u \in Users,
         \/ Create(a, u) \/ CreateFromPlan(a, u)
         \/ Approve(a, u) \/ Reject(a, u) \/ Escalate(a, u) \/ Modify(a, u)
         \/ Execute(a, u)
  PROVE  Settled(a) /\ UNCHANGED settings
<1>1. CASE Create(a, u) \/ CreateFromPlan(a, u)
  BY <1>1, CreateSettles DEF Create, CreateFromPlan
<1>2. CASE Approve(a, u) \/ Reject(a, u) \/ Escalate(a, u) \/ Modify(a, u)
  BY <1>2, DecisionSettles DEF Approve, Reject, Escalate, Modify
<1>3. CASE Execute(a, u)
  BY <1>3, ExecuteSettles DEF Execute
<1> QED BY <1>1, <1>2, <1>3

(* Steps that write no row of an action: the recommendation, the alert and  *)
(* the settings.                                                            *)
LEMMA OthersKeep ==
  ASSUME IInv, Dismiss \/ Regenerate \/ MoveAlert \/ Configure
  PROVE  IInv' /\ UNCHANGED <<action, approvals, executions>>
<1>1. UNCHANGED <<action, approvals, executions>>
  BY DEF Dismiss, Regenerate, MoveAlert, Configure, rows
<1>2. ApprovedAsIs'
  BY <1>1 DEF IInv, ApprovedAsIs
<1>3. CASE Dismiss \/ Regenerate \/ MoveAlert
  <2>1. /\ rec' \in {"OPEN", "DISMISSED", "ACTIONED", "GONE"} /\ alert' \in AlertStatuses
        /\ UNCHANGED settings
    BY <1>3, ActionAssumption DEF IInv, TypeOK, Dismiss, Regenerate, MoveAlert
  <2> QED BY <1>1, <1>2, <2>1 DEF IInv, TypeOK, settings
<1>4. CASE Configure
  <2>1. UNCHANGED <<rec, alert>> BY <1>4 DEF Configure, rows
  <2>2. mode' \in AllModes /\ base' \in 0..4 /\ ladder' \in Seq(Band)
    BY <1>4, ActionAssumption DEF Configure, IInv, TypeOK
  <2>3. enabled' \subseteq Rules /\ noSelf' \in BOOLEAN
    BY <1>4 DEF Configure, IInv, TypeOK
  <2> QED BY <1>1, <1>2, <2>1, <2>2, <2>3 DEF IInv, TypeOK
<1> QED BY <1>1, <1>3, <1>4

(* The invariant is inductive. *)
LEMMA StepKeeps == IInv /\ [Next]_vars => IInv'
<1> SUFFICES ASSUME IInv, [Next]_vars PROVE IInv'
  OBVIOUS
<1>1. CASE \E a \in Actions, u \in Users :
             \/ Create(a, u) \/ CreateFromPlan(a, u)
             \/ Approve(a, u) \/ Reject(a, u) \/ Escalate(a, u) \/ Modify(a, u)
             \/ Execute(a, u)
  BY <1>1, RequestSettles, SettledKeeps
<1>2. CASE Dismiss \/ Regenerate \/ MoveAlert \/ Configure
  BY <1>2, OthersKeep
<1>3. CASE UNCHANGED vars
  BY <1>3 DEF vars, rows, settings, IInv, TypeOK, ApprovedAsIs
<1> QED BY <1>1, <1>2, <1>3 DEF Next

-----------------------------------------------------------------------------
(* Theorems *)

(* Every state of the action workflow satisfies the inductive invariant.    *)
THEOREM Invariant == Spec => []IInv
<1> QED BY InitKeeps, StepKeeps, PTL DEF Spec

(* Every column and every setting keeps its type. *)
THEOREM TypeCorrect == Spec => []TypeOK
<1>1. IInv => TypeOK BY DEF IInv
<1> QED BY <1>1, Invariant, PTL

(* No interleaving of approvals, modifications, escalations and changes of  *)
(* settings leaves an action executable whose last decision is anything but *)
(* an approval of what it asks for now.                                     *)
THEOREM ApprovedIsApproved == Spec => []ApprovedAsIs
<1>1. IInv => ApprovedAsIs BY DEF IInv
<1> QED BY <1>1, Invariant, PTL

(* A step that appends an execution row does so on the approval before it.  *)
LEMMA StepApproved ==
  ASSUME IInv, [Next]_vars, NEW b \in Actions, Len(executions'[b]) > Len(executions[b])
  PROVE  /\ LastOf(approvals'[b]).decision = "APPROVE"
         /\ LastOf(approvals'[b]).qty = LastOf(executions'[b]).qty
         /\ ~action'[b].blocking
<1>0. executions \in [Actions -> Seq(ExecutionRow)] /\ Len(executions[b]) \in Nat
  BY DEF IInv, TypeOK
<1>1. executions' # executions BY <1>0
<1>2. PICK a \in Actions : Settled(a)
  BY <1>1, RequestSettles, OthersKeep DEF Next, vars, rows
<1>3. PICK row \in ExecutionRow :
        /\ executions' = [executions EXCEPT ![a] = Append(@, row)]
        /\ row.qty = LastOf(approvals'[a]).qty
  BY <1>1, <1>2 DEF Settled
<1>4. LastOf(approvals'[a]).decision = "APPROVE" /\ ~action'[a].blocking
  BY <1>1, <1>2 DEF Settled
<1>5. b = a BY <1>0, <1>3
<1>6. executions'[a] = Append(executions[a], row) BY <1>0, <1>3
<1>7. LastOf(executions'[a]) = row BY <1>0, <1>5, <1>6 DEF LastOf
<1> QED BY <1>3, <1>4, <1>5, <1>7

(* The connector is called for the quantity approved last, and never with a *)
(* blocking policy check, whichever request calls it.                       *)
THEOREM ExecutionApproved == Spec => ExecutesWhatWasApproved
<1>1. IInv /\ [Next]_vars =>
        [\A a \in Actions : Len(executions'[a]) > Len(executions[a]) =>
           /\ LastOf(approvals'[a]).decision = "APPROVE"
           /\ LastOf(approvals'[a]).qty = LastOf(executions'[a]).qty
           /\ ~action'[a].blocking]_vars
  BY StepApproved
<1> QED BY <1>1, Invariant, PTL DEF Spec, ExecutesWhatWasApproved

-----------------------------------------------------------------------------
(* The recommendation: what marks it as acted upon *)

(* A step about action a, which leaves it with the origin of act, keeps all *)
(* that was executed, and marks the recommendation only with an execution.  *)
Traced(a, act) ==
  /\ action'[a].fromRec = act.fromRec
  /\ action'[a].status # "NONE"
  /\ \A b \in Actions : b # a => action'[b] = action[b] /\ executions'[b] = executions[b]
  /\ Simulated(a) \subseteq Simulated(a)'
  /\ rec' = "ACTIONED" => rec = "ACTIONED" \/ (act.fromRec /\ Simulated(a)' # {})

(* A row that is stored while nothing is executed.                          *)
LEMMA StoreTraced ==
  ASSUME IInv, NEW a \in Actions, NEW act, NEW decided,
         Store(a, act, decided), act.status # "NONE", UNCHANGED executions,
         rec' = "ACTIONED" => rec = "ACTIONED"
  PROVE  Traced(a, act)
<1>1. action \in [Actions -> ActionRow] BY DEF IInv, TypeOK
<1>2. action' = [action EXCEPT ![a] = act] BY DEF Store
<1> QED BY <1>1, <1>2 DEF Traced, Simulated

(* What is executed is added to what was.                                   *)
LEMMA AppendedExecution ==
  ASSUME IInv, NEW a \in Actions, NEW row \in ExecutionRow,
         executions' = [executions EXCEPT ![a] = Append(@, row)]
  PROVE  /\ \A b \in Actions : b # a => executions'[b] = executions[b]
         /\ Simulated(a) \subseteq Simulated(a)'
         /\ row.status = "SIMULATED" => Simulated(a)' # {}
<1> DEFINE s == executions[a]
<1>1. executions \in [Actions -> Seq(ExecutionRow)] BY DEF IInv, TypeOK
<1>2. s \in Seq(ExecutionRow) /\ Len(s) \in Nat BY <1>1
<1>3. executions'[a] = Append(s, row) BY <1>1
<1> HIDE DEF s
<1>4. /\ Len(Append(s, row)) = Len(s) + 1
      /\ Append(s, row)[Len(s) + 1] = row
      /\ \A i \in 1..Len(s) : Append(s, row)[i] = s[i]
  BY <1>2
<1>5. Simulated(a)' = {i \in 1..(Len(s) + 1) : Append(s, row)[i].status = "SIMULATED"}
  BY <1>3, <1>4 DEF Simulated
<1>6. Simulated(a) = {i \in 1..Len(s) : s[i].status = "SIMULATED"} BY DEF Simulated, s
<1>7. Simulated(a) \subseteq Simulated(a)' BY <1>2, <1>4, <1>5, <1>6
<1>8. row.status = "SIMULATED" => Len(s) + 1 \in Simulated(a)' BY <1>2, <1>4, <1>5
<1> QED BY <1>1, <1>7, <1>8

(* An execution, carried out, refused or only recommended.                  *)
LEMMA ExecutedTraced ==
  ASSUME IInv, NEW a \in Actions, NEW act \in ActionRow, NEW decided,
         act.status = "APPROVED", Executed(a, act, decided) \/ Refused(a, act, decided)
  PROVE  Traced(a, act)
<1>0. action \in [Actions -> ActionRow] /\ act.qty \in Nat BY DEF IInv, TypeOK, ActionRow
<1>1. CASE Store(a, act, decided) /\ UNCHANGED <<executions, rec, alert>>
  BY <1>1, StoreTraced
<1>2. ASSUME NEW status \in {"VERIFIED", "FAILED"}, NEW kind \in {"SIMULATED", "FAILED"},
             Store(a, [act EXCEPT !.status = status], decided),
             executions' = [executions EXCEPT ![a] = Append(@, [status |-> kind, qty |-> act.qty])],
             rec' = "ACTIONED" => rec = "ACTIONED" \/ (act.fromRec /\ kind = "SIMULATED")
      PROVE  Traced(a, act)
  <2> DEFINE after == [act EXCEPT !.status = status]
             row == [status |-> kind, qty |-> act.qty]
  <2>1. after.status # "NONE" /\ after.fromRec = act.fromRec BY DEF ActionRow
  <2>2. row \in ExecutionRow /\ row.status = kind BY <1>0 DEF ExecutionRow
  <2>3. action' = [action EXCEPT ![a] = after] BY <1>2 DEF Store
  <2> HIDE DEF after
  <2>4. executions' = [executions EXCEPT ![a] = Append(@, row)] BY <1>2
  <2> HIDE DEF row
  <2>5. /\ \A b \in Actions : b # a => executions'[b] = executions[b]
        /\ Simulated(a) \subseteq Simulated(a)'
        /\ kind = "SIMULATED" => Simulated(a)' # {}
    BY <2>2, <2>4, AppendedExecution
  <2>6. action'[a] = after /\ \A b \in Actions : b # a => action'[b] = action[b]
    BY <1>0, <2>3
  <2> QED BY <1>2, <2>1, <2>5, <2>6 DEF Traced
<1>3. CASE Executed(a, act, decided) /\ mode = "SIMULATION_ONLY"
  BY <1>2, <1>3 DEF Executed
<1>4. CASE Refused(a, act, decided)
  BY <1>2, <1>4 DEF Refused
<1> QED BY <1>1, <1>3, <1>4 DEF Executed

(* process() keeps the origin of the row it is given.                       *)
LEMMA ProcessTraced ==
  ASSUME IInv, NEW a \in Actions, NEW act \in ActionRow, NEW decided,
         Process(a, act, decided)
  PROVE  Traced(a, act)
<1>0. base \in 0..4 /\ enabled \subseteq Rules /\ ladder \in Seq(Band) BY DEF IInv, TypeOK
<1>1. PICK sim \in SimulatedCosts(act), blocking \in PolicyFindings(act) :
        LET done == Assessed(act, sim, blocking)
        IN  Parked(a, done, decided) \/ AutoExecuted(a, done, decided)
  BY DEF Process
<1> DEFINE done == Assessed(act, sim, blocking)
<1>2. sim \in Nat /\ blocking \in BOOLEAN
  <2>1. SimulatedCosts(act) \subseteq Nat BY ActionAssumption DEF SimulatedCosts
  <2>2. PolicyFindings(act) \subseteq BOOLEAN BY DEF PolicyFindings
  <2> QED BY <2>1, <2>2
<1>3. done \in ActionRow BY <1>0, <1>2, AssessedRow
<1>4. done.fromRec = act.fromRec BY DEF Assessed, ActionRow
<1>5. Parked(a, done, decided) \/ AutoExecuted(a, done, decided) BY <1>1
<1> HIDE DEF done
<1>6. ASSUME NEW row, row.fromRec = done.fromRec, Traced(a, row) PROVE Traced(a, act)
  BY <1>4, <1>6 DEF Traced
<1>7. CASE Parked(a, done, decided)
  <2>1. PICK status \in {"OBSERVED", "PENDING_APPROVAL"} :
          Store(a, [done EXCEPT !.status = status], decided) /\ UNCHANGED <<executions, rec, alert>>
    BY <1>7 DEF Parked
  <2> DEFINE parked == [done EXCEPT !.status = status]
  <2>2. parked.status # "NONE" /\ parked.fromRec = done.fromRec BY <1>3 DEF ActionRow
  <2> HIDE DEF parked
  <2>3. Traced(a, parked) BY <2>1, <2>2, StoreTraced DEF parked
  <2> QED BY <1>6, <2>2, <2>3
<1>8. CASE AutoExecuted(a, done, decided)
  <2> DEFINE ready == [done EXCEPT !.status = "APPROVED"]
  <2>1. ready \in ActionRow /\ ready.status = "APPROVED" /\ ready.fromRec = done.fromRec
    BY <1>3 DEF ActionRow, Statuses
  <2>2. Executed(a, ready, decided \o AutoApproval(done)) BY <1>8 DEF AutoExecuted
  <2> HIDE DEF ready
  <2>3. Traced(a, ready) BY <2>1, <2>2, ExecutedTraced
  <2> QED BY <1>6, <2>1, <2>3
<1> QED BY <1>5, <1>7, <1>8

(* An action that does not exist yet comes from no recommendation, and a    *)
(* recommendation that is marked has an execution.                          *)
RecInv ==
  /\ ActionedWasExecuted
  /\ \A a \in Actions : action[a].status = "NONE" => ~action[a].fromRec

(* Every request keeps the origin of the action it is about, once the       *)
(* action has one.                                                          *)
LEMMA RequestTraced ==
  ASSUME IInv, RecInv, NEW a \in Actions, NEW u \in Users,
         \/ Create(a, u) \/ CreateFromPlan(a, u)
         \/ Approve(a, u) \/ Reject(a, u) \/ Escalate(a, u) \/ Modify(a, u)
         \/ Execute(a, u)
  PROVE  \E act : Traced(a, act) /\ (action[a].fromRec => act.fromRec)
<1>0. /\ action[a] \in ActionRow /\ action[a].qty \in Nat /\ action[a].required \in 1..4
      /\ base \in 0..4 /\ enabled \subseteq Rules /\ ladder \in Seq(Band)
  BY DEF IInv, TypeOK, ActionRow
<1>1. ASSUME NEW type \in ActionTypes, NEW qty \in Nat, NEW cost \in Nat, NEW fromRec \in BOOLEAN
      PROVE  New(type, qty, cost, u, fromRec) \in ActionRow
  BY DEF New, ActionRow, Statuses
<1>2. CASE Create(a, u)
  <2>1. PICK type \in Types, qty \in Quantities, cost \in SimCosts \cup {0}, fromRec \in BOOLEAN :
          Process(a, New(type, qty, cost, u, fromRec), <<>>)
    BY <1>2 DEF Create
  <2>2. type \in ActionTypes /\ qty \in Nat /\ cost \in Nat BY ActionAssumption
  <2>3. ~action[a].fromRec BY <1>2 DEF Create, RecInv
  <2> QED BY <1>1, <2>1, <2>2, <2>3, ProcessTraced
<1>3. CASE CreateFromPlan(a, u)
  <2>1. PICK qty \in Quantities \ {0}, sim \in SimCosts, blocking \in BOOLEAN :
          LET done == Assessed(New("CREATE_PO", qty, 0, u, FALSE), sim, blocking)
          IN  \/ Parked(a, done, <<>>)
              \/ AutoExecuted(a, done, <<>>)
              \/ done.level >= 3 /\ Refused(a, [done EXCEPT !.status = "APPROVED"], AutoApproval(done))
    BY <1>3 DEF CreateFromPlan
  <2> DEFINE fresh == New("CREATE_PO", qty, 0, u, FALSE)
             done == Assessed(fresh, sim, blocking)
  <2>2. qty \in Nat /\ qty # 0 /\ sim \in Nat /\ "CREATE_PO" \in ActionTypes
    BY ActionAssumption DEF ActionTypes, PurchaseLike
  <2>3. fresh \in ActionRow /\ fresh.type = "CREATE_PO" /\ fresh.qty = qty
    BY <1>1, <2>2 DEF New
  <2>4. ~action[a].fromRec BY <1>3 DEF CreateFromPlan, RecInv
  <2>5. CASE Parked(a, done, <<>>) \/ AutoExecuted(a, done, <<>>)
    <3>1. sim \in SimulatedCosts(fresh) /\ blocking \in PolicyFindings(fresh)
      BY <2>2, <2>3 DEF SimulatedCosts, PolicyFindings, PricedTypes, PurchaseLike
    <3> HIDE DEF fresh
    <3>2. Process(a, fresh, <<>>) BY <2>5, <3>1 DEF Process
    <3> QED BY <2>3, <2>4, <3>2, ProcessTraced
  <2>6. CASE Refused(a, [done EXCEPT !.status = "APPROVED"], AutoApproval(done))
    <3> HIDE DEF fresh
    <3>1. done \in ActionRow BY <1>0, <2>2, <2>3, AssessedRow
    <3> HIDE DEF done
    <3> DEFINE ready == [done EXCEPT !.status = "APPROVED"]
    <3>2. ready \in ActionRow /\ ready.status = "APPROVED" BY <3>1 DEF ActionRow, Statuses
    <3> HIDE DEF ready
    <3>3. Traced(a, ready) BY <2>6, <3>2, ExecutedTraced DEF ready
    <3> QED BY <2>4, <3>3
  <2> QED BY <2>1, <2>5, <2>6
<1>4. CASE Approve(a, u)
  <2> DEFINE ready == [action[a] EXCEPT !.status = "APPROVED"]
  <2>1. ready \in ActionRow /\ ready.status = "APPROVED" /\ ready.fromRec = action[a].fromRec
    BY <1>0 DEF ActionRow, Statuses
  <2> HIDE DEF ready
  <2>2. Executed(a, ready, Decision("APPROVE", u, action[a].qty)) BY <1>4 DEF Approve, ready
  <2>3. Traced(a, ready) BY <2>1, <2>2, ExecutedTraced
  <2> QED BY <2>1, <2>3
<1>5. CASE Reject(a, u)
  <2> DEFINE after == [action[a] EXCEPT !.status = "REJECTED"]
  <2>1. after.status # "NONE" /\ after.fromRec = action[a].fromRec BY <1>0 DEF ActionRow
  <2>2. Store(a, after, Decision("REJECT", u, action[a].qty)) BY <1>5 DEF Reject
  <2>3. UNCHANGED executions /\ (rec' = "ACTIONED" => rec = "ACTIONED") BY <1>5 DEF Reject
  <2> HIDE DEF after
  <2>4. Traced(a, after) BY <2>1, <2>2, <2>3, StoreTraced
  <2> QED BY <2>1, <2>4
<1>6. CASE Escalate(a, u)
  <2> DEFINE after == [action[a] EXCEPT !.status = "ESCALATED", !.required = AtMost(@ + 1, 3)]
  <2>1. after.status # "NONE" /\ after.fromRec = action[a].fromRec BY <1>0 DEF ActionRow
  <2>2. Store(a, after, Decision("ESCALATE", u, action[a].qty)) BY <1>6 DEF Escalate
  <2>3. UNCHANGED executions /\ rec' = rec BY <1>6 DEF Escalate
  <2> HIDE DEF after
  <2>4. Traced(a, after) BY <2>1, <2>2, <2>3, StoreTraced
  <2> QED BY <2>1, <2>4
<1>7. CASE Modify(a, u)
  <2>1. CASE Process(a, action[a], Decision("MODIFY", u, action[a].qty))
    BY <1>0, <2>1, ProcessTraced
  <2>2. ASSUME NEW qty \in Quantities \ {0},
               Process(a, [action[a] EXCEPT !.qty = qty, !.cost = 0], Decision("MODIFY", u, qty))
        PROVE  \E act : Traced(a, act) /\ (action[a].fromRec => act.fromRec)
    <3> DEFINE changed == [action[a] EXCEPT !.qty = qty, !.cost = 0]
    <3>1. qty \in Nat BY ActionAssumption
    <3>2. changed \in ActionRow /\ changed.fromRec = action[a].fromRec
      BY <1>0, <3>1 DEF ActionRow
    <3> HIDE DEF changed
    <3>3. Traced(a, changed) BY <2>2, <3>2, ProcessTraced DEF changed
    <3> QED BY <3>2, <3>3
  <2> QED BY <1>7, <2>1, <2>2 DEF Modify
<1>8. CASE Execute(a, u)
  <2>1. Traced(a, action[a]) BY <1>0, <1>8, ExecutedTraced DEF Execute
  <2> QED BY <2>1
<1> QED BY <1>2, <1>3, <1>4, <1>5, <1>6, <1>7, <1>8

(* A traced step keeps the recommendation's invariant: the action that was  *)
(* executed is still there, and still comes from the recommendation.        *)
LEMMA TracedKeeps ==
  ASSUME RecInv, NEW a \in Actions, NEW act, Traced(a, act), action[a].fromRec => act.fromRec
  PROVE  RecInv'
<1>1. \A b \in Actions : /\ action[b].fromRec => action'[b].fromRec
                         /\ Simulated(b) \subseteq Simulated(b)'
  BY DEF Traced, Simulated
<1>2. \A b \in Actions : action'[b].status = "NONE" => ~action'[b].fromRec
  BY DEF Traced, RecInv
<1>3. ASSUME rec' = "ACTIONED"
      PROVE  \E b \in Actions : action'[b].fromRec /\ Simulated(b)' # {}
  <2>1. CASE rec = "ACTIONED"
    <3>1. PICK b \in Actions : action[b].fromRec /\ Simulated(b) # {}
      BY <2>1 DEF RecInv, ActionedWasExecuted
    <3> QED BY <1>1, <3>1
  <2>2. CASE act.fromRec /\ Simulated(a)' # {}
    BY <2>2 DEF Traced
  <2> QED BY <1>3, <2>1, <2>2 DEF Traced
<1> QED BY <1>2, <1>3 DEF RecInv, ActionedWasExecuted

(* Every step keeps it. *)
LEMMA RecStepKeeps == IInv /\ RecInv /\ [Next]_vars => RecInv'
<1> SUFFICES ASSUME IInv, RecInv, [Next]_vars PROVE RecInv'
  OBVIOUS
<1>1. CASE \E a \in Actions, u \in Users :
             \/ Create(a, u) \/ CreateFromPlan(a, u)
             \/ Approve(a, u) \/ Reject(a, u) \/ Escalate(a, u) \/ Modify(a, u)
             \/ Execute(a, u)
  BY <1>1, RequestTraced, TracedKeeps
<1>2. CASE \/ Dismiss \/ Regenerate \/ MoveAlert \/ Configure \/ UNCHANGED vars
  <2>1. UNCHANGED <<action, executions>> /\ (rec' = "ACTIONED" => rec = "ACTIONED")
    BY <1>2 DEF Dismiss, Regenerate, MoveAlert, Configure, rows, vars
  <2> QED BY <2>1 DEF RecInv, ActionedWasExecuted, Simulated
<1> QED BY <1>1, <1>2 DEF Next

(* However many actions come from a recommendation, and in whatever order   *)
(* they are rejected, refused, executed and the recommendation dismissed,   *)
(* it counts as acted upon only when one of them was executed.              *)
THEOREM ActionedByExecution == Spec => []ActionedWasExecuted
<1>1. Init => RecInv
  <2>1. ASSUME Init PROVE \A a \in Actions : ~action[a].fromRec
    BY <2>1 DEF Init, Absent, New
  <2> QED BY <2>1 DEF Init, RecInv, ActionedWasExecuted
<1>2. RecInv => ActionedWasExecuted BY DEF RecInv
<1> QED BY <1>1, <1>2, RecStepKeeps, Invariant, PTL DEF Spec

-----------------------------------------------------------------------------
(* The autonomy rules (deny wins), the cost ladder, the bound on repeated   *)
(* executions and the refinement of ApprovalGate.  All four follow from one *)
(* description of what a request may do to an action (Step): park it,       *)
(* approve it, or execute it.                                               *)

(* RequiredRank with the ladder as an argument. *)
RankAsked(steps, act) ==
  LET fits == {i \in 1..Len(steps) : Below(Considered(act), steps[i].maxCost)}
      rank == IF fits = {} THEN 1
              ELSE steps[CHOOSE i \in fits : \A j \in fits : i <= j].rank
  IN  IF act.type \in QualityTypes THEN AtLeast(rank, 2) ELSE rank

(* Two rows the rules and the ladder cannot tell apart. *)
SameCase(act, other) == act.type = other.type /\ act.qty = other.qty /\ act.cost = other.cost

(* Rules and ladder look at type, quantity and cost only. *)
LEMMA SameCaseSame ==
  ASSUME NEW act, NEW other, SameCase(act, other)
  PROVE  /\ Matching(act) = Matching(other)
         /\ RequiredRank(act) = RequiredRank(other)
         /\ \A steps : RankAsked(steps, act) = RankAsked(steps, other)
<1>1. Considered(act) = Considered(other) /\ act.type = other.type
  BY DEF SameCase, Considered
<1> QED BY <1>1 DEF Matching, RequiredRank, RankAsked

(* The rank asked for is that of the ladder in force. *)
LEMMA RankInForce == \A act : RequiredRank(act) = RankAsked(ladder, act)
BY DEF RequiredRank, RankAsked

(* What process() finds out: the rank is that of the band, and a level for  *)
(* automatic execution means that every rule that matches allows it.        *)
LEMMA AssessedMeans ==
  ASSUME base \in 0..4, enabled \subseteq Rules, ladder \in Seq(Band),
         NEW act \in ActionRow, NEW sim \in Nat, NEW blocking \in BOOLEAN
  PROVE  LET done == Assessed(act, sim, blocking)
         IN  /\ done \in ActionRow
             /\ done.qty = act.qty
             /\ done.required = RequiredRank(done)
             /\ done.level >= 3 => \A r \in Matching(done) : r.effect = "ALLOW_AUTO"
<1> DEFINE priced == [act EXCEPT !.cost = IF @ = 0 THEN sim ELSE @, !.blocking = blocking]
           level == AutonomyLevel(priced, blocking)
           rank == RequiredRank(priced)
           done == [priced EXCEPT !.level = level, !.required = rank]
<1>1. priced \in ActionRow /\ priced.qty = act.qty
  BY DEF ActionRow
<1>2. /\ level \in 0..4
      /\ HasEffect(priced, "NEVER_AUTO") \/ HasEffect(priced, "REQUIRE_APPROVAL") => level < 3
  BY LevelBounds
<1>3. rank \in 1..4 BY RankBounds
<1>4. Assessed(act, sim, blocking) = done BY DEF Assessed
<1>5. \A r \in Matching(priced) : r.effect \in Effects
  BY ActionAssumption DEF Matching, Rule
<1>6. level >= 3 => \A r \in Matching(priced) : r.effect = "ALLOW_AUTO"
  <2> HIDE DEF priced, level
  <2>1. level >= 3 => ~(level < 3) BY <1>2
  <2> QED BY <1>2, <1>5, <2>1 DEF HasEffect, Effects
<1> HIDE DEF priced, level
<1>7. rank = RequiredRank(priced) OBVIOUS
<1> HIDE DEF rank
<1>8. /\ done \in ActionRow /\ done.level = level /\ done.required = rank
      /\ done.qty = priced.qty /\ done.type = priced.type /\ done.cost = priced.cost
  BY <1>1, <1>2, <1>3 DEF ActionRow
<1> HIDE DEF done
<1>9. SameCase(done, priced) BY <1>8 DEF SameCase
<1>10. Matching(done) = Matching(priced) /\ RequiredRank(done) = RequiredRank(priced)
  BY <1>9, SameCaseSame
<1> QED BY <1>1, <1>4, <1>6, <1>7, <1>8, <1>10

-----------------------------------------------------------------------------
(* What a request does to the action it is about *)

(* Action a is left as act, with the history h. *)
Writes(a, act, h) ==
  /\ act \in ActionRow /\ act.status # "NONE" /\ act.qty \in Quantities
  /\ h \in Seq(ApprovalRow)
  /\ action' = [action EXCEPT ![a] = act]
  /\ approvals' = [approvals EXCEPT ![a] = h]

(* The rank required is at least that of the band of the cost, or it is the *)
(* one from before, as it was or one rank higher up to an executive.        *)
Banded(a, act) ==
  \/ act.required >= RequiredRank(act)
  \/ /\ action[a].status # "NONE"
     /\ SameCase(act, action[a])
     /\ act.required \in {action[a].required, AtMost(action[a].required + 1, 3)}

(* An approved row is kept for later, carried out or refused. *)
Carried(a, act) ==
  \/ act.status = "APPROVED" /\ UNCHANGED executions
  \/ \E row \in ExecutionRow :
       /\ executions' = [executions EXCEPT ![a] = Append(@, row)]
       /\ row.qty = act.qty
       /\ \/ act.status = "VERIFIED" /\ row.status = "SIMULATED"
          \/ act.status = "FAILED" /\ row.status = "FAILED"

Parks(a, act, h) ==
  /\ act.status \notin {"APPROVED", "VERIFIED"}
  /\ UNCHANGED executions
  /\ \/ action[a].status = "NONE" /\ h = approvals[a]
     \/ \E r \in ApprovalRow :
          /\ h = Append(approvals[a], r)
          /\ r.decision # "APPROVE" /\ r.by # System
          /\ action[a].status = "VERIFIED" => r.decision = "ESCALATE"

Approves(a, act, h) ==
  /\ action[a].status # "VERIFIED"
  /\ Carried(a, act)
  /\ \E s \in Seq(ApprovalRow), r \in ApprovalRow :
       /\ s = approvals[a] \/ \E m \in ApprovalRow : s = Append(approvals[a], m) /\ m.decision = "MODIFY"
       /\ h = Append(s, r)
       /\ r.decision = "APPROVE" /\ r.qty = act.qty
       /\ \/ r.by = System /\ \A rule \in Matching(act) : rule.effect = "ALLOW_AUTO"
          \/ /\ r.by # System /\ r.rank \in 0..4
             /\ action[a].status # "NONE" /\ SameCase(act, action[a])
             /\ r.rank = 4 \/ r.rank >= action[a].required

Executes(a, act, h) ==
  /\ action[a].status = "APPROVED"
  /\ SameCase(act, action[a])
  /\ h = approvals[a]
  /\ Carried(a, act)

Step(a, act, h) ==
  /\ Writes(a, act, h)
  /\ Banded(a, act)
  /\ Parks(a, act, h) \/ Approves(a, act, h) \/ Executes(a, act, h)

(* Quantities asked for stay among those that may be asked for. *)
QtyInv == \A a \in Actions : action[a].status # "NONE" => action[a].qty \in Quantities

-----------------------------------------------------------------------------
(* Every request is such a step *)

(* execute() leaves the row as it is but for the status, which says what    *)
(* became of it.                                                            *)
LEMMA ExecutedCarried ==
  ASSUME IInv, NEW a \in Actions, NEW act \in ActionRow, NEW decided,
         act.status = "APPROVED", Executed(a, act, decided) \/ Refused(a, act, decided)
  PROVE  \E after \in ActionRow :
           /\ SameCase(after, act) /\ after.required = act.required /\ after.status # "NONE"
           /\ Store(a, after, decided)
           /\ Carried(a, after)
<1>0. act.qty \in Nat BY DEF ActionRow
<1>1. CASE Store(a, act, decided) /\ UNCHANGED <<executions, rec, alert>>
  BY <1>1 DEF Carried, SameCase
<1>2. ASSUME NEW status \in {"VERIFIED", "FAILED"}, NEW kind \in {"SIMULATED", "FAILED"},
             status = "VERIFIED" <=> kind = "SIMULATED",
             Store(a, [act EXCEPT !.status = status], decided),
             executions' = [executions EXCEPT ![a] = Append(@, [status |-> kind, qty |-> act.qty])]
      PROVE  \E after \in ActionRow :
               /\ SameCase(after, act) /\ after.required = act.required /\ after.status # "NONE"
               /\ Store(a, after, decided)
               /\ Carried(a, after)
  <2> DEFINE after == [act EXCEPT !.status = status]
             row == [status |-> kind, qty |-> act.qty]
  <2>1. /\ after \in ActionRow /\ after.status = status /\ after.required = act.required
        /\ after.type = act.type /\ after.qty = act.qty /\ after.cost = act.cost
    BY DEF ActionRow, Statuses
  <2>2. row \in ExecutionRow /\ row.qty = act.qty /\ row.status = kind BY <1>0 DEF ExecutionRow
  <2>3. Store(a, after, decided) BY <1>2
  <2>4. executions' = [executions EXCEPT ![a] = Append(@, row)] BY <1>2
  <2> HIDE DEF after, row
  <2>5. Carried(a, after) BY <1>2, <2>1, <2>2, <2>4 DEF Carried
  <2>6. SameCase(after, act) BY <2>1 DEF SameCase
  <2> QED BY <2>1, <2>3, <2>5, <2>6
<1>3. CASE Executed(a, act, decided) /\ mode = "SIMULATION_ONLY"
  BY <1>2, <1>3 DEF Executed
<1>4. CASE Refused(a, act, decided)
  BY <1>2, <1>4 DEF Refused
<1> QED BY <1>1, <1>3, <1>4 DEF Executed

(* Storing a row writes it. *)
LEMMA StoreWrites ==
  ASSUME IInv, NEW a \in Actions, NEW act \in ActionRow, NEW decided \in Seq(ApprovalRow),
         act.status # "NONE", act.qty \in Quantities, Store(a, act, decided)
  PROVE  Writes(a, act, approvals[a] \o decided)
<1>1. approvals[a] \in Seq(ApprovalRow) BY DEF IInv, TypeOK
<1>2. approvals[a] \o decided \in Seq(ApprovalRow) BY <1>1
<1> QED BY <1>2 DEF Writes, Store

(* Rows added to a history, one at a time. *)
LEMMA Histories ==
  ASSUME NEW s \in Seq(ApprovalRow), NEW t \in Seq(ApprovalRow), NEW r \in ApprovalRow
  PROVE  /\ <<r>> \in Seq(ApprovalRow)
         /\ s \o <<>> = s
         /\ s \o <<r>> = Append(s, r)
         /\ t \o <<r>> \in Seq(ApprovalRow)
         /\ s \o (t \o <<r>>) = Append(s \o t, r)
<1>1. <<r>> \in Seq(ApprovalRow) /\ s \o <<>> = s OBVIOUS
<1>2. s \o t \in Seq(ApprovalRow) /\ t \o <<r>> \in Seq(ApprovalRow) BY <1>1
<1>3. s \o (t \o <<r>>) = (s \o t) \o <<r>> BY <1>1, ConcatAssociative
<1>4. Append(s, r) = s \o <<r>> /\ Append(s \o t, r) = (s \o t) \o <<r>>
  BY <1>2, AppendIsConcat
<1> QED BY <1>1, <1>2, <1>3, <1>4

(* The row a user adds, as a history of one row. *)
LEMMA UserRow ==
  ASSUME NEW u \in Users, NEW decision \in Decisions, NEW qty \in Nat
  PROVE  \E r \in ApprovalRow :
           /\ Decision(decision, u, qty) = <<r>>
           /\ r.decision = decision /\ r.qty = qty /\ r.by = u /\ r.by # System
           /\ r.rank = Rank(RoleOf[u]) /\ r.rank \in 0..4
<1> DEFINE r == [decision |-> decision, by |-> u, rank |-> Rank(RoleOf[u]), qty |-> qty]
<1>1. Rank(RoleOf[u]) \in 0..4 BY DEF Rank
<1>2. u # System BY SystemAssumption
<1>3. r \in ApprovalRow BY <1>1 DEF ApprovalRow
<1>4. Decision(decision, u, qty) = <<r>> BY DEF Decision
<1> QED BY <1>1, <1>2, <1>3, <1>4

(* The row the system adds. *)
LEMMA SystemRow ==
  ASSUME NEW act \in ActionRow
  PROVE  \E r \in ApprovalRow :
           /\ AutoApproval(act) = <<r>>
           /\ r.decision = "APPROVE" /\ r.qty = act.qty /\ r.by = System
<1> DEFINE r == [decision |-> "APPROVE", by |-> System, rank |-> 0, qty |-> act.qty]
<1>1. act.qty \in Nat BY DEF ActionRow
<1>2. r \in ApprovalRow BY <1>1 DEF ApprovalRow, Decisions
<1>3. AutoApproval(act) = <<r>> BY DEF AutoApproval
<1> QED BY <1>2, <1>3

(* The rows before process(): none for a new action, the modification for   *)
(* one that may still be modified.                                          *)
Preceded(a, decided) ==
  \/ action[a].status = "NONE" /\ decided = <<>>
  \/ /\ action[a].status # "VERIFIED"
     /\ \E m \in ApprovalRow : decided = <<m>> /\ m.decision = "MODIFY" /\ m.by # System

(* process() parks an action, or approves it when every rule allows it.     *)
LEMMA AssessedSteps ==
  ASSUME IInv, NEW a \in Actions, NEW act \in ActionRow, act.qty \in Quantities,
         NEW sim \in Nat, NEW blocking \in BOOLEAN, NEW decided, Preceded(a, decided),
         NEW done, done = Assessed(act, sim, blocking),
         \/ Parked(a, done, decided)
         \/ AutoExecuted(a, done, decided)
         \/ /\ done.level >= 3
            /\ Refused(a, [done EXCEPT !.status = "APPROVED"], decided \o AutoApproval(done))
  PROVE  \E after, h : Step(a, after, h)
<1>0. /\ approvals[a] \in Seq(ApprovalRow)
      /\ base \in 0..4 /\ enabled \subseteq Rules /\ ladder \in Seq(Band)
  BY DEF IInv, TypeOK
<1>1. /\ done \in ActionRow /\ done.qty = act.qty /\ done.required = RequiredRank(done)
      /\ done.level >= 3 => \A r \in Matching(done) : r.effect = "ALLOW_AUTO"
  BY <1>0, AssessedMeans
<1>2. done.required \in Nat BY <1>1 DEF ActionRow
<1>3. decided \in Seq(ApprovalRow)
  <2>1. CASE decided = <<>> BY <2>1
  <2>2. CASE \E m \in ApprovalRow : decided = <<m>> BY <2>2
  <2> QED BY <2>1, <2>2 DEF Preceded
<1>4. \/ action[a].status = "NONE" /\ approvals[a] \o decided = approvals[a]
      \/ /\ action[a].status # "VERIFIED"
         /\ \E m \in ApprovalRow : /\ approvals[a] \o decided = Append(approvals[a], m)
                                   /\ m.decision = "MODIFY" /\ m.by # System
  <2>1. CASE action[a].status = "NONE" /\ decided = <<>> BY <1>0, <2>1
  <2>2. ASSUME NEW m \in ApprovalRow, decided = <<m>>
        PROVE  approvals[a] \o decided = Append(approvals[a], m)
    BY <1>0, <2>2, Histories
  <2> QED BY <2>1, <2>2 DEF Preceded
<1>5. CASE Parked(a, done, decided)
  <2>1. PICK status \in {"OBSERVED", "PENDING_APPROVAL"} :
          Store(a, [done EXCEPT !.status = status], decided) /\ UNCHANGED <<executions, rec, alert>>
    BY <1>5 DEF Parked
  <2> DEFINE after == [done EXCEPT !.status = status]
             h == approvals[a] \o decided
  <2>2. /\ after \in ActionRow /\ after.status = status /\ after.required = done.required
        /\ after.type = done.type /\ after.qty = done.qty /\ after.cost = done.cost
    BY <1>1 DEF ActionRow, Statuses
  <2>3. Store(a, after, decided) BY <2>1
  <2> HIDE DEF after
  <2>4. Writes(a, after, h) BY <1>1, <1>3, <2>2, <2>3, StoreWrites
  <2>5. SameCase(after, done) BY <2>2 DEF SameCase
  <2>6. Banded(a, after) BY <1>1, <1>2, <2>2, <2>5, SameCaseSame DEF Banded
  <2>7. Parks(a, after, h) BY <1>4, <2>1, <2>2 DEF Parks
  <2> QED BY <2>4, <2>6, <2>7 DEF Step
<1>6. CASE \/ AutoExecuted(a, done, decided)
           \/ /\ done.level >= 3
              /\ Refused(a, [done EXCEPT !.status = "APPROVED"], decided \o AutoApproval(done))
  <2> DEFINE ready == [done EXCEPT !.status = "APPROVED"]
             before == approvals[a] \o decided
  <2>1. /\ ready \in ActionRow /\ ready.status = "APPROVED" /\ ready.required = done.required
        /\ ready.type = done.type /\ ready.qty = done.qty /\ ready.cost = done.cost
    BY <1>1 DEF ActionRow, Statuses
  <2>2. done.level >= 3 BY <1>6 DEF AutoExecuted
  <2>3. \/ Executed(a, ready, decided \o AutoApproval(done))
        \/ Refused(a, ready, decided \o AutoApproval(done))
    BY <1>6 DEF AutoExecuted
  <2> HIDE DEF ready
  <2>4. PICK r \in ApprovalRow :
          AutoApproval(done) = <<r>> /\ r.decision = "APPROVE" /\ r.qty = done.qty /\ r.by = System
    BY <1>1, SystemRow
  <2>5. PICK after \in ActionRow :
          /\ SameCase(after, ready) /\ after.required = ready.required /\ after.status # "NONE"
          /\ Store(a, after, decided \o <<r>>)
          /\ Carried(a, after)
    BY <2>1, <2>3, <2>4, ExecutedCarried
  <2>6. SameCase(after, done) BY <2>1, <2>5 DEF SameCase
  <2>7. after.qty = done.qty /\ after.required = done.required
    BY <2>1, <2>5, <2>6 DEF SameCase
  <2>8. Matching(after) = Matching(done) /\ RequiredRank(after) = RequiredRank(done)
    BY <2>6, SameCaseSame
  <2>9. before \in Seq(ApprovalRow) /\ before \o <<r>> = Append(before, r) BY <1>0, <1>3, Histories
  <2>10. /\ <<r>> \in Seq(ApprovalRow) /\ decided \o <<r>> \in Seq(ApprovalRow)
         /\ approvals[a] \o (decided \o <<r>>) = Append(before, r)
    BY <1>0, <1>3, Histories
  <2>11. Writes(a, after, Append(before, r)) BY <1>1, <2>5, <2>7, <2>10, StoreWrites
  <2>12. Banded(a, after) BY <1>1, <1>2, <2>7, <2>8 DEF Banded
  <2>13. before = approvals[a] \/ \E m \in ApprovalRow : before = Append(approvals[a], m) /\ m.decision = "MODIFY"
    BY <1>4
  <2>14. action[a].status # "VERIFIED" BY <1>4
  <2>15. \A rule \in Matching(after) : rule.effect = "ALLOW_AUTO" BY <1>1, <2>2, <2>8
  <2> HIDE DEF before
  <2>16. Approves(a, after, Append(before, r))
    BY <2>4, <2>5, <2>7, <2>9, <2>13, <2>14, <2>15 DEF Approves
  <2> QED BY <2>11, <2>12, <2>16 DEF Step
<1> QED BY <1>5, <1>6

(* Every request of a user is a step about the action it names. *)
LEMMA RequestSteps ==
  ASSUME IInv, QtyInv, NEW a \in Actions, NEW u \in Users,
         \/ Create(a, u) \/ CreateFromPlan(a, u)
         \/ Approve(a, u) \/ Reject(a, u) \/ Escalate(a, u) \/ Modify(a, u)
         \/ Execute(a, u)
  PROVE  \E act, h : Step(a, act, h)
<1>0. /\ approvals[a] \in Seq(ApprovalRow) /\ action[a] \in ActionRow
      /\ action[a].qty \in Nat /\ action[a].required \in 1..4
      /\ base \in 0..4 /\ enabled \subseteq Rules /\ ladder \in Seq(Band)
  BY DEF IInv, TypeOK, ActionRow
<1>1. ASSUME NEW type \in ActionTypes, NEW qty \in Nat, NEW cost \in Nat, NEW fromRec \in BOOLEAN
      PROVE  New(type, qty, cost, u, fromRec) \in ActionRow
  BY DEF New, ActionRow, Statuses
<1>2. ASSUME NEW act \in ActionRow, act.qty \in Quantities, NEW decided, Preceded(a, decided),
             Process(a, act, decided)
      PROVE  \E after, h : Step(a, after, h)
  <2>1. PICK sim \in SimulatedCosts(act), blocking \in PolicyFindings(act) :
          LET done == Assessed(act, sim, blocking)
          IN  Parked(a, done, decided) \/ AutoExecuted(a, done, decided)
    BY <1>2 DEF Process
  <2>2. SimulatedCosts(act) \subseteq Nat BY ActionAssumption DEF SimulatedCosts
  <2>3. PolicyFindings(act) \subseteq BOOLEAN BY DEF PolicyFindings
  <2>4. sim \in Nat /\ blocking \in BOOLEAN BY <2>2, <2>3
  <2> DEFINE done == Assessed(act, sim, blocking)
  <2>5. Parked(a, done, decided) \/ AutoExecuted(a, done, decided) BY <2>1
  <2>6. done = Assessed(act, sim, blocking) OBVIOUS
  <2> HIDE DEF done
  <2> QED BY <1>2, <2>4, <2>5, <2>6, AssessedSteps
<1>3. CASE Create(a, u)
  <2>1. PICK type \in Types, qty \in Quantities, cost \in SimCosts \cup {0}, fromRec \in BOOLEAN :
          Process(a, New(type, qty, cost, u, fromRec), <<>>)
    BY <1>3 DEF Create
  <2>2. type \in ActionTypes /\ qty \in Nat /\ cost \in Nat BY ActionAssumption
  <2> DEFINE fresh == New(type, qty, cost, u, fromRec)
  <2>3. fresh \in ActionRow /\ fresh.qty = qty BY <1>1, <2>2 DEF New
  <2>4. Preceded(a, <<>>) BY <1>3 DEF Create, Preceded
  <2> HIDE DEF fresh
  <2>5. Process(a, fresh, <<>>) BY <2>1 DEF fresh
  <2> QED BY <1>2, <2>3, <2>4, <2>5
<1>4. CASE CreateFromPlan(a, u)
  <2>1. PICK qty \in Quantities \ {0}, sim \in SimCosts, blocking \in BOOLEAN :
          LET done == Assessed(New("CREATE_PO", qty, 0, u, FALSE), sim, blocking)
          IN  \/ Parked(a, done, <<>>)
              \/ AutoExecuted(a, done, <<>>)
              \/ done.level >= 3 /\ Refused(a, [done EXCEPT !.status = "APPROVED"], AutoApproval(done))
    BY <1>4 DEF CreateFromPlan
  <2> DEFINE fresh == New("CREATE_PO", qty, 0, u, FALSE)
             done == Assessed(fresh, sim, blocking)
  <2>2. qty \in Nat /\ sim \in Nat /\ "CREATE_PO" \in ActionTypes
    BY ActionAssumption DEF ActionTypes, PurchaseLike
  <2>3. fresh \in ActionRow /\ fresh.qty = qty BY <1>1, <2>2 DEF New
  <2>4. Preceded(a, <<>>) BY <1>4 DEF CreateFromPlan, Preceded
  <2>5. \/ Parked(a, done, <<>>)
        \/ AutoExecuted(a, done, <<>>)
        \/ done.level >= 3 /\ Refused(a, [done EXCEPT !.status = "APPROVED"], AutoApproval(done))
    BY <2>1
  <2>6. done = Assessed(fresh, sim, blocking) OBVIOUS
  <2> HIDE DEF fresh
  <2>7. done \in ActionRow BY <1>0, <2>2, <2>3, AssessedRow
  <2> HIDE DEF done
  <2>8. AutoApproval(done) \in Seq(ApprovalRow) BY <2>7, DecidedAuto
  <2>9. <<>> \o AutoApproval(done) = AutoApproval(done) BY <2>8, ConcatEmptySeq
  <2> QED BY <2>2, <2>3, <2>4, <2>5, <2>6, <2>9, AssessedSteps
<1>5. CASE Approve(a, u)
  <2> DEFINE ready == [action[a] EXCEPT !.status = "APPROVED"]
  <2>1. /\ ready \in ActionRow /\ ready.status = "APPROVED" /\ ready.required = action[a].required
        /\ ready.type = action[a].type /\ ready.qty = action[a].qty /\ ready.cost = action[a].cost
    BY <1>0 DEF ActionRow, Statuses
  <2> HIDE DEF ready
  <2>2. /\ Executed(a, ready, Decision("APPROVE", u, action[a].qty))
        /\ Authorised(action[a], u)
        /\ action[a].status \notin {"NONE", "VERIFIED"}
    BY <1>5 DEF Approve, ready
  <2>3. action[a].qty \in Quantities BY <2>2 DEF QtyInv
  <2>4. PICK r \in ApprovalRow :
          /\ Decision("APPROVE", u, action[a].qty) = <<r>>
          /\ r.decision = "APPROVE" /\ r.qty = action[a].qty /\ r.by # System
          /\ r.rank = Rank(RoleOf[u]) /\ r.rank \in 0..4
    BY <1>0, UserRow DEF Decisions
  <2>5. PICK after \in ActionRow :
          /\ SameCase(after, ready) /\ after.required = ready.required /\ after.status # "NONE"
          /\ Store(a, after, <<r>>)
          /\ Carried(a, after)
    BY <2>1, <2>2, <2>4, ExecutedCarried
  <2>6. SameCase(after, action[a]) /\ after.qty = action[a].qty /\ after.required = action[a].required
    BY <2>1, <2>5 DEF SameCase
  <2>7. <<r>> \in Seq(ApprovalRow) /\ approvals[a] \o <<r>> = Append(approvals[a], r)
    BY <1>0, Histories
  <2>8. Writes(a, after, Append(approvals[a], r)) BY <2>3, <2>5, <2>6, <2>7, StoreWrites
  <2>9. Banded(a, after) BY <2>2, <2>6 DEF Banded
  <2>10. r.rank = 4 \/ r.rank >= action[a].required
    BY <2>2, <2>4 DEF Authorised, Rank
  <2>11. Approves(a, after, Append(approvals[a], r))
    BY <1>0, <2>2, <2>4, <2>5, <2>6, <2>10 DEF Approves
  <2> QED BY <2>8, <2>9, <2>11 DEF Step
<1>6. ASSUME NEW decision \in {"REJECT", "ESCALATE"}, NEW act \in ActionRow,
             act.status \in {"REJECTED", "ESCALATED"}, action[a].status # "NONE",
             action[a].status = "VERIFIED" => decision = "ESCALATE",
             SameCase(act, action[a]),
             act.required \in {action[a].required, AtMost(action[a].required + 1, 3)},
             Store(a, act, Decision(decision, u, action[a].qty)), UNCHANGED executions
      PROVE  \E after, h : Step(a, after, h)
  <2>1. PICK r \in ApprovalRow :
          Decision(decision, u, action[a].qty) = <<r>> /\ r.decision = decision /\ r.by # System
    BY <1>0, <1>6, UserRow DEF Decisions
  <2>2. action[a].qty \in Quantities /\ act.qty = action[a].qty BY <1>6 DEF QtyInv, SameCase
  <2>3. <<r>> \in Seq(ApprovalRow) /\ approvals[a] \o <<r>> = Append(approvals[a], r)
    BY <1>0, Histories
  <2>4. Writes(a, act, Append(approvals[a], r)) BY <1>6, <2>1, <2>2, <2>3, StoreWrites
  <2>5. Banded(a, act) BY <1>6 DEF Banded
  <2>6. Parks(a, act, Append(approvals[a], r)) BY <1>6, <2>1 DEF Parks
  <2> QED BY <2>4, <2>5, <2>6 DEF Step
<1>7. CASE Reject(a, u)
  <2> DEFINE after == [action[a] EXCEPT !.status = "REJECTED"]
  <2>1. /\ after \in ActionRow /\ after.status = "REJECTED" /\ after.required = action[a].required
        /\ after.type = action[a].type /\ after.qty = action[a].qty /\ after.cost = action[a].cost
    BY <1>0 DEF ActionRow, Statuses
  <2>2. /\ action[a].status \notin {"NONE", "VERIFIED"} /\ UNCHANGED executions
        /\ Store(a, after, Decision("REJECT", u, action[a].qty))
    BY <1>7 DEF Reject, Decides, Final
  <2> HIDE DEF after
  <2>3. SameCase(after, action[a]) BY <2>1 DEF SameCase
  <2> QED BY <1>6, <2>1, <2>2, <2>3
<1>8. CASE Escalate(a, u)
  <2> DEFINE rank == AtMost(action[a].required + 1, 3)
             after == [action[a] EXCEPT !.status = "ESCALATED", !.required = rank]
  <2>1. rank \in 1..4 BY <1>0 DEF AtMost
  <2>2. /\ action[a].status # "NONE" /\ UNCHANGED executions
        /\ Store(a, after, Decision("ESCALATE", u, action[a].qty))
    BY <1>8 DEF Escalate, Decides
  <2> HIDE DEF rank
  <2>3. /\ after \in ActionRow /\ after.status = "ESCALATED" /\ after.required = rank
        /\ after.type = action[a].type /\ after.qty = action[a].qty /\ after.cost = action[a].cost
    BY <1>0, <2>1 DEF ActionRow, Statuses
  <2> HIDE DEF after
  <2>4. SameCase(after, action[a]) BY <2>3 DEF SameCase
  <2> QED BY <1>6, <2>2, <2>3, <2>4 DEF rank
<1>9. CASE Modify(a, u)
  <2>1. action[a].status \notin {"NONE", "VERIFIED"} /\ action[a].qty \in Quantities
    BY <1>9 DEF Modify, Decides, Final, QtyInv
  <2>2. ASSUME NEW qty \in Nat PROVE Preceded(a, Decision("MODIFY", u, qty))
    BY <2>1, UserRow DEF Preceded, Decisions
  <2>3. CASE Process(a, action[a], Decision("MODIFY", u, action[a].qty))
    BY <1>0, <1>2, <2>1, <2>2, <2>3
  <2>4. ASSUME NEW qty \in Quantities \ {0},
               Process(a, [action[a] EXCEPT !.qty = qty, !.cost = 0], Decision("MODIFY", u, qty))
        PROVE  \E after, h : Step(a, after, h)
    <3> DEFINE changed == [action[a] EXCEPT !.qty = qty, !.cost = 0]
    <3>1. qty \in Nat BY ActionAssumption
    <3>2. changed \in ActionRow /\ changed.qty = qty BY <1>0, <3>1 DEF ActionRow
    <3> HIDE DEF changed
    <3>3. Process(a, changed, Decision("MODIFY", u, qty)) BY <2>4 DEF changed
    <3> QED BY <1>2, <2>2, <3>1, <3>2, <3>3
  <2> QED BY <1>9, <2>3, <2>4 DEF Modify
<1>10. CASE Execute(a, u)
  <2>1. /\ action[a].status = "APPROVED"
        /\ Executed(a, action[a], <<>>) \/ Refused(a, action[a], <<>>)
    BY <1>10 DEF Execute
  <2>2. action[a].qty \in Quantities BY <2>1 DEF QtyInv
  <2>3. PICK after \in ActionRow :
          /\ SameCase(after, action[a]) /\ after.required = action[a].required /\ after.status # "NONE"
          /\ Store(a, after, <<>>)
          /\ Carried(a, after)
    BY <1>0, <2>1, ExecutedCarried
  <2>4. <<>> \in Seq(ApprovalRow) /\ approvals[a] \o <<>> = approvals[a] BY <1>0, Histories
  <2>5. after.qty = action[a].qty BY <2>3 DEF SameCase
  <2>6. Writes(a, after, approvals[a]) BY <2>2, <2>3, <2>4, <2>5, StoreWrites
  <2>7. Banded(a, after) BY <2>1, <2>3 DEF Banded
  <2>8. Executes(a, after, approvals[a]) BY <2>1, <2>3 DEF Executes
  <2> QED BY <2>6, <2>7, <2>8 DEF Step
<1> QED BY <1>3, <1>4, <1>5, <1>7, <1>8, <1>9, <1>10

(* A step is about one action, or leaves the three tables as they are. *)
LEMMA AboutOne ==
  ASSUME IInv, QtyInv, [Next]_vars
  PROVE  \/ UNCHANGED settings /\ \E a \in Actions : \E act, h : Step(a, act, h)
         \/ UNCHANGED <<action, approvals, executions>>
<1>1. ASSUME NEW a \in Actions, NEW u \in Users,
             \/ Create(a, u) \/ CreateFromPlan(a, u)
             \/ Approve(a, u) \/ Reject(a, u) \/ Escalate(a, u) \/ Modify(a, u)
             \/ Execute(a, u)
      PROVE  UNCHANGED settings /\ \E act, h : Step(a, act, h)
  BY <1>1, RequestSteps, RequestSettles
<1>2. CASE Dismiss \/ Regenerate \/ MoveAlert \/ Configure
  BY <1>2, OthersKeep
<1>3. CASE UNCHANGED vars BY <1>3 DEF vars, rows
<1> QED BY <1>1, <1>2, <1>3 DEF Next

(* What a step about an action writes, and what it leaves. *)
LEMMA Written ==
  ASSUME IInv, NEW a \in Actions, NEW act, NEW h, Writes(a, act, h)
  PROVE  /\ action'[a] = act /\ approvals'[a] = h
         /\ \A b \in Actions : b # a => action'[b] = action[b] /\ approvals'[b] = approvals[b]
BY DEF IInv, TypeOK, Writes

(* Quantities are among those that may be asked for, in every state. *)
LEMMA QtyKeeps == IInv /\ QtyInv /\ [Next]_vars => QtyInv'
<1> SUFFICES ASSUME IInv, QtyInv, [Next]_vars PROVE QtyInv'
  OBVIOUS
<1>1. ASSUME NEW a \in Actions, NEW act, NEW h, Step(a, act, h) PROVE QtyInv'
  <2>1. Writes(a, act, h) BY <1>1 DEF Step
  <2>2. act.qty \in Quantities BY <2>1 DEF Writes
  <2> QED BY <2>1, <2>2, Written DEF QtyInv
<1>2. CASE UNCHANGED action BY <1>2 DEF QtyInv
<1> QED BY <1>1, <1>2, AboutOne

(* Absent rows ask for nothing. *)
LEMMA QtyStarts == Init => QtyInv
BY DEF Init, QtyInv, Absent, New

(* Both invariants hold in every state. *)
LEMMA WorkflowInvariant == Spec => [](IInv /\ QtyInv)
<1> QED BY InitKeeps, StepKeeps, QtyStarts, QtyKeeps, PTL DEF Spec

-----------------------------------------------------------------------------
(* Deny wins *)

(* Appending changes the length and the last element. *)
LEMMA LastAppended ==
  ASSUME NEW T, NEW s \in Seq(T), NEW r \in T
  PROVE  Append(s, r) \in Seq(T) /\ Len(Append(s, r)) = Len(s) + 1 /\ LastOf(Append(s, r)) = r
BY DEF LastOf

(* The last row of a history that grows.                                    *)
LEMMA LastRow ==
  ASSUME IInv, NEW a \in Actions, NEW act, NEW h, Step(a, act, h),
         Len(approvals'[a]) > Len(approvals[a]),
         LastOf(approvals'[a]).by = System \/ LastOf(approvals'[a]).decision = "APPROVE"
  PROVE  /\ action'[a] = act
         /\ LastOf(approvals'[a]).by = System => \A rule \in Matching(act) : rule.effect = "ALLOW_AUTO"
         /\ LastOf(approvals'[a]).by # System =>
              /\ action[a].status # "NONE" /\ SameCase(act, action[a])
              /\ LastOf(approvals'[a]).rank \in 0..4
              /\ LastOf(approvals'[a]).rank = 4 \/ LastOf(approvals'[a]).rank >= action[a].required
<1>0. approvals[a] \in Seq(ApprovalRow) /\ Len(approvals[a]) \in Nat BY DEF IInv, TypeOK
<1>1. action'[a] = act /\ approvals'[a] = h BY Written DEF Step
<1>2. h # approvals[a] BY <1>0, <1>1
<1>3. CASE Parks(a, act, h)
  <2>1. PICK r \in ApprovalRow : h = Append(approvals[a], r) /\ r.decision # "APPROVE" /\ r.by # System
    BY <1>2, <1>3 DEF Parks
  <2>2. LastOf(h) = r BY <1>0, <2>1, LastAppended
  <2> QED BY <1>1, <2>1, <2>2
<1>4. CASE Approves(a, act, h)
  <2>1. PICK s \in Seq(ApprovalRow), r \in ApprovalRow :
          /\ h = Append(s, r)
          /\ \/ r.by = System /\ \A rule \in Matching(act) : rule.effect = "ALLOW_AUTO"
             \/ /\ r.by # System /\ r.rank \in 0..4
                /\ action[a].status # "NONE" /\ SameCase(act, action[a])
                /\ r.rank = 4 \/ r.rank >= action[a].required
    BY <1>4 DEF Approves
  <2>2. LastOf(h) = r BY <2>1, LastAppended
  <2> QED BY <1>1, <2>1, <2>2
<1>5. CASE Executes(a, act, h) BY <1>2, <1>5 DEF Executes
<1> QED BY <1>3, <1>4, <1>5 DEF Step

(* No default level and no set of rules that allow lets the system approve  *)
(* by itself what one matching rule forbids or asks approval for.           *)
THEOREM DenyAlwaysWins == Spec => DenyWins
<1>1. ASSUME IInv, QtyInv, [Next]_vars
      PROVE  [\A a \in Actions :
                Len(approvals'[a]) > Len(approvals[a]) /\ LastOf(approvals'[a]).by = System =>
                  \A r \in Matching(action'[a]) : r.effect = "ALLOW_AUTO"]_vars
  <2> SUFFICES ASSUME NEW a \in Actions,
                      Len(approvals'[a]) > Len(approvals[a]), LastOf(approvals'[a]).by = System
               PROVE  \A r \in Matching(action'[a]) : r.effect = "ALLOW_AUTO"
    OBVIOUS
  <2>0. approvals[a] \in Seq(ApprovalRow) /\ Len(approvals[a]) \in Nat BY <1>1 DEF IInv, TypeOK
  <2>1. approvals'[a] # approvals[a] BY <2>0
  <2>2. PICK b \in Actions : \E act, h : Step(b, act, h) BY <1>1, <2>1, AboutOne
  <2>14. PICK act, h : Step(b, act, h) BY <2>2
  <2>3. b = a BY <1>1, <2>1, <2>14, Written DEF Step
  <2> QED BY <1>1, <2>14, <2>3, LastRow
<1>2. IInv /\ QtyInv /\ [Next]_vars =>
      [\A a \in Actions :
         Len(approvals'[a]) > Len(approvals[a]) /\ LastOf(approvals'[a]).by = System =>
           \A r \in Matching(action'[a]) : r.effect = "ALLOW_AUTO"]_vars
  BY <1>1
<1> QED BY <1>2, WorkflowInvariant, PTL DEF Spec, DenyWins

-----------------------------------------------------------------------------
(* The cost ladder *)

(* The required rank never falls below what the ladder asks for.  It needs  *)
(* a ladder that ends with executives, because escalate() lowers a required *)
(* administrator to an executive, and that is not edited meanwhile, because *)
(* required_role is that of the last process().                             *)
LadderInv ==
  /\ ladder \in Ladders
  /\ \A a \in Actions : action[a].status # "NONE" =>
       action[a].required >= RankAsked(ladder, action[a])

(* A ladder that ends with executives asks for no more than one.            *)
LEMMA RankCapped ==
  ASSUME NEW steps \in Seq(Band), \A i \in DOMAIN steps : steps[i].rank <= 3, NEW act
  PROVE  RankAsked(steps, act) \in 1..3
<1> DEFINE fits == {i \in 1..Len(steps) : Below(Considered(act), steps[i].maxCost)}
           first == CHOOSE i \in fits : \A j \in fits : i <= j
           rank == IF fits = {} THEN 1 ELSE steps[first].rank
<1>1. rank \in 1..3
  <2>1. CASE fits = {} BY <2>1
  <2>2. CASE fits # {}
    <3>1. fits \subseteq Nat /\ \A i \in fits : i \in 1..Len(steps) OBVIOUS
    <3> HIDE DEF fits
    <3>2. first \in fits BY <2>2, <3>1, LeastNat
    <3>3. first \in 1..Len(steps) BY <3>1, <3>2
    <3> HIDE DEF first
    <3>4. steps[first] \in Band /\ steps[first].rank <= 3 BY <3>3
    <3> QED BY <2>2, <3>4 DEF Band
  <2> QED BY <2>1, <2>2
<1>2. RankAsked(steps, act) = IF act.type \in QualityTypes THEN AtLeast(rank, 2) ELSE rank
  BY DEF RankAsked
<1> HIDE DEF rank
<1> QED BY <1>1, <1>2 DEF AtLeast

(* It holds at first, when no row exists. *)
LEMMA LadderStarts == Init => LadderInv
BY DEF Init, LadderInv, Absent, New

(* Every step keeps it: escalations raise the rank, and a new assessment    *)
(* asks the ladder again.                                                   *)
LEMMA LadderKeeps ==
  ASSUME \A l, m \in Ladders : l = m,
         \A l \in Ladders : \A i \in DOMAIN l : l[i].rank <= 3,
         IInv, QtyInv, LadderInv, [Next]_vars
  PROVE  LadderInv'
<1>0. /\ action \in [Actions -> ActionRow] /\ action' \in [Actions -> ActionRow]
      /\ ladder \in Ladders /\ ladder \in Seq(Band)
  <2>1. IInv' BY StepKeeps
  <2> QED BY <2>1 DEF IInv, TypeOK, LadderInv
<1>1. ladder' = ladder
  <2>1. CASE UNCHANGED settings BY <2>1 DEF settings
  <2>2. CASE Configure BY <1>0, <2>2 DEF Configure
  <2>3. CASE Dismiss \/ Regenerate \/ MoveAlert BY <2>3 DEF Dismiss, Regenerate, MoveAlert, settings
  <2> QED BY <2>1, <2>2, <2>3, RequestSettles DEF Next, vars
<1>2. CASE UNCHANGED action
  BY <1>1, <1>2 DEF LadderInv
<1>3. ASSUME NEW a \in Actions, NEW act, NEW h, Step(a, act, h) PROVE LadderInv'
  <2>1. action'[a] = act /\ \A b \in Actions : b # a => action'[b] = action[b]
    BY <1>3, Written DEF Step
  <2>2. act \in ActionRow /\ act.required \in 1..4 BY <1>3 DEF Step, Writes, ActionRow
  <2>3. RankAsked(ladder, act) \in 1..3 BY <1>0, RankCapped
  <2>4. act.required >= RankAsked(ladder, act)
    <3>1. CASE act.required >= RequiredRank(act) BY <3>1, RankInForce
    <3>2. CASE /\ action[a].status # "NONE" /\ SameCase(act, action[a])
               /\ act.required \in {action[a].required, AtMost(action[a].required + 1, 3)}
      <4>1. RankAsked(ladder, act) = RankAsked(ladder, action[a]) BY <3>2, SameCaseSame
      <4>2. action[a].required >= RankAsked(ladder, act) BY <3>2, <4>1 DEF LadderInv
      <4>3. action[a].required \in 1..4 BY <1>0 DEF ActionRow
      <4> QED BY <2>3, <3>2, <4>2, <4>3 DEF AtMost
    <3> QED BY <1>3, <3>1, <3>2 DEF Step, Banded
  <2>5. \A b \in Actions : action'[b].status # "NONE" =>
          action'[b].required >= RankAsked(ladder, action'[b])
    BY <2>1, <2>4 DEF LadderInv
  <2> QED BY <1>0, <1>1, <2>5 DEF LadderInv
<1> QED BY <1>2, <1>3, AboutOne

(* However an action was escalated, modified and assessed again, whoever    *)
(* approves it ranks as high as the band of its cost asks for, as long as   *)
(* the ladder ends with executives and is not edited meanwhile.             *)
THEOREM LadderIsMet ==
  ASSUME \A l, m \in Ladders : l = m,
         \A l \in Ladders : \A i \in DOMAIN l : l[i].rank <= 3
  PROVE  Spec => ApproverMeetsLadder
<1>1. ASSUME IInv, QtyInv, LadderInv, [Next]_vars
      PROVE  [\A a \in Actions :
                /\ Len(approvals'[a]) > Len(approvals[a])
                /\ LastOf(approvals'[a]).decision = "APPROVE"
                /\ LastOf(approvals'[a]).by # System
                => LastOf(approvals'[a]).rank >= RequiredRank(action'[a])]_vars
  <2> SUFFICES ASSUME NEW a \in Actions,
                      Len(approvals'[a]) > Len(approvals[a]),
                      LastOf(approvals'[a]).decision = "APPROVE",
                      LastOf(approvals'[a]).by # System
               PROVE  LastOf(approvals'[a]).rank >= RequiredRank(action'[a])
    OBVIOUS
  <2> DEFINE r == LastOf(approvals'[a])
  <2>0. approvals[a] \in Seq(ApprovalRow) /\ Len(approvals[a]) \in Nat
        /\ action[a].required \in 1..4 /\ ladder \in Seq(Band) /\ ladder \in Ladders
    BY <1>1 DEF IInv, TypeOK, ActionRow, LadderInv
  <2>1. approvals'[a] # approvals[a] BY <2>0
  <2>2. PICK b \in Actions : \E act, h : Step(b, act, h) BY <1>1, <2>1, AboutOne
  <2>14. PICK act, h : Step(b, act, h) BY <2>2
  <2>3. b = a BY <1>1, <2>1, <2>14, Written DEF Step
  <2>4. /\ action'[a] = act /\ action[a].status # "NONE" /\ SameCase(act, action[a])
        /\ r.rank \in 0..4
        /\ r.rank = 4 \/ r.rank >= action[a].required
    BY <1>1, <2>14, <2>3, LastRow
  <2>5. RequiredRank(act) = RankAsked(ladder, action[a]) BY <2>4, SameCaseSame, RankInForce
  <2>6. RankAsked(ladder, action[a]) \in 1..3 BY <2>0, RankCapped
  <2>7. action[a].required >= RankAsked(ladder, action[a]) BY <1>1, <2>4 DEF LadderInv
  <2> HIDE DEF r
  <2>8. r.rank >= RequiredRank(act) BY <2>0, <2>4, <2>5, <2>6, <2>7
  <2> QED BY <2>4, <2>8 DEF r
<1>2. IInv /\ QtyInv /\ LadderInv /\ [Next]_vars =>
      [\A a \in Actions :
         /\ Len(approvals'[a]) > Len(approvals[a])
         /\ LastOf(approvals'[a]).decision = "APPROVE"
         /\ LastOf(approvals'[a]).by # System
         => LastOf(approvals'[a]).rank >= RequiredRank(action'[a])]_vars
  BY <1>1
<1>3. IInv /\ QtyInv /\ LadderInv /\ [Next]_vars => LadderInv' BY LadderKeeps
<1> QED BY <1>2, <1>3, LadderStarts, WorkflowInvariant, PTL DEF Spec, ApproverMeetsLadder

-----------------------------------------------------------------------------
(* Repeated executions *)

Runs(e) == {i \in 1..Len(e) : e[i].status = "SIMULATED"}

(* One more approval row counts where its decision counts. *)
LEMMA CountRows ==
  ASSUME NEW h \in Seq(ApprovalRow), NEW r \in ApprovalRow, NEW kind
  PROVE  /\ Cardinality(RowsOf(h, kind)) \in Nat
         /\ Append(h, r) \in Seq(ApprovalRow)
         /\ Cardinality(RowsOf(Append(h, r), kind)) =
              Cardinality(RowsOf(h, kind)) + (IF r.decision = kind THEN 1 ELSE 0)
<1> DEFINE n == Len(h)
           old == RowsOf(h, kind)
           new == RowsOf(Append(h, r), kind)
<1>1. /\ n \in Nat /\ Append(h, r) \in Seq(ApprovalRow) /\ Len(Append(h, r)) = n + 1
      /\ Append(h, r)[n + 1] = r
      /\ \A i \in 1..n : Append(h, r)[i] = h[i]
  OBVIOUS
<1>2. old \subseteq 1..n /\ n + 1 \notin old BY <1>1 DEF RowsOf
<1>3. IsFiniteSet(old)
  <2>1. IsFiniteSet(1..n) BY <1>1, FS_Interval
  <2> QED BY <1>2, <2>1, FS_Subset
<1>4. Cardinality(old) \in Nat BY <1>3, FS_CardinalityType
<1>5. CASE r.decision = kind
  <2>1. new = old \cup {n + 1} BY <1>1, <1>5 DEF RowsOf
  <2>2. Cardinality(old \cup {n + 1}) = Cardinality(old) + 1 BY <1>2, <1>3, FS_AddElement
  <2> QED BY <1>1, <1>4, <1>5, <2>1, <2>2
<1>6. CASE r.decision # kind
  <2>1. new = old BY <1>1, <1>6 DEF RowsOf
  <2> QED BY <1>1, <1>4, <1>6, <2>1
<1> QED BY <1>5, <1>6

(* One more execution row counts when it was carried out. *)
LEMMA CountRuns ==
  ASSUME NEW e \in Seq(ExecutionRow), NEW row \in ExecutionRow
  PROVE  /\ Cardinality(Runs(e)) \in Nat
         /\ Cardinality(Runs(Append(e, row))) =
              Cardinality(Runs(e)) + (IF row.status = "SIMULATED" THEN 1 ELSE 0)
<1> DEFINE n == Len(e)
           old == Runs(e)
           new == Runs(Append(e, row))
<1>1. /\ n \in Nat /\ Len(Append(e, row)) = n + 1
      /\ Append(e, row)[n + 1] = row
      /\ \A i \in 1..n : Append(e, row)[i] = e[i]
  OBVIOUS
<1>2. old \subseteq 1..n /\ n + 1 \notin old BY <1>1 DEF Runs
<1>3. IsFiniteSet(old)
  <2>1. IsFiniteSet(1..n) BY <1>1, FS_Interval
  <2> QED BY <1>2, <2>1, FS_Subset
<1>4. Cardinality(old) \in Nat BY <1>3, FS_CardinalityType
<1>5. CASE row.status = "SIMULATED"
  <2>1. new = old \cup {n + 1} BY <1>1, <1>5 DEF Runs
  <2>2. Cardinality(old \cup {n + 1}) = Cardinality(old) + 1 BY <1>2, <1>3, FS_AddElement
  <2> QED BY <1>4, <1>5, <2>1, <2>2
<1>6. CASE row.status # "SIMULATED"
  <2>1. new = old BY <1>1, <1>6 DEF Runs
  <2> QED BY <1>4, <1>6, <2>1
<1> QED BY <1>5, <1>6

(* An action that is verified may have been carried out once more than it   *)
(* was escalated; any other, only as often.                                 *)
Paid(act, h, e) ==
  Cardinality(Runs(e)) <= Cardinality(RowsOf(h, "ESCALATE")) + (IF act.status = "VERIFIED" THEN 1 ELSE 0)

RepeatInv == \A a \in Actions : Paid(action[a], approvals[a], executions[a])

(* An execution adds at most the one its status accounts for. *)
LEMMA CarriedOnce ==
  ASSUME IInv, NEW a \in Actions, NEW act, Carried(a, act)
  PROVE  /\ \A b \in Actions : b # a => executions'[b] = executions[b]
         /\ Cardinality(Runs(executions[a])) \in Nat
         /\ Cardinality(Runs(executions'[a])) =
              Cardinality(Runs(executions[a])) + (IF act.status = "VERIFIED" THEN 1 ELSE 0)
<1>0. executions \in [Actions -> Seq(ExecutionRow)] BY DEF IInv, TypeOK
<1>1. [status |-> "FAILED", qty |-> 0] \in ExecutionRow BY DEF ExecutionRow
<1>2. Cardinality(Runs(executions[a])) \in Nat BY <1>0, <1>1, CountRuns
<1>3. CASE act.status = "APPROVED" /\ UNCHANGED executions BY <1>2, <1>3
<1>4. ASSUME NEW row \in ExecutionRow,
             executions' = [executions EXCEPT ![a] = Append(@, row)],
             \/ act.status = "VERIFIED" /\ row.status = "SIMULATED"
             \/ act.status = "FAILED" /\ row.status = "FAILED"
      PROVE  /\ \A b \in Actions : b # a => executions'[b] = executions[b]
             /\ Cardinality(Runs(executions'[a])) =
                  Cardinality(Runs(executions[a])) + (IF act.status = "VERIFIED" THEN 1 ELSE 0)
  <2>1. executions'[a] = Append(executions[a], row) BY <1>0, <1>4
  <2>2. \A b \in Actions : b # a => executions'[b] = executions[b] BY <1>0, <1>4
  <2>3. Cardinality(Runs(Append(executions[a], row))) =
          Cardinality(Runs(executions[a])) + (IF row.status = "SIMULATED" THEN 1 ELSE 0)
    BY <1>0, CountRuns
  <2> QED BY <1>4, <2>1, <2>2, <2>3
<1> QED BY <1>2, <1>3, <1>4 DEF Carried

(* Nothing was executed at first. *)
LEMMA RepeatStarts == Init => RepeatInv
<1> SUFFICES ASSUME Init, NEW a \in Actions PROVE Paid(action[a], approvals[a], executions[a])
  BY DEF RepeatInv
<1>1. approvals[a] = <<>> /\ executions[a] = <<>> BY DEF Init
<1>2. Runs(executions[a]) = {} /\ RowsOf(approvals[a], "ESCALATE") = {}
  BY <1>1 DEF Runs, RowsOf
<1>3. Cardinality({}) = 0 BY FS_EmptySet
<1>4. /\ Cardinality(Runs(executions[a])) = 0
      /\ Cardinality(RowsOf(approvals[a], "ESCALATE")) = 0
  BY <1>2, <1>3
<1> QED BY <1>4 DEF Paid

(* Every step keeps it: leaving VERIFIED takes an escalation. *)
LEMMA RepeatKeeps == IInv /\ QtyInv /\ RepeatInv /\ [Next]_vars => RepeatInv'
<1> SUFFICES ASSUME IInv, QtyInv, RepeatInv, [Next]_vars PROVE RepeatInv'
  OBVIOUS
<1>1. CASE UNCHANGED <<action, approvals, executions>>
  BY <1>1 DEF RepeatInv
<1>2. ASSUME NEW a \in Actions, NEW act, NEW h, Step(a, act, h) PROVE RepeatInv'
  <2> DEFINE runs == Cardinality(Runs(executions[a]))
             raised == Cardinality(RowsOf(approvals[a], "ESCALATE"))
  <2>0. /\ approvals[a] \in Seq(ApprovalRow) /\ executions[a] \in Seq(ExecutionRow)
    BY DEF IInv, TypeOK
  <2>1. /\ action'[a] = act /\ approvals'[a] = h
        /\ \A b \in Actions : b # a => action'[b] = action[b] /\ approvals'[b] = approvals[b]
    BY <1>2, Written DEF Step
  <2>2. /\ runs \in Nat /\ raised \in Nat
        /\ runs <= raised + (IF action[a].status = "VERIFIED" THEN 1 ELSE 0)
    <3>1. [status |-> "FAILED", qty |-> 0] \in ExecutionRow BY DEF ExecutionRow
    <3>2. runs \in Nat BY <2>0, <3>1, CountRuns
    <3>3. \A r \in ApprovalRow : raised \in Nat BY <2>0, CountRows
    <3>4. \E r : r \in ApprovalRow
      <4>1. [decision |-> "APPROVE", by |-> System, rank |-> 0, qty |-> 0] \in ApprovalRow
        BY DEF ApprovalRow, Decisions
      <4> QED BY <4>1
    <3> QED BY <3>2, <3>3, <3>4 DEF RepeatInv, Paid
  <2>3. /\ \A b \in Actions : b # a => executions'[b] = executions[b]
        /\ Paid(act, h, executions'[a])
    <3>1. CASE Parks(a, act, h)
      <4>1. executions' = executions /\ act.status # "VERIFIED" BY <3>1 DEF Parks
      <4>2. CASE action[a].status = "NONE" /\ h = approvals[a]
        BY <2>2, <4>1, <4>2 DEF Paid
      <4>3. ASSUME NEW r \in ApprovalRow, h = Append(approvals[a], r),
                   action[a].status = "VERIFIED" => r.decision = "ESCALATE"
            PROVE  Paid(act, h, executions'[a])
        <5>1. Cardinality(RowsOf(h, "ESCALATE")) = raised + (IF r.decision = "ESCALATE" THEN 1 ELSE 0)
          BY <2>0, <4>3, CountRows
        <5> HIDE DEF runs, raised
        <5>2. Cardinality(RowsOf(h, "ESCALATE")) >= runs
          BY <2>2, <4>3, <5>1
        <5>3. Cardinality(RowsOf(h, "ESCALATE")) \in Nat BY <2>2, <5>1
        <5> QED BY <2>2, <4>1, <5>2, <5>3 DEF Paid, runs
      <4> QED BY <3>1, <4>1, <4>2, <4>3 DEF Parks
    <3>2. CASE Approves(a, act, h)
      <4>1. Carried(a, act) /\ action[a].status # "VERIFIED" BY <3>2 DEF Approves
      <4>2. PICK s \in Seq(ApprovalRow), r \in ApprovalRow :
              /\ s = approvals[a] \/ \E m \in ApprovalRow : s = Append(approvals[a], m) /\ m.decision = "MODIFY"
              /\ h = Append(s, r) /\ r.decision = "APPROVE"
        BY <3>2 DEF Approves
      <4>3. Cardinality(RowsOf(s, "ESCALATE")) = raised
        <5>1. CASE s = approvals[a] BY <5>1
        <5>2. ASSUME NEW m \in ApprovalRow, s = Append(approvals[a], m), m.decision = "MODIFY"
              PROVE  Cardinality(RowsOf(s, "ESCALATE")) = raised
          <6>1. Cardinality(RowsOf(s, "ESCALATE")) = raised + (IF m.decision = "ESCALATE" THEN 1 ELSE 0)
            BY <2>0, <5>2, CountRows
          <6> HIDE DEF raised
          <6> QED BY <2>2, <5>2, <6>1
        <5> QED BY <4>2, <5>1, <5>2
      <4>4. Cardinality(RowsOf(h, "ESCALATE")) = raised
        <5>1. Cardinality(RowsOf(h, "ESCALATE")) =
                Cardinality(RowsOf(s, "ESCALATE")) + (IF r.decision = "ESCALATE" THEN 1 ELSE 0)
          BY <4>2, CountRows
        <5> HIDE DEF raised
        <5> QED BY <2>2, <4>2, <4>3, <5>1
      <4> QED BY <2>2, <4>1, <4>4, CarriedOnce DEF Paid
    <3>3. CASE Executes(a, act, h)
      <4>1. Carried(a, act) /\ action[a].status = "APPROVED" /\ h = approvals[a]
        BY <3>3 DEF Executes
      <4> QED BY <2>2, <4>1, CarriedOnce DEF Paid
    <3> QED BY <1>2, <3>1, <3>2, <3>3 DEF Step
  <2>4. \A b \in Actions : Paid(action'[b], approvals'[b], executions'[b])
    BY <2>1, <2>3 DEF RepeatInv
  <2> QED BY <2>4 DEF RepeatInv
<1> QED BY <1>1, <1>2, AboutOne

(* No chain of refusals, failures, modifications and approvals carries out  *)
(* an action twice; each execution but the first was preceded by a further  *)
(* escalation.                                                              *)
THEOREM RepeatsAreEscalated == Spec => []RepeatNeedsEscalation
<1>1. ASSUME IInv, RepeatInv PROVE RepeatNeedsEscalation
  <2> SUFFICES ASSUME NEW a \in Actions
               PROVE  Cardinality(Simulated(a)) <= 1 + Cardinality(RowsOf(approvals[a], "ESCALATE"))
    BY DEF RepeatNeedsEscalation
  <2>1. approvals[a] \in Seq(ApprovalRow) /\ executions[a] \in Seq(ExecutionRow)
    BY <1>1 DEF IInv, TypeOK
  <2>2. /\ [status |-> "FAILED", qty |-> 0] \in ExecutionRow
        /\ [decision |-> "APPROVE", by |-> System, rank |-> 0, qty |-> 0] \in ApprovalRow
    BY DEF ExecutionRow, ApprovalRow, Decisions
  <2>3. Cardinality(Runs(executions[a])) \in Nat BY <2>1, <2>2, CountRuns
  <2>4. Cardinality(RowsOf(approvals[a], "ESCALATE")) \in Nat BY <2>1, <2>2, CountRows
  <2>5. Simulated(a) = Runs(executions[a]) BY DEF Simulated, Runs
  <2> QED BY <1>1, <2>3, <2>4, <2>5 DEF RepeatInv, Paid
<1>2. IInv /\ RepeatInv => RepeatNeedsEscalation BY <1>1
<1> QED BY <1>2, RepeatStarts, RepeatKeeps, WorkflowInvariant, PTL DEF Spec

-----------------------------------------------------------------------------
(* The refinement of ApprovalGate *)

(* The three variables of the gate, action by action.                       *)
LEMMA GateAt ==
  /\ DOMAIN Grants = Actions /\ DOMAIN Usable = Actions /\ DOMAIN Used = Actions
  /\ \A a \in Actions :
       /\ Grants[a] = Cardinality(RowsOf(approvals[a], "APPROVE"))
       /\ Usable[a] = IF action[a].status = "APPROVED" THEN LastOf(approvals[a]).qty ELSE -1
       /\ Used[a] = [i \in 1..Len(executions[a]) |-> executions[a][i].qty]
BY DEF Grants, Usable, Used

(* Writing what is there already changes nothing. *)
LEMMA Rewritten ==
  ASSUME NEW a \in Actions
  PROVE  /\ [Grants EXCEPT ![a] = Grants[a]] = Grants
         /\ [Usable EXCEPT ![a] = Usable[a]] = Usable
<1>1. ASSUME NEW D, NEW S, NEW f \in [D -> S], NEW x \in D PROVE [f EXCEPT ![x] = f[x]] = f
  OBVIOUS
<1>2. /\ Grants \in [Actions -> {Grants[b] : b \in Actions}]
      /\ Usable \in [Actions -> {Usable[b] : b \in Actions}]
  BY DEF Grants, Usable
<1> QED BY <1>1, <1>2

(* The mapped state is that of nothing granted. *)
LEMMA GateStarts == Init => Gate!Init
<1> SUFFICES ASSUME Init PROVE Gate!Init
  OBVIOUS
<1>1. \A a \in Actions : approvals[a] = <<>> /\ executions[a] = <<>> /\ action[a].status = "NONE"
  BY DEF Init, Absent, New
<1>2. \A a \in Actions : RowsOf(approvals[a], "APPROVE") = {}
  BY <1>1 DEF RowsOf
<1>3. Cardinality({}) = 0 BY FS_EmptySet
<1>4. Grants = [a \in Actions |-> 0] BY <1>2, <1>3 DEF Grants
<1>5. Usable = [a \in Actions |-> -1] BY <1>1 DEF Usable
<1>6. Used = [a \in Actions |-> <<>>]
  <2>1. \A a \in Actions : [i \in 1..Len(executions[a]) |-> executions[a][i].qty] = <<>>
    BY <1>1
  <2> QED BY <2>1 DEF Used
<1> QED BY <1>4, <1>5, <1>6 DEF Gate!Init

(* A request changes the mapped state of the action it is about. *)
LEMMA GateChanges ==
  ASSUME IInv, NEW a \in Actions, NEW act, NEW h, Writes(a, act, h),
         \A b \in Actions : b # a => executions'[b] = executions[b],
         DOMAIN executions' = Actions
  PROVE  /\ Grants' = [Grants EXCEPT ![a] = Cardinality(RowsOf(h, "APPROVE"))]
         /\ Usable' = [Usable EXCEPT ![a] = IF act.status = "APPROVED" THEN LastOf(h).qty ELSE -1]
         /\ Used' = [Used EXCEPT ![a] = [i \in 1..Len(executions'[a]) |-> executions'[a][i].qty]]
<1>1. /\ action'[a] = act /\ approvals'[a] = h
      /\ \A b \in Actions : b # a => action'[b] = action[b] /\ approvals'[b] = approvals[b]
  BY Written
<1>2. Grants' = [Grants EXCEPT ![a] = Cardinality(RowsOf(h, "APPROVE"))]
  BY <1>1 DEF Grants
<1>3. Usable' = [Usable EXCEPT ![a] = IF act.status = "APPROVED" THEN LastOf(h).qty ELSE -1]
  BY <1>1 DEF Usable
<1>4. Used' = [Used EXCEPT ![a] = [i \in 1..Len(executions'[a]) |-> executions'[a][i].qty]]
  BY DEF Used
<1> QED BY <1>2, <1>3, <1>4

(* An execution row more is one more use. *)
LEMMA UsedMore ==
  ASSUME NEW e \in Seq(ExecutionRow), NEW row \in ExecutionRow, NEW more, more = Append(e, row)
  PROVE  [i \in 1..Len(more) |-> more[i].qty] = Append([i \in 1..Len(e) |-> e[i].qty], row.qty)
<1> DEFINE s == [i \in 1..Len(e) |-> e[i].qty]
           t == [i \in 1..Len(more) |-> more[i].qty]
<1>1. /\ Len(e) \in Nat /\ Len(more) = Len(e) + 1 /\ more[Len(e) + 1] = row
      /\ \A i \in 1..Len(e) : more[i] = e[i] /\ e[i] \in ExecutionRow
  OBVIOUS
<1>2. s \in Seq(Nat) /\ Len(s) = Len(e) /\ row.qty \in Nat
  BY <1>1 DEF ExecutionRow
<1>3. Append(s, row.qty) \in Seq(Nat) /\ Len(Append(s, row.qty)) = Len(e) + 1
  BY <1>2, <1>1
<1>4. t \in Seq(Nat) /\ Len(t) = Len(e) + 1
  BY <1>1, <1>2 DEF ExecutionRow
<1>5. \A i \in 1..(Len(e) + 1) : t[i] = Append(s, row.qty)[i]
  BY <1>1, <1>2
<1> HIDE DEF s, t
<1>6. t = Append(s, row.qty) BY <1>3, <1>4, <1>5, SeqEqual
<1> QED BY <1>6 DEF s, t

(* What an execution does to the gate: nothing, or one use of the quantity. *)
LEMMA CarriedUse ==
  ASSUME IInv, NEW a \in Actions, NEW act, NEW h, Writes(a, act, h), Carried(a, act)
  PROVE  /\ Grants' = [Grants EXCEPT ![a] = Cardinality(RowsOf(h, "APPROVE"))]
         /\ \/ /\ act.status = "APPROVED"
               /\ Usable' = [Usable EXCEPT ![a] = LastOf(h).qty]
               /\ Used' = Used
            \/ /\ Usable' = [Usable EXCEPT ![a] = -1]
               /\ Used' = [Used EXCEPT ![a] = Append(@, act.qty)]
<1>0. executions \in [Actions -> Seq(ExecutionRow)] BY DEF IInv, TypeOK
<1>1. CASE act.status = "APPROVED" /\ UNCHANGED executions
  <2>1. Used' = Used BY <1>1 DEF Used
  <2>2. /\ \A b \in Actions : b # a => executions'[b] = executions[b]
        /\ DOMAIN executions' = Actions
    BY <1>0, <1>1
  <2> QED BY <1>1, <2>1, <2>2, GateChanges
<1>2. ASSUME NEW row \in ExecutionRow,
             executions' = [executions EXCEPT ![a] = Append(@, row)],
             row.qty = act.qty, act.status # "APPROVED"
      PROVE  /\ Grants' = [Grants EXCEPT ![a] = Cardinality(RowsOf(h, "APPROVE"))]
             /\ Usable' = [Usable EXCEPT ![a] = -1]
             /\ Used' = [Used EXCEPT ![a] = Append(@, act.qty)]
  <2>1. /\ executions'[a] = Append(executions[a], row)
        /\ \A b \in Actions : b # a => executions'[b] = executions[b]
        /\ DOMAIN executions' = Actions
    BY <1>0, <1>2
  <2>2. /\ Grants' = [Grants EXCEPT ![a] = Cardinality(RowsOf(h, "APPROVE"))]
        /\ Usable' = [Usable EXCEPT ![a] = IF act.status = "APPROVED" THEN LastOf(h).qty ELSE -1]
        /\ Used' = [Used EXCEPT ![a] = [i \in 1..Len(executions'[a]) |-> executions'[a][i].qty]]
    BY <2>1, GateChanges
  <2>3. [i \in 1..Len(executions'[a]) |-> executions'[a][i].qty] = Append(Used[a], act.qty)
    <3>1. executions[a] \in Seq(ExecutionRow) BY <1>0
    <3> QED BY <1>2, <2>1, <3>1, UsedMore, GateAt
  <2> QED BY <1>2, <2>2, <2>3
<1> QED BY <1>1, <1>2 DEF Carried

(* Every step of the workflow is a step of the gate, or none. *)
LEMMA GateSteps ==
  ASSUME IInv, QtyInv, [Next]_vars
  PROVE  [Gate!Next]_(Gate!vars)
<1>1. CASE UNCHANGED <<action, approvals, executions>>
  <2>1. Grants' = Grants /\ Usable' = Usable /\ Used' = Used
    BY <1>1 DEF Grants, Usable, Used
  <2> QED BY <2>1 DEF Gate!vars
<1>2. ASSUME NEW a \in Actions, NEW act, NEW h, Step(a, act, h)
      PROVE  [Gate!Next]_(Gate!vars)
  <2> DEFINE given == Cardinality(RowsOf(approvals[a], "APPROVE"))
  <2>0. /\ approvals[a] \in Seq(ApprovalRow) /\ executions \in [Actions -> Seq(ExecutionRow)]
        /\ Writes(a, act, h) /\ act.qty \in Quantities /\ act.qty \in Nat
    BY <1>2 DEF IInv, TypeOK, Step, Writes, ActionRow
  <2>1. given \in Nat /\ Grants[a] = given
    <3>1. [decision |-> "APPROVE", by |-> System, rank |-> 0, qty |-> 0] \in ApprovalRow
      BY DEF ApprovalRow, Decisions
    <3>2. given \in Nat BY <2>0, <3>1, CountRows
    <3> QED BY <3>2, GateAt
  <2>2. CASE Parks(a, act, h)
    <3>1. act.status # "APPROVED" /\ UNCHANGED executions BY <2>2 DEF Parks
    <3>2. Cardinality(RowsOf(h, "APPROVE")) = given
      <4>1. CASE h = approvals[a] BY <4>1
      <4>2. ASSUME NEW r \in ApprovalRow, h = Append(approvals[a], r), r.decision # "APPROVE"
            PROVE  Cardinality(RowsOf(h, "APPROVE")) = given
        <5>1. Cardinality(RowsOf(h, "APPROVE")) = given + (IF r.decision = "APPROVE" THEN 1 ELSE 0)
          BY <2>0, <4>2, CountRows
        <5> HIDE DEF given
        <5> QED BY <2>1, <4>2, <5>1
      <4> QED BY <2>2, <4>1, <4>2 DEF Parks
    <3>3. /\ \A b \in Actions : b # a => executions'[b] = executions[b]
          /\ DOMAIN executions' = Actions
      BY <2>0, <3>1
    <3>4. /\ Grants' = [Grants EXCEPT ![a] = given]
          /\ Usable' = [Usable EXCEPT ![a] = -1]
      BY <2>0, <3>1, <3>2, <3>3, GateChanges
    <3>5. Used' = Used BY <3>1 DEF Used
    <3>6. Grants' = Grants BY <2>1, <3>4, Rewritten
    <3>7. Gate!Withdraw(a) BY <3>4, <3>5, <3>6 DEF Gate!Withdraw
    <3> QED BY <3>7 DEF Gate!Next
  <2>3. CASE Approves(a, act, h)
    <3>1. PICK s \in Seq(ApprovalRow), r \in ApprovalRow :
            /\ s = approvals[a] \/ \E m \in ApprovalRow : s = Append(approvals[a], m) /\ m.decision = "MODIFY"
            /\ h = Append(s, r) /\ r.decision = "APPROVE" /\ r.qty = act.qty
      BY <2>3 DEF Approves
    <3>2. Cardinality(RowsOf(s, "APPROVE")) = given
      <4>1. CASE s = approvals[a] BY <4>1
      <4>2. ASSUME NEW m \in ApprovalRow, s = Append(approvals[a], m), m.decision = "MODIFY"
            PROVE  Cardinality(RowsOf(s, "APPROVE")) = given
        <5>1. Cardinality(RowsOf(s, "APPROVE")) = given + (IF m.decision = "APPROVE" THEN 1 ELSE 0)
          BY <2>0, <4>2, CountRows
        <5> HIDE DEF given
        <5> QED BY <2>1, <4>2, <5>1
      <4> QED BY <3>1, <4>1, <4>2
    <3>3. Cardinality(RowsOf(h, "APPROVE")) = given + 1
      <4>1. Cardinality(RowsOf(h, "APPROVE")) =
              Cardinality(RowsOf(s, "APPROVE")) + (IF r.decision = "APPROVE" THEN 1 ELSE 0)
        BY <3>1, CountRows
      <4> HIDE DEF given
      <4> QED BY <3>1, <3>2, <4>1
    <3>4. LastOf(h).qty = act.qty BY <3>1, LastAppended
    <3>5. Carried(a, act) BY <2>3 DEF Approves
    <3>6. Grants' = [Grants EXCEPT ![a] = @ + 1]
      <4>1. Grants' = [Grants EXCEPT ![a] = given + 1] BY <2>0, <3>3, <3>5, CarriedUse
      <4> QED BY <2>1, <4>1
    <3>7. \/ /\ Usable' = [Usable EXCEPT ![a] = act.qty]
             /\ Used' = Used
          \/ /\ Usable' = [Usable EXCEPT ![a] = -1]
             /\ Used' = [Used EXCEPT ![a] = Append(@, act.qty)]
      BY <2>0, <3>4, <3>5, CarriedUse
    <3>8. Gate!Grant(a, act.qty) \/ Gate!GrantAndUse(a, act.qty)
      BY <3>6, <3>7 DEF Gate!Grant, Gate!GrantAndUse
    <3> QED BY <2>0, <3>8 DEF Gate!Next
  <2>4. CASE Executes(a, act, h)
    <3>1. /\ Carried(a, act) /\ action[a].status = "APPROVED" /\ h = approvals[a]
          /\ act.qty = action[a].qty
      BY <2>4 DEF Executes, SameCase
    <3>2. LastOf(h).qty = act.qty BY <3>1 DEF IInv, ApprovedAsIs
    <3>3. Usable[a] = act.qty /\ act.qty # -1 BY <2>0, <3>1, <3>2, GateAt
    <3>4. Grants' = Grants
      <4>1. Grants' = [Grants EXCEPT ![a] = given] BY <2>0, <3>1, CarriedUse
      <4> QED BY <2>1, <4>1, Rewritten
    <3>5. CASE Usable' = [Usable EXCEPT ![a] = act.qty] /\ Used' = Used
      <4>1. Usable' = Usable BY <3>3, <3>5, Rewritten
      <4> QED BY <3>4, <3>5, <4>1 DEF Gate!vars
    <3>6. CASE /\ Usable' = [Usable EXCEPT ![a] = -1]
               /\ Used' = [Used EXCEPT ![a] = Append(@, act.qty)]
      <4>1. Gate!Use(a) BY <3>3, <3>4, <3>6 DEF Gate!Use
      <4> QED BY <4>1 DEF Gate!Next
    <3> QED BY <2>0, <3>1, <3>2, <3>5, <3>6, CarriedUse
  <2> QED BY <1>2, <2>2, <2>3, <2>4 DEF Step
<1> QED BY <1>1, <1>2, AboutOne

(* The workflow implements the approval gate: whatever the order of the     *)
(* requests, an execution uses up one approval, the latest, and carries out *)
(* the quantity that approval was for.                                      *)
THEOREM WorkflowImplementsGate == Spec => ImplementsGate
<1>1. IInv /\ QtyInv /\ [Next]_vars => [Gate!Next]_(Gate!vars) BY GateSteps
<1> QED BY <1>1, GateStarts, WorkflowInvariant, PTL DEF Spec, ImplementsGate, Gate!Spec
=============================================================================
