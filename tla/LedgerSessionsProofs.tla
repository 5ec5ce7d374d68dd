------------------------ MODULE LedgerSessionsProofs ------------------------
(***************************************************************************)
(* Theorems about concurrent posting, for any number of sessions, buckets  *)
(* and postings: what the interleaving of statements cannot break, although*)
(* it can lose updates.                                                    *)
(***************************************************************************)
EXTENDS LedgerSessions, FiniteSetTheorems, TLAPS

Keys == Buckets \X Slots
Record == [val: Int \cup {Absent}, by: Sessions \cup {NoSession}, new: Int]
Stages == {"idle", "guard", "debit", "find", "create", "credit", "insert", "bump", "open"}

(* A row of balances: neither its committed value nor a value somebody      *)
(* wrote and has yet to commit is negative.                                 *)
Fine(r) == r \in Record /\ (r.val # Absent => r.val >= 0) /\ r.new >= 0

(* A posting has a source or a destination. *)
RealMove == {m \in Move : m.from # NoBucket \/ m.to # NoBucket}

AtPosting == {"guard", "debit", "find", "create", "credit", "insert"}
AtCredit == {"find", "create", "credit"}

(* What a session knows at each of its stages: it is at a posting, it has   *)
(* read a quantity that is not negative, and before it takes stock out, the *)
(* quantity it read covers the posting.                                     *)
Ready(stage, m, h) ==
  /\ stage \in Stages
  /\ m \in RealMove \cup {NoMove}
  /\ h \in [slot: Slots \cup {0}, qty: Int] /\ h.qty >= 0
  /\ stage \in AtPosting => m \in RealMove
  /\ stage = "debit" => m.from \in Buckets /\ h.slot \in Slots /\ h.qty >= m.qty
  /\ stage \in AtCredit => m.to \in Buckets
  /\ stage = "credit" => h.slot \in Slots

(* The tables every session shares. *)
SoundTables ==
  /\ DOMAIN row = Keys /\ row = [k \in Keys |-> row[k]]
  /\ \A k \in Keys : Fine(row[k])
  /\ log \in Seq(RealMove)
  /\ counter \in Sessions \cup {NoSession}
  /\ begun \in [Sessions -> 0..MaxPosts]
  /\ pending \in [Sessions -> Seq(RealMove)]

(* The inductive invariant.  The guard's reading is remembered until the    *)
(* write, and nobody else can change it: others change the row, never what  *)
(* the session read.                                                        *)
IInv ==
  /\ SoundTables
  /\ DOMAIN pc = Sessions /\ pc = [s \in Sessions |-> pc[s]]
  /\ DOMAIN move = Sessions /\ move = [s \in Sessions |-> move[s]]
  /\ DOMAIN have = Sessions /\ have = [s \in Sessions |-> have[s]]
  /\ \A s \in Sessions : Ready(pc[s], move[s], have[s])

(* The invariant implies the types and that no committed row is negative.   *)
LEMMA IInvImplies == IInv => TypeOK /\ NoNegativeRow
<1> SUFFICES ASSUME IInv PROVE TypeOK /\ NoNegativeRow
  OBVIOUS
<1>1. RealMove \subseteq Move BY DEF RealMove
<1>2. log \in Seq(Move) /\ pending \in [Sessions -> Seq(Move)]
  BY <1>1 DEF IInv, SoundTables
<1>3. row \in [Buckets \X Slots -> [val: Int \cup {Absent}, by: Sessions \cup {NoSession}, new: Int]]
  BY DEF IInv, SoundTables, Fine, Record, Keys
<1>4. /\ pc \in [Sessions -> Stages]
      /\ move \in [Sessions -> Move \cup {NoMove}]
      /\ have \in [Sessions -> [slot: Slots \cup {0}, qty: Int]]
  BY <1>1 DEF IInv, Ready
<1>5. TypeOK BY <1>2, <1>3, <1>4 DEF IInv, SoundTables, TypeOK, Stages
<1> QED BY <1>5 DEF IInv, SoundTables, Fine, NoNegativeRow, Keys

-----------------------------------------------------------------------------
(* A step of one session *)

(* The step leaves the other sessions where they are, and this one ready.   *)
Moved(s) ==
  /\ pc' = [pc EXCEPT ![s] = pc'[s]]
  /\ move' = [move EXCEPT ![s] = move'[s]]
  /\ have' = [have EXCEPT ![s] = have'[s]]
  /\ Ready(pc'[s], move'[s], have'[s])

(* A session that moves on and leaves sound tables keeps the invariant.     *)
LEMMA MovedKeeps ==
  ASSUME IInv, NEW s \in Sessions, Moved(s), SoundTables'
  PROVE  IInv'
<1>1. /\ DOMAIN pc' = Sessions /\ pc' = [t \in Sessions |-> pc'[t]]
      /\ DOMAIN move' = Sessions /\ move' = [t \in Sessions |-> move'[t]]
      /\ DOMAIN have' = Sessions /\ have' = [t \in Sessions |-> have'[t]]
  BY DEF IInv, Moved
<1>2. ASSUME NEW t \in Sessions PROVE Ready(pc'[t], move'[t], have'[t])
  <2>1. CASE t = s BY <2>1 DEF Moved
  <2>2. CASE t # s
    <3>1. pc'[t] = pc[t] /\ move'[t] = move[t] /\ have'[t] = have[t]
      BY <2>2 DEF IInv, Moved
    <3> QED BY <3>1 DEF IInv
  <2> QED BY <2>1, <2>2
<1> QED BY <1>1, <1>2 DEF IInv

(* A session that begins a posting. *)
LEMMA BeginKeeps ==
  ASSUME IInv, NEW s \in Sessions, NEW m \in RealMove, Begin(s, m)
  PROVE  IInv'
<1>1. Ready("guard", m, have[s])
  BY DEF IInv, Ready, Stages, AtPosting, AtCredit
<1>2. Moved(s)
  BY <1>1 DEF Moved, Begin, Go, IInv
<1>3. begun' \in [Sessions -> 0..MaxPosts]
  BY SessionsAssumption DEF Begin, IInv, SoundTables
<1>4. SoundTables'
  BY <1>3 DEF Begin, IInv, SoundTables
<1> QED BY <1>2, <1>4, MovedKeeps

(* A posting begins a movement,                                             *)
LEMMA PostBegins ==
  ASSUME IInv, NEW s \in Sessions, Post(s)
  PROVE  \E m \in RealMove : Begin(s, m)
<1>1. PICK from, to \in Buckets \cup {NoBucket}, q \in Quantities, id \in ClientIds \cup {GeneratedId} :
        /\ from # to
        /\ Begin(s, [from |-> from, to |-> to, qty |-> q, id |-> id, reverses |-> 0])
  BY DEF Post
<1>2. [from |-> from, to |-> to, qty |-> q, id |-> id, reverses |-> 0] \in RealMove
  BY <1>1 DEF RealMove, Move
<1> QED BY <1>1, <1>2

(* and so does a reversal.                                                  *)
LEMMA ReverseBegins ==
  ASSUME IInv, NEW s \in Sessions, Reverse(s)
  PROVE  \E m \in RealMove : Begin(s, m)
<1>1. PICK i \in 1..Len(log) :
        Begin(s, [from |-> log[i].to, to |-> log[i].from, qty |-> log[i].qty,
                  id |-> GeneratedId, reverses |-> i])
  BY DEF Reverse
<1>2. log[i] \in RealMove BY DEF IInv, SoundTables
<1>3. [from |-> log[i].to, to |-> log[i].from, qty |-> log[i].qty,
       id |-> GeneratedId, reverses |-> i] \in RealMove
  BY <1>2 DEF RealMove, Move
<1> QED BY <1>1, <1>3

(* What a session sees in a row is not negative.                            *)
LEMMA SeenFine ==
  ASSUME IInv, NEW s \in Sessions, NEW b \in Buckets, NEW i \in Seen(s, b)
  PROVE  i \in Slots /\ SeenQty(s, b, i) \in Int /\ SeenQty(s, b, i) >= 0
<1>1. i \in Slots /\ <<b, i>> \in Keys BY DEF Seen, Keys
<1>2. Fine(row[<<b, i>>]) BY <1>1 DEF IInv, SoundTables
<1> QED BY <1>1, <1>2 DEF Seen, SeenQty, Fine, Record

(* The guard reads a quantity that covers the posting, or refuses it.       *)
LEMMA GuardKeeps ==
  ASSUME IInv, NEW s \in Sessions, Guard(s) \/ Refuse(s)
  PROVE  IInv'
<1>0. Ready(pc[s], move[s], have[s]) BY DEF IInv
<1>1. CASE Guard(s)
  <2>1. move[s] \in RealMove BY <1>0, <1>1 DEF Guard, Ready, AtPosting
  <2>2. SoundTables' BY <1>1 DEF Guard, IInv, SoundTables
  <2>3. CASE move[s].from = NoBucket
    <3>1. move[s].to \in Buckets BY <2>1, <2>3 DEF RealMove, Move
    <3>2. Ready("find", move[s], have[s])
      BY <1>0, <2>1, <3>1 DEF Ready, Stages, AtPosting, AtCredit
    <3>3. Moved(s) BY <1>1, <2>3, <3>2 DEF Moved, Guard, Go, IInv
    <3> QED BY <2>2, <3>3, MovedKeeps
  <2>4. CASE move[s].from # NoBucket
    <3>1. move[s].from \in Buckets BY <2>1, <2>4 DEF RealMove, Move
    <3>2. PICK i \in Seen(s, move[s].from) :
            /\ SeenQty(s, move[s].from, i) >= move[s].qty
            /\ have' = [have EXCEPT ![s] = [slot |-> i, qty |-> SeenQty(s, move[s].from, i)]]
            /\ Go(s, "debit")
      BY <1>1, <2>4 DEF Guard
    <3>3. /\ i \in Slots /\ SeenQty(s, move[s].from, i) \in Int
          /\ SeenQty(s, move[s].from, i) >= 0
      BY <3>1, SeenFine
    <3>4. Ready("debit", move[s], [slot |-> i, qty |-> SeenQty(s, move[s].from, i)])
      BY <2>1, <3>1, <3>2, <3>3 DEF Ready, Stages, AtPosting, AtCredit
    <3>5. Moved(s) BY <1>1, <3>2, <3>4 DEF Moved, Guard, Go, IInv
    <3> QED BY <2>2, <3>5, MovedKeeps
  <2> QED BY <2>3, <2>4
<1>2. CASE Refuse(s)
  <2>1. \A p \in {"idle", "open"} : Ready(p, NoMove, have[s])
    BY <1>0 DEF Ready, Stages, AtPosting, AtCredit
  <2>2. PICK p \in {"idle", "open"} : pc' = [pc EXCEPT ![s] = p]
    BY <1>2 DEF Refuse, Go
  <2>3. Moved(s) BY <1>2, <2>1, <2>2 DEF Moved, Refuse, IInv
  <2>4. begun' \in [Sessions -> 0..MaxPosts]
    <3>1. begun' = begun \/ begun' = [begun EXCEPT ![s] = 0] BY <1>2 DEF Refuse
    <3>2. 0 \in 0..MaxPosts BY SessionsAssumption
    <3> QED BY <3>1, <3>2 DEF IInv, SoundTables
  <2>5. SoundTables' BY <1>2, <2>4 DEF Refuse, IInv, SoundTables
  <2> QED BY <2>3, <2>5, MovedKeeps
<1> QED BY <1>1, <1>2

(* A fine row stays so under another writer and value. *)
LEMMA RewrittenFine ==
  ASSUME NEW r, Fine(r), NEW u \in Sessions \cup {NoSession}, NEW n \in Int, n >= 0
  PROVE  Fine([r EXCEPT !.by = u, !.new = n])
BY DEF Fine, Record

(* Writing a value that is not negative keeps the tables.                   *)
LEMMA WrittenKeeps ==
  ASSUME IInv, NEW s \in Sessions, NEW k \in Keys, NEW qty \in Int, qty >= 0,
         row' = Written(s, k, qty), UNCHANGED <<log, counter, begun, pending>>
  PROVE  SoundTables'
<1> DEFINE r == [row[k] EXCEPT !.by = s, !.new = qty]
<1>1. Fine(row[k]) BY DEF IInv, SoundTables
<1>2. Fine(r) BY <1>1, RewrittenFine
<1>3. row' = [row EXCEPT ![k] = r]
  BY DEF Written, IInv, SoundTables
<1> HIDE DEF r
<1>4. DOMAIN row' = Keys /\ row' = [j \in Keys |-> row'[j]] /\ \A j \in Keys : Fine(row'[j])
  BY <1>2, <1>3 DEF IInv, SoundTables
<1> QED BY <1>4 DEF IInv, SoundTables

(* The debit writes what was read less the quantity, which is not negative: *)
(* the guard compared the two.                                              *)
LEMMA DebitKeeps ==
  ASSUME IInv, NEW s \in Sessions, Debit(s)
  PROVE  IInv'
<1>0. Ready(pc[s], move[s], have[s]) /\ pc[s] = "debit" BY DEF IInv, Debit
<1>1. /\ move[s] \in RealMove /\ move[s].from \in Buckets
      /\ have[s] \in [slot: Slots \cup {0}, qty: Int] /\ have[s].slot \in Slots
      /\ have[s].qty >= move[s].qty /\ have[s].qty >= 0
  BY <1>0 DEF Ready, AtPosting
<1>2. move[s].qty \in Nat /\ move[s].to \in Buckets \cup {NoBucket} /\ have[s].qty \in Int
  BY <1>1, SessionsAssumption DEF RealMove, Move
<1>3. SoundTables'
  <2>1. <<move[s].from, have[s].slot>> \in Keys BY <1>1 DEF Keys
  <2>2. have[s].qty - move[s].qty \in Int /\ have[s].qty - move[s].qty >= 0 BY <1>1, <1>2
  <2> QED BY <2>1, <2>2, WrittenKeeps DEF Debit
<1>4. PICK p \in {"insert", "find"} :
        pc' = [pc EXCEPT ![s] = p] /\ (p = "find" => move[s].to \in Buckets)
  BY <1>2 DEF Debit, Go
<1>5. Ready(p, move[s], have[s])
  BY <1>0, <1>1, <1>4 DEF Ready, Stages, AtPosting, AtCredit
<1>6. Moved(s) BY <1>4, <1>5 DEF Moved, Debit, IInv
<1> QED BY <1>3, <1>6, MovedKeeps

(* Looking up a bucket keeps the invariant,                                 *)
LEMMA FindKeeps ==
  ASSUME IInv, NEW s \in Sessions, Find(s)
  PROVE  IInv'
<1>0. Ready(pc[s], move[s], have[s]) /\ pc[s] = "find" BY DEF IInv, Find
<1>1. move[s] \in RealMove /\ move[s].to \in Buckets BY <1>0 DEF Ready, AtPosting, AtCredit
<1>2. SoundTables' BY DEF Find, IInv, SoundTables
<1>3. CASE Go(s, "create") /\ UNCHANGED have
  <2>1. Ready("create", move[s], have[s])
    BY <1>0, <1>1 DEF Ready, Stages, AtPosting, AtCredit
  <2>2. Moved(s) BY <1>3, <2>1 DEF Moved, Find, Go, IInv
  <2> QED BY <1>2, <2>2, MovedKeeps
<1>4. ASSUME NEW i \in Seen(s, move[s].to),
             have' = [have EXCEPT ![s] = [slot |-> i, qty |-> SeenQty(s, move[s].to, i)]],
             Go(s, "credit")
      PROVE  IInv'
  <2>1. /\ i \in Slots /\ SeenQty(s, move[s].to, i) \in Int /\ SeenQty(s, move[s].to, i) >= 0
    BY <1>1, SeenFine
  <2>2. Ready("credit", move[s], [slot |-> i, qty |-> SeenQty(s, move[s].to, i)])
    BY <1>1, <2>1 DEF Ready, Stages, AtPosting, AtCredit
  <2>3. Moved(s) BY <1>4, <2>2 DEF Moved, Find, Go, IInv
  <2> QED BY <1>2, <2>3, MovedKeeps
<1> QED BY <1>3, <1>4 DEF Find

(* creating its row keeps it,                                               *)
LEMMA CreateKeeps ==
  ASSUME IInv, NEW s \in Sessions, Create(s)
  PROVE  IInv'
<1>0. Ready(pc[s], move[s], have[s]) /\ pc[s] = "create" BY DEF IInv, Create
<1>1. move[s] \in RealMove /\ move[s].to \in Buckets BY <1>0 DEF Ready, AtPosting, AtCredit
<1>2. NewSlot(move[s].to) \in Slots
  <2>1. NewSlot(move[s].to) \in Vacant(move[s].to) BY DEF Create, NewSlot
  <2> QED BY <2>1 DEF Vacant
<1>3. SoundTables'
  <2>1. <<move[s].to, NewSlot(move[s].to)>> \in Keys BY <1>1, <1>2 DEF Keys
  <2> QED BY <2>1, WrittenKeeps DEF Create
<1>4. Ready("credit", move[s], [slot |-> NewSlot(move[s].to), qty |-> 0])
  BY <1>1, <1>2 DEF Ready, Stages, AtPosting, AtCredit
<1>5. Moved(s) BY <1>4 DEF Moved, Create, Go, IInv
<1> QED BY <1>3, <1>5, MovedKeeps

(* crediting it keeps it,                                                   *)
LEMMA CreditKeeps ==
  ASSUME IInv, NEW s \in Sessions, Credit(s)
  PROVE  IInv'
<1>0. Ready(pc[s], move[s], have[s]) /\ pc[s] = "credit" BY DEF IInv, Credit
<1>1. /\ move[s] \in RealMove /\ move[s].to \in Buckets
      /\ have[s] \in [slot: Slots \cup {0}, qty: Int] /\ have[s].slot \in Slots
      /\ have[s].qty >= 0
  BY <1>0 DEF Ready, AtPosting, AtCredit
<1>2. move[s].qty \in Nat /\ have[s].qty \in Int
  BY <1>1, SessionsAssumption DEF RealMove, Move
<1>3. SoundTables'
  <2>1. <<move[s].to, have[s].slot>> \in Keys BY <1>1 DEF Keys
  <2>2. have[s].qty + move[s].qty \in Int /\ have[s].qty + move[s].qty >= 0 BY <1>1, <1>2
  <2> QED BY <2>1, <2>2, WrittenKeeps DEF Credit
<1>4. Ready("insert", move[s], have[s])
  BY <1>0, <1>1 DEF Ready, Stages, AtPosting, AtCredit
<1>5. Moved(s) BY <1>4 DEF Moved, Credit, Go, IInv
<1> QED BY <1>3, <1>5, MovedKeeps

(* Inserting the row of the posting, and writing the data version.          *)
LEMMA InsertKeeps ==
  ASSUME IInv, NEW s \in Sessions, Insert(s)
  PROVE  IInv'
<1>0. Ready(pc[s], move[s], have[s]) /\ pc[s] = "insert" BY DEF IInv, Insert
<1>1. move[s] \in RealMove BY <1>0 DEF Ready, AtPosting
<1>2. pending' \in [Sessions -> Seq(RealMove)]
  <2>1. pending[s] \in Seq(RealMove) BY DEF IInv, SoundTables
  <2>2. Append(pending[s], move[s]) \in Seq(RealMove) BY <1>1, <2>1
  <2> QED BY <2>2 DEF Insert, IInv, SoundTables
<1>3. SoundTables' BY <1>2 DEF Insert, IInv, SoundTables
<1>4. Ready("bump", move[s], have[s])
  BY <1>0 DEF Ready, Stages, AtPosting, AtCredit
<1>5. Moved(s) BY <1>4 DEF Moved, Insert, Go, IInv
<1> QED BY <1>3, <1>5, MovedKeeps

(* and so does the raise of the data version.                               *)
LEMMA BumpKeeps ==
  ASSUME IInv, NEW s \in Sessions, Bump(s)
  PROVE  IInv'
<1>1. Ready("open", NoMove, None)
  BY DEF Ready, Stages, AtPosting, AtCredit, None
<1>2. Moved(s) BY <1>1 DEF Moved, Bump, Go, IInv
<1>3. SoundTables' BY DEF Bump, IInv, SoundTables
<1> QED BY <1>2, <1>3, MovedKeeps

(* The end of a transaction, once its effect on rows and log is known.      *)
LEMMA FinishKeeps ==
  ASSUME IInv, NEW s \in Sessions, Finish(s), log' \in Seq(RealMove),
         DOMAIN row' = Keys, row' = [k \in Keys |-> row'[k]], \A k \in Keys : Fine(row'[k])
  PROVE  IInv'
<1>1. Ready("idle", NoMove, None)
  BY DEF Ready, Stages, AtPosting, AtCredit, None
<1>2. Moved(s) BY <1>1 DEF Moved, Finish, Go, IInv
<1>3. begun' \in [Sessions -> 0..MaxPosts]
  <2>1. 0 \in 0..MaxPosts BY SessionsAssumption
  <2> QED BY <2>1 DEF Finish, IInv, SoundTables
<1>4. pending' \in [Sessions -> Seq(RealMove)]
  <2>1. <<>> \in Seq(RealMove) OBVIOUS
  <2> QED BY <2>1 DEF Finish, IInv, SoundTables
<1>5. counter' \in Sessions \cup {NoSession} BY DEF Finish, IInv, SoundTables
<1>6. SoundTables' BY <1>3, <1>4, <1>5 DEF SoundTables
<1> QED BY <1>2, <1>6, MovedKeeps

(* A commit publishes values that are not negative.                         *)
LEMMA CommitKeeps ==
  ASSUME IInv, NEW s \in Sessions, Commit(s)
  PROVE  IInv'
<1>1. log' \in Seq(RealMove)
  <2>1. log \in Seq(RealMove) /\ pending[s] \in Seq(RealMove) BY DEF IInv, SoundTables
  <2> QED BY <2>1 DEF Commit
<1>2. row' = [k \in Keys |->
                IF row[k].by = s THEN [val |-> row[k].new, by |-> NoSession, new |-> 0] ELSE row[k]]
  BY DEF Commit, Keys
<1>3. ASSUME NEW k \in Keys PROVE Fine(row'[k])
  <2>1. Fine(row[k]) BY DEF IInv, SoundTables
  <2>2. Fine([val |-> row[k].new, by |-> NoSession, new |-> 0])
    BY <2>1 DEF Fine, Record
  <2> QED BY <1>2, <2>1, <2>2
<1>4. DOMAIN row' = Keys /\ row' = [k \in Keys |-> row'[k]] BY <1>2
<1>5. Finish(s) BY DEF Commit
<1> QED BY <1>1, <1>3, <1>4, <1>5, FinishKeeps

(* A rollback forgets them.                                                 *)
LEMMA RollBackKeeps ==
  ASSUME IInv, NEW s \in Sessions, RollBack(s)
  PROVE  IInv'
<1>1. log' \in Seq(RealMove) BY DEF RollBack, IInv, SoundTables
<1>2. row' = [k \in Keys |->
                IF row[k].by = s THEN [row[k] EXCEPT !.by = NoSession, !.new = 0] ELSE row[k]]
  BY DEF RollBack, Keys
<1>3. ASSUME NEW k \in Keys PROVE Fine(row'[k])
  <2>1. Fine(row[k]) BY DEF IInv, SoundTables
  <2>2. Fine([row[k] EXCEPT !.by = NoSession, !.new = 0])
    <3>1. NoSession \in Sessions \cup {NoSession} /\ 0 \in Int /\ 0 >= 0 OBVIOUS
    <3> QED BY <2>1, <3>1, RewrittenFine
  <2> QED BY <1>2, <2>1, <2>2
<1>4. DOMAIN row' = Keys /\ row' = [k \in Keys |-> row'[k]] BY <1>2
<1>5. Finish(s) BY DEF RollBack
<1> QED BY <1>1, <1>3, <1>4, <1>5, FinishKeeps

-----------------------------------------------------------------------------
(* The inductive invariant *)

(* The invariant holds at the start.                                        *)
LEMMA InitKeeps == Init => IInv
<1> SUFFICES ASSUME Init PROVE IInv
  OBVIOUS
<1>1. row = [k \in Keys |->
               [val |-> IF k[2] = (CHOOSE i \in Slots : TRUE) /\ Stock[k[1]] > 0
                        THEN Stock[k[1]] ELSE Absent,
                by |-> NoSession, new |-> 0]]
  BY DEF Init, Keys
<1>2. ASSUME NEW k \in Keys PROVE Fine(row[k])
  <2>1. Stock[k[1]] \in Nat BY SessionsAssumption DEF Keys
  <2> QED BY <1>1, <2>1, SessionsAssumption DEF Fine, Record
<1>3. <<>> \in Seq(RealMove) /\ 0 \in 0..MaxPosts BY SessionsAssumption
<1>4. SoundTables BY <1>1, <1>2, <1>3 DEF Init, SoundTables
<1>5. Ready("idle", NoMove, None)
  BY DEF Ready, Stages, AtPosting, AtCredit, None
<1> QED BY <1>4, <1>5 DEF Init, IInv

(* Every step keeps it.                                                     *)
LEMMA StepKeeps == IInv /\ [Next]_vars => IInv'
<1> SUFFICES ASSUME IInv, [Next]_vars PROVE IInv'
  OBVIOUS
<1>1. ASSUME NEW s \in Sessions, Post(s) \/ Reverse(s) PROVE IInv'
  <2>1. PICK m \in RealMove : Begin(s, m) BY <1>1, PostBegins, ReverseBegins
  <2> QED BY <2>1, BeginKeeps
<1>2. ASSUME NEW s \in Sessions, Step(s) PROVE IInv'
  <2>1. CASE Guard(s) \/ Refuse(s) BY <2>1, GuardKeeps
  <2>2. CASE Debit(s) BY <2>2, DebitKeeps
  <2>3. CASE Find(s) \/ Create(s) \/ Credit(s)
    BY <2>3, FindKeeps, CreateKeeps, CreditKeeps
  <2>4. CASE Insert(s) \/ Bump(s) BY <2>4, InsertKeeps, BumpKeeps
  <2>5. CASE Commit(s) BY <2>5, CommitKeeps
  <2>6. CASE Fail(s) \/ AbortDeadlock(s) BY <2>6, RollBackKeeps DEF Fail, AbortDeadlock
  <2> QED BY <1>2, <2>1, <2>2, <2>3, <2>4, <2>5, <2>6 DEF Step
<1>3. CASE UNCHANGED vars
  BY <1>3 DEF vars, IInv, SoundTables
<1> QED BY <1>1, <1>2, <1>3 DEF Next

-----------------------------------------------------------------------------
(* Theorems *)

(* Every state of the sessions and their tables satisfies the invariant.    *)
THEOREM Invariant == Spec => []IInv
<1> QED BY InitKeeps, StepKeeps, PTL DEF Spec

(* Tables and sessions keep their types. *)
THEOREM TypeCorrect == Spec => []TypeOK
<1>1. IInv => TypeOK BY IInvImplies
<1> QED BY <1>1, Invariant, PTL

(* Although updates may be lost, no interleaving of any number of sessions  *)
(* commits a negative quantity.                                             *)
THEOREM RowsNeverNegative == Spec => []NoNegativeRow
<1>1. IInv => NoNegativeRow BY IInvImplies
<1> QED BY <1>1, Invariant, PTL

-----------------------------------------------------------------------------
(* Transaction ids *)

(* The ids callers chose in a sequence of postings, and that none repeats.  *)
IdsOf(q) == {q[i].id : i \in 1..Len(q)} \ {GeneratedId}
Distinct(q) == \A i, j \in 1..Len(q) : q[i].id = q[j].id /\ q[i].id # GeneratedId => i = j

(* The ids of two logs put together.                                        *)
LEMMA IdsOfJoined ==
  ASSUME NEW q \in Seq(RealMove), NEW p \in Seq(RealMove)
  PROVE  /\ IdsOf(q \o p) = IdsOf(q) \cup IdsOf(p)
         /\ Distinct(q) /\ Distinct(p) /\ IdsOf(q) \cap IdsOf(p) = {} => Distinct(q \o p)
<1> DEFINE n == Len(q)
           m == Len(p)
           qp == q \o p
<1>1. /\ n \in Nat /\ m \in Nat /\ Len(qp) = n + m
      /\ \A i \in 1..n : qp[i] = q[i]
      /\ \A i \in 1..(n + m) : i > n => qp[i] = p[i - n]
      /\ \A i \in 1..m : qp[n + i] = p[i]
  OBVIOUS
<1>2. /\ IdsOf(q) = {q[i].id : i \in 1..n} \ {GeneratedId}
      /\ IdsOf(p) = {p[i].id : i \in 1..m} \ {GeneratedId}
      /\ IdsOf(qp) = {qp[i].id : i \in 1..(n + m)} \ {GeneratedId}
  BY <1>1 DEF IdsOf
<1> HIDE DEF n, m, qp
<1>3. IdsOf(qp) \subseteq IdsOf(q) \cup IdsOf(p)
  <2>1. ASSUME NEW i \in 1..(n + m) PROVE qp[i].id \in {q[j].id : j \in 1..n} \cup {p[j].id : j \in 1..m}
    <3>1. CASE i <= n BY <1>1, <3>1
    <3>2. CASE i > n
      <4>1. i - n \in 1..m BY <1>1, <3>2
      <4> QED BY <1>1, <3>2, <4>1
    <3> QED BY <1>1, <3>1, <3>2
  <2> QED BY <1>2, <2>1
<1>4. IdsOf(q) \subseteq IdsOf(qp)
  <2>1. ASSUME NEW i \in 1..n PROVE q[i].id \in {qp[j].id : j \in 1..(n + m)}
    <3>1. i \in 1..(n + m) BY <1>1
    <3> QED BY <1>1, <3>1
  <2> QED BY <1>2, <2>1
<1>5. IdsOf(p) \subseteq IdsOf(qp)
  <2>1. ASSUME NEW i \in 1..m PROVE p[i].id \in {qp[j].id : j \in 1..(n + m)}
    <3>1. n + i \in 1..(n + m) BY <1>1
    <3> QED BY <1>1, <3>1
  <2> QED BY <1>2, <2>1
<1>6. ASSUME Distinct(q), Distinct(p), IdsOf(q) \cap IdsOf(p) = {} PROVE Distinct(qp)
  <2>1. SUFFICES ASSUME NEW i \in 1..(n + m), NEW j \in 1..(n + m),
                        qp[i].id = qp[j].id, qp[i].id # GeneratedId
                 PROVE  i = j
    BY <1>1 DEF Distinct
  <2>2. CASE i <= n /\ j <= n
    <3>1. i \in 1..n /\ j \in 1..n BY <1>1, <2>2
    <3>2. Len(q) = n BY DEF n
    <3> QED BY <1>1, <1>6, <2>1, <3>1, <3>2 DEF Distinct
  <2>3. CASE i > n /\ j > n
    <3>1. i - n \in 1..m /\ j - n \in 1..m BY <1>1, <2>3
    <3>2. Len(p) = m BY DEF m
    <3>3. i - n = j - n BY <1>1, <1>6, <2>1, <2>3, <3>1, <3>2 DEF Distinct
    <3> QED BY <1>1, <3>3
  <2>4. ASSUME NEW k \in 1..n, NEW l \in 1..m, q[k].id = p[l].id, q[k].id # GeneratedId PROVE FALSE
    BY <1>2, <1>6, <2>4
  <2>5. CASE i <= n /\ j > n
    <3>1. i \in 1..n /\ j - n \in 1..m BY <1>1, <2>5
    <3> QED BY <1>1, <2>1, <2>4, <2>5, <3>1
  <2>6. CASE i > n /\ j <= n
    <3>1. j \in 1..n /\ i - n \in 1..m BY <1>1, <2>6
    <3> QED BY <1>1, <2>1, <2>4, <2>6, <3>1
  <2> QED BY <1>1, <2>2, <2>3, <2>5, <2>6
<1> QED BY <1>3, <1>4, <1>5, <1>6 DEF qp

(* The ids of a log with one more row.                                      *)
LEMMA IdsOfAppended ==
  ASSUME NEW q \in Seq(RealMove), NEW m \in RealMove
  PROVE  /\ IdsOf(Append(q, m)) = IdsOf(q) \cup ({m.id} \ {GeneratedId})
         /\ Distinct(q) /\ m.id \notin IdsOf(q) => Distinct(Append(q, m))
<1> DEFINE one == <<m>>
<1>1. one \in Seq(RealMove) /\ Append(q, m) = q \o one OBVIOUS
<1>2. IdsOf(one) = {m.id} \ {GeneratedId}
  <2>1. Len(one) = 1 /\ one[1] = m OBVIOUS
  <2> QED BY <2>1 DEF IdsOf
<1>3. Distinct(one)
  <2>1. Len(one) = 1 OBVIOUS
  <2> QED BY <2>1 DEF Distinct
<1> HIDE DEF one
<1>4. /\ IdsOf(q \o one) = IdsOf(q) \cup IdsOf(one)
      /\ Distinct(q) /\ Distinct(one) /\ IdsOf(q) \cap IdsOf(one) = {} => Distinct(q \o one)
  BY <1>1, IdsOfJoined
<1>5. m.id \notin IdsOf(q) => IdsOf(q) \cap IdsOf(one) = {} BY <1>2
<1> QED BY <1>1, <1>2, <1>3, <1>4, <1>5

(* An empty log has no ids.                                                 *)
LEMMA NoIds == IdsOf(<<>>) = {} /\ Distinct(<<>>)
<1> DEFINE e == <<>>
<1>1. Len(e) = 0 OBVIOUS
<1> QED BY <1>1 DEF IdsOf, Distinct

(* No id is twice among the postings that are committed or inserted.        *)
ApartTables ==
  /\ Distinct(log)
  /\ \A s \in Sessions : Distinct(pending[s]) /\ IdsOf(log) \cap IdsOf(pending[s]) = {}
  /\ \A s, t \in Sessions : s # t => IdsOf(pending[s]) \cap IdsOf(pending[t]) = {}

(* The check of post() stays true of the session's own rows until it        *)
(* inserts the next one.  Of the rows of others it does not stay true: they *)
(* are what the unique column is for.                                       *)
Fresh(s) == pc[s] \in AtPosting => move[s].id \notin IdsOf(pending[s])

IdInv == ApartTables /\ \A s \in Sessions : Fresh(s)

(* A step that leaves the tables alone leaves their ids apart.              *)
LEMMA TablesUnchanged ==
  ASSUME ApartTables, UNCHANGED <<log, pending>>
  PROVE  ApartTables'
<1>1. Distinct(log)' /\ IdsOf(log)' = IdsOf(log) BY DEF ApartTables, Distinct, IdsOf
<1>2. ASSUME NEW s \in Sessions
      PROVE  Distinct(pending[s])' /\ IdsOf(pending[s])' = IdsOf(pending[s])
  BY DEF ApartTables, Distinct, IdsOf
<1> QED BY <1>1, <1>2 DEF ApartTables

(* A step of one session that inserts nothing and ends no transaction       *)
(* keeps the ids apart when it stays at its posting or leaves it.           *)
LEMMA QuietKeeps ==
  ASSUME IInv, IdInv, NEW s \in Sessions, NEW p, UNCHANGED <<log, pending>>,
         pc' = [pc EXCEPT ![s] = p], move' = [move EXCEPT ![s] = move'[s]],
         p \in AtPosting => move'[s].id \notin IdsOf(pending[s])
  PROVE  IdInv'
<1>1. ApartTables' BY TablesUnchanged DEF IdInv
<1>2. ASSUME NEW t \in Sessions PROVE Fresh(t)'
  <2>1. pending'[t] = pending[t] OBVIOUS
  <2>2. CASE t = s
    <3>1. pc'[t] = p BY <2>2 DEF IInv
    <3> QED BY <2>1, <2>2, <3>1 DEF Fresh, IdsOf
  <2>3. CASE t # s
    <3>1. pc'[t] = pc[t] /\ move'[t] = move[t] BY <2>3 DEF IInv
    <3> QED BY <2>1, <3>1 DEF IdInv, Fresh, IdsOf
  <2> QED BY <2>2, <2>3
<1> QED BY <1>1, <1>2 DEF IdInv

(* Beginning a request keeps ids apart,                                     *)
LEMMA BeginApart ==
  ASSUME IInv, IdInv, NEW s \in Sessions, NEW m \in RealMove, Begin(s, m)
  PROVE  IdInv'
<1>1. log \in Seq(RealMove) /\ pending[s] \in Seq(RealMove) BY DEF IInv, SoundTables
<1>2. IdsOf(Committed(s)) = IdsOf(log) \cup IdsOf(pending[s])
  BY <1>1, IdsOfJoined DEF Committed
<1>3. m.id # GeneratedId => m.id \notin IdsOf(Committed(s))
  BY DEF Begin, IdsOf
<1>4. m.id \notin IdsOf(pending[s]) BY <1>2, <1>3 DEF IdsOf
<1>5. move'[s] = m /\ pc' = [pc EXCEPT ![s] = "guard"] BY DEF Begin, Go, IInv
<1>6. UNCHANGED <<log, pending>> /\ move' = [move EXCEPT ![s] = move'[s]]
  BY <1>5 DEF Begin
<1> QED BY <1>4, <1>5, <1>6, QuietKeeps

(* and so does every statement.                                             *)
LEMMA StatementsApart ==
  ASSUME IInv, IdInv, NEW s \in Sessions,
         Guard(s) \/ Refuse(s) \/ Debit(s) \/ Find(s) \/ Create(s) \/ Credit(s) \/ Bump(s)
  PROVE  IdInv'
<1>1. UNCHANGED <<log, pending>>
  BY DEF Guard, Refuse, Debit, Find, Create, Credit, Bump
<1>2. CASE Refuse(s) \/ Bump(s)
  <2>1. PICK p \in {"idle", "open"} : pc' = [pc EXCEPT ![s] = p]
    BY <1>2 DEF Refuse, Bump, Go
  <2>2. move' = [move EXCEPT ![s] = move'[s]] BY <1>2 DEF Refuse, Bump, IInv
  <2>3. p \notin AtPosting BY DEF AtPosting
  <2> QED BY <1>1, <2>1, <2>2, <2>3, QuietKeeps
<1>3. CASE Guard(s) \/ Debit(s) \/ Find(s) \/ Create(s) \/ Credit(s)
  <2>1. PICK p \in Stages : pc' = [pc EXCEPT ![s] = p]
    BY <1>3 DEF Guard, Debit, Find, Create, Credit, Go, Stages
  <2>2. move' = move /\ pc[s] \in AtPosting
    BY <1>3 DEF Guard, Debit, Find, Create, Credit, AtPosting
  <2>3. move' = [move EXCEPT ![s] = move'[s]] BY <2>2 DEF IInv
  <2>4. move'[s].id \notin IdsOf(pending[s]) BY <2>2 DEF IdInv, Fresh
  <2> QED BY <1>1, <2>1, <2>3, <2>4, QuietKeeps
<1> QED BY <1>2, <1>3

(* The unique column keeps a new row apart from those of other sessions.    *)
LEMMA InsertApart ==
  ASSUME IInv, IdInv, NEW s \in Sessions, Insert(s)
  PROVE  IdInv'
<1>1. Ready(pc[s], move[s], have[s]) /\ pc[s] = "insert" BY DEF IInv, Insert
<1>2. move[s] \in RealMove /\ pc[s] \in AtPosting BY <1>1 DEF Ready, AtPosting
<1>3. \A t \in Sessions : pending[t] \in Seq(RealMove) BY DEF IInv, SoundTables
<1>4. /\ log' = log /\ pc' = [pc EXCEPT ![s] = "bump"] /\ move' = move
      /\ pending' = [pending EXCEPT ![s] = Append(pending[s], move[s])]
  BY DEF Insert, Go
<1>5. pending'[s] = Append(pending[s], move[s]) /\ \A t \in Sessions : t # s => pending'[t] = pending[t]
  BY <1>4 DEF IInv, SoundTables
<1>6. move[s].id \notin IdsOf(pending[s]) BY <1>2 DEF IdInv, Fresh
<1>7. /\ IdsOf(pending'[s]) = IdsOf(pending[s]) \cup ({move[s].id} \ {GeneratedId})
      /\ Distinct(pending'[s])
  <2>1. Distinct(pending[s]) BY DEF IdInv, ApartTables
  <2> QED BY <1>2, <1>3, <1>5, <1>6, <2>1, IdsOfAppended
<1>8. move[s].id \notin IdsOf(log) BY DEF Insert, Clash, IdsOf
<1>9. ASSUME NEW t \in Sessions, t # s PROVE move[s].id \notin IdsOf(pending[t])
  BY <1>9 DEF Insert, AwaitedForId, IdsOf
<1>10. ApartTables'
  <2>1. Distinct(log') /\ IdsOf(log') = IdsOf(log) BY <1>4 DEF IdInv, ApartTables
  <2>2. ASSUME NEW t \in Sessions
        PROVE  Distinct(pending'[t]) /\ IdsOf(log') \cap IdsOf(pending'[t]) = {}
    <3>1. CASE t = s BY <1>7, <1>8, <2>1, <3>1 DEF IdInv, ApartTables
    <3>2. CASE t # s BY <1>5, <2>1, <3>2 DEF IdInv, ApartTables
    <3> QED BY <3>1, <3>2
  <2>3. ASSUME NEW t \in Sessions, NEW u \in Sessions, t # u
        PROVE  IdsOf(pending'[t]) \cap IdsOf(pending'[u]) = {}
    <3>0. IdsOf(pending[t]) \cap IdsOf(pending[u]) = {} BY <2>3 DEF IdInv, ApartTables
    <3>1. CASE t = s
      <4>1. pending'[u] = pending[u] /\ move[s].id \notin IdsOf(pending[u])
        BY <1>5, <1>9, <2>3, <3>1
      <4> QED BY <1>7, <3>0, <3>1, <4>1
    <3>2. CASE u = s
      <4>1. pending'[t] = pending[t] /\ move[s].id \notin IdsOf(pending[t])
        BY <1>5, <1>9, <2>3, <3>2
      <4> QED BY <1>7, <3>0, <3>2, <4>1
    <3>3. CASE t # s /\ u # s BY <1>5, <3>0, <3>3
    <3> QED BY <3>1, <3>2, <3>3
  <2> QED BY <2>1, <2>2, <2>3 DEF ApartTables, Distinct, IdsOf
<1>11. ASSUME NEW t \in Sessions PROVE Fresh(t)'
  <2>1. CASE t = s
    <3>1. pc'[t] = "bump" BY <1>4, <2>1 DEF IInv
    <3> QED BY <3>1 DEF Fresh, AtPosting
  <2>2. CASE t # s
    <3>1. pc'[t] = pc[t] /\ pending'[t] = pending[t] BY <1>4, <1>5, <2>2 DEF IInv
    <3> QED BY <1>4, <3>1 DEF IdInv, Fresh, IdsOf
  <2> QED BY <2>1, <2>2
<1> QED BY <1>10, <1>11 DEF IdInv

(* The end of a transaction moves its rows to the ledger, or drops them.    *)
LEMMA EndApart ==
  ASSUME IInv, IdInv, NEW s \in Sessions, Finish(s), log' \in {log, log \o pending[s]}
  PROVE  IdInv'
<1>1. log \in Seq(RealMove) /\ pending[s] \in Seq(RealMove) BY DEF IInv, SoundTables
<1>2. /\ pc' = [pc EXCEPT ![s] = "idle"] /\ move' = [move EXCEPT ![s] = NoMove]
      /\ pending' = [pending EXCEPT ![s] = <<>>]
  BY DEF Finish, Go
<1>3. pending'[s] = <<>> /\ \A t \in Sessions : t # s => pending'[t] = pending[t]
  BY <1>2 DEF IInv, SoundTables
<1>4. IdsOf(log') \subseteq IdsOf(log) \cup IdsOf(pending[s]) /\ Distinct(log')
  <2>1. /\ IdsOf(log \o pending[s]) = IdsOf(log) \cup IdsOf(pending[s])
        /\ Distinct(log \o pending[s])
    <3>1. Distinct(log) /\ Distinct(pending[s]) /\ IdsOf(log) \cap IdsOf(pending[s]) = {}
      BY DEF IdInv, ApartTables
    <3> QED BY <1>1, <3>1, IdsOfJoined
  <2>2. CASE log' = log BY <2>2 DEF IdInv, ApartTables
  <2>3. CASE log' = log \o pending[s] BY <2>1, <2>3
  <2> QED BY <2>2, <2>3
<1>5. ApartTables'
  <2>1. ASSUME NEW t \in Sessions
        PROVE  Distinct(pending'[t]) /\ IdsOf(log') \cap IdsOf(pending'[t]) = {}
    <3>1. CASE t = s BY <1>3, <3>1, NoIds
    <3>2. CASE t # s
      <4>1. /\ Distinct(pending[t]) /\ IdsOf(log) \cap IdsOf(pending[t]) = {}
            /\ IdsOf(pending[s]) \cap IdsOf(pending[t]) = {}
        BY <3>2 DEF IdInv, ApartTables
      <4> QED BY <1>3, <1>4, <3>2, <4>1
    <3> QED BY <3>1, <3>2
  <2>2. ASSUME NEW t \in Sessions, NEW u \in Sessions, t # u
        PROVE  IdsOf(pending'[t]) \cap IdsOf(pending'[u]) = {}
    <3>1. IdsOf(pending[t]) \cap IdsOf(pending[u]) = {} BY <2>2 DEF IdInv, ApartTables
    <3>2. CASE t = s \/ u = s BY <1>3, <3>2, NoIds
    <3>3. CASE t # s /\ u # s BY <1>3, <3>1, <3>3
    <3> QED BY <3>2, <3>3
  <2> QED BY <1>4, <2>1, <2>2 DEF ApartTables, Distinct, IdsOf
<1>6. ASSUME NEW t \in Sessions PROVE Fresh(t)'
  <2>1. CASE t = s
    <3>1. pc'[t] = "idle" BY <1>2, <2>1 DEF IInv
    <3> QED BY <3>1 DEF Fresh, AtPosting
  <2>2. CASE t # s
    <3>1. pc'[t] = pc[t] /\ pending'[t] = pending[t] /\ move'[t] = move[t]
      BY <1>2, <1>3, <2>2 DEF IInv
    <3> QED BY <3>1 DEF IdInv, Fresh, IdsOf
  <2> QED BY <2>1, <2>2
<1> QED BY <1>5, <1>6 DEF IdInv

(* Every step keeps them apart,                                             *)
LEMMA StepApart == IInv /\ IdInv /\ [Next]_vars => IdInv'
<1> SUFFICES ASSUME IInv, IdInv, [Next]_vars PROVE IdInv'
  OBVIOUS
<1>1. ASSUME NEW s \in Sessions, Post(s) PROVE IdInv'
  <2>1. PICK m \in RealMove : Begin(s, m) BY <1>1, PostBegins
  <2> QED BY <2>1, BeginApart
<1>2. ASSUME NEW s \in Sessions, Reverse(s) PROVE IdInv'
  <2>1. PICK m \in RealMove : Begin(s, m) BY <1>2, ReverseBegins
  <2> QED BY <2>1, BeginApart
<1>3. ASSUME NEW s \in Sessions, Step(s) PROVE IdInv'
  <2>1. CASE Guard(s) \/ Refuse(s) \/ Debit(s) \/ Find(s) \/ Create(s) \/ Credit(s) \/ Bump(s)
    BY <2>1, StatementsApart
  <2>2. CASE Insert(s) BY <2>2, InsertApart
  <2>3. CASE Commit(s)
    <3>1. Finish(s) /\ log' = log \o pending[s] BY <2>3 DEF Commit
    <3> QED BY <3>1, EndApart
  <2>4. CASE Fail(s) \/ AbortDeadlock(s)
    <3>1. Finish(s) /\ log' = log BY <2>4 DEF Fail, AbortDeadlock, RollBack
    <3> QED BY <3>1, EndApart
  <2> QED BY <1>3, <2>1, <2>2, <2>3, <2>4 DEF Step
<1>4. CASE UNCHANGED vars
  <2>1. ApartTables' BY <1>4, TablesUnchanged DEF vars, IdInv
  <2>2. ASSUME NEW s \in Sessions PROVE Fresh(s)'
    BY <1>4 DEF vars, IdInv, Fresh, IdsOf
  <2> QED BY <2>1, <2>2 DEF IdInv
<1> QED BY <1>1, <1>2, <1>3, <1>4 DEF Next

(* and they are apart at the start.                                         *)
LEMMA InitApart == Init => IdInv
<1> SUFFICES ASSUME Init PROVE IdInv
  OBVIOUS
<1>1. log = <<>> /\ \A s \in Sessions : pending[s] = <<>> /\ pc[s] = "idle" BY DEF Init
<1>2. ApartTables BY <1>1, NoIds DEF ApartTables
<1>3. \A s \in Sessions : Fresh(s) BY <1>1 DEF Fresh, AtPosting
<1> QED BY <1>2, <1>3 DEF IdInv

(* A caller's transaction id is committed once, whatever sessions post it   *)
(* together: the check of post() covers a session's own rows and the unique *)
(* column those of the others.                                              *)
THEOREM IdsUnique == Spec => []UniqueTxnIds
<1>1. IdInv => UniqueTxnIds BY DEF IdInv, ApartTables, Distinct, UniqueTxnIds
<1> QED BY <1>1, InitApart, StepApart, Invariant, PTL DEF Spec

-----------------------------------------------------------------------------
(* Rows of a bucket *)

Sees(s, k) == row[k].by = s \/ row[k].val # Absent
Taken(k) == row[k].by # NoSession \/ row[k].val # Absent

(* A bucket has at most one row, committed or about to be. *)
SingleRows ==
  \A b \in Buckets, i, j \in Slots : Taken(<<b, i>>) /\ Taken(<<b, j>>) => i = j

(* The row a session is about to write is one it sees. *)
Holds(s) ==
  /\ pc[s] = "debit" => Sees(s, <<move[s].from, have[s].slot>>)
  /\ pc[s] = "credit" => Sees(s, <<move[s].to, have[s].slot>>)

RowInv == SingleRows /\ \A s \in Sessions : Holds(s)

(* What a session sees, the others do not take from it. *)
OthersSee(s) ==
  \A t \in Sessions, k \in Keys : t # s /\ Sees(t, k) => Sees(t, k)'

(* The slots a session sees of a bucket.                                    *)
LEMMA SeenIsSeen ==
  ASSUME NEW s, NEW b, NEW i
  PROVE  i \in Seen(s, b) <=> i \in Slots /\ Sees(s, <<b, i>>)
BY DEF Seen, Sees

(* What the other sessions hold stays as they hold it.                      *)
LEMMA HoldsKeeps ==
  ASSUME IInv, RowInv, NEW s \in Sessions, OthersSee(s), Holds(s)',
         pc' = [pc EXCEPT ![s] = pc'[s]], move' = [move EXCEPT ![s] = move'[s]],
         have' = [have EXCEPT ![s] = have'[s]]
  PROVE  \A t \in Sessions : Holds(t)'
<1> SUFFICES ASSUME NEW t \in Sessions, t # s PROVE Holds(t)'
  OBVIOUS
<1>1. pc'[t] = pc[t] /\ move'[t] = move[t] /\ have'[t] = have[t]
  BY DEF IInv
<1>2. Ready(pc[t], move[t], have[t]) /\ Holds(t) BY DEF IInv, RowInv
<1>3. ASSUME pc[t] = "debit" PROVE Sees(t, <<move[t].from, have[t].slot>>)'
  <2>1. <<move[t].from, have[t].slot>> \in Keys BY <1>2, <1>3 DEF Ready, Keys
  <2>2. Sees(t, <<move[t].from, have[t].slot>>) BY <1>2, <1>3 DEF Holds
  <2> QED BY <1>1, <2>1, <2>2 DEF OthersSee, Sees
<1>4. ASSUME pc[t] = "credit" PROVE Sees(t, <<move[t].to, have[t].slot>>)'
  <2>1. <<move[t].to, have[t].slot>> \in Keys BY <1>2, <1>4 DEF Ready, AtCredit, Keys
  <2>2. Sees(t, <<move[t].to, have[t].slot>>) BY <1>2, <1>4 DEF Holds
  <2> QED BY <1>1, <2>1, <2>2 DEF OthersSee, Sees
<1> QED BY <1>1, <1>3, <1>4 DEF Holds

(* A write of a row that is free, or one's own. *)
LEMMA WrittenRows ==
  ASSUME IInv, NEW s \in Sessions, NEW k \in Keys, NEW qty \in Int, Unlocked(s, k),
         row' = Written(s, k, qty)
  PROVE  /\ OthersSee(s)
         /\ row'[k].by = s
         /\ \A j \in Keys : j # k => row'[j] = row[j]
<1> DEFINE r == [row[k] EXCEPT !.by = s, !.new = qty]
<1>1. Fine(row[k]) BY DEF IInv, SoundTables
<1>2. r.by = s /\ r.val = row[k].val BY <1>1 DEF Fine, Record
<1>3. row' = [row EXCEPT ![k] = r] BY DEF Written, IInv, SoundTables
<1> HIDE DEF r
<1>4. row'[k] = r /\ \A j \in Keys : j # k => row'[j] = row[j]
  BY <1>3 DEF IInv, SoundTables
<1>5. ASSUME NEW t \in Sessions, NEW j \in Keys, t # s, Sees(t, j) PROVE Sees(t, j)'
  <2>1. CASE j = k BY <1>2, <1>4, <1>5, <2>1, SessionsAssumption DEF Sees, Unlocked
  <2>2. CASE j # k BY <1>4, <1>5, <2>2 DEF Sees
  <2> QED BY <2>1, <2>2
<1> QED BY <1>2, <1>4, <1>5 DEF OthersSee

(* Debit and credit write a row the session sees: no row comes into being.  *)
LEMMA WriteSeenKeeps ==
  ASSUME IInv, RowInv, NEW s \in Sessions, NEW k \in Keys, NEW qty \in Int,
         Unlocked(s, k), Sees(s, k), row' = Written(s, k, qty)
  PROVE  SingleRows'
<1>1. row'[k].by = s /\ \A j \in Keys : j # k => row'[j] = row[j] BY WrittenRows
<1>2. Taken(k) BY SessionsAssumption DEF Sees, Taken
<1>3. ASSUME NEW j \in Keys, Taken(j)' PROVE Taken(j)
  BY <1>1, <1>2, <1>3 DEF Taken
<1> QED BY <1>3 DEF RowInv, SingleRows, Keys

(* Statements that write no row. *)
LEMMA ReadsKeepRows ==
  ASSUME IInv, RowInv, NEW s \in Sessions, row' = row, Holds(s)',
         pc' = [pc EXCEPT ![s] = pc'[s]], move' = [move EXCEPT ![s] = move'[s]],
         have' = [have EXCEPT ![s] = have'[s]]
  PROVE  RowInv'
<1>1. OthersSee(s) BY DEF OthersSee, Sees
<1>2. SingleRows' BY DEF RowInv, SingleRows, Taken
<1>3. \A t \in Sessions : Holds(t)' BY <1>1, HoldsKeeps
<1> QED BY <1>2, <1>3 DEF RowInv

(* A session that is not about to write a row it found has nothing to hold. *)
LEMMA IdleHolds ==
  ASSUME IInv, NEW s \in Sessions, NEW p \in Stages \ {"debit", "credit"},
         pc' = [pc EXCEPT ![s] = p]
  PROVE  Holds(s)' /\ pc' = [pc EXCEPT ![s] = pc'[s]]
<1>1. pc'[s] = p BY DEF IInv
<1> QED BY <1>1 DEF Holds

(* A step that touches no balance row keeps the rows single,                *)
LEMMA QuietRows ==
  ASSUME IInv, RowInv, NEW s \in Sessions,
         (\E m \in RealMove : Begin(s, m)) \/ Refuse(s) \/ Insert(s) \/ Bump(s)
  PROVE  RowInv'
<1>1. PICK p \in Stages \ {"debit", "credit"} : pc' = [pc EXCEPT ![s] = p]
  BY DEF Begin, Refuse, Insert, Bump, Go, Stages
<1>2. /\ row' = row
      /\ move' = [move EXCEPT ![s] = move'[s]]
      /\ have' = [have EXCEPT ![s] = have'[s]]
  BY DEF Begin, Refuse, Insert, Bump, IInv
<1>3. Holds(s)' /\ pc' = [pc EXCEPT ![s] = pc'[s]] BY <1>1, IdleHolds
<1> QED BY <1>2, <1>3, ReadsKeepRows

(* as does the guard of a posting,                                          *)
LEMMA GuardRows ==
  ASSUME IInv, RowInv, NEW s \in Sessions, Guard(s)
  PROVE  RowInv'
<1>1. row' = row /\ move' = move BY DEF Guard
<1>2. move' = [move EXCEPT ![s] = move'[s]] BY <1>1 DEF IInv
<1>3. CASE move[s].from = NoBucket
  <2>1. pc' = [pc EXCEPT ![s] = "find"] /\ have' = have BY <1>3 DEF Guard, Go
  <2>2. have' = [have EXCEPT ![s] = have'[s]] BY <2>1 DEF IInv
  <2>3. "find" \in Stages \ {"debit", "credit"} BY DEF Stages
  <2>4. Holds(s)' /\ pc' = [pc EXCEPT ![s] = pc'[s]] BY <2>1, <2>3, IdleHolds
  <2> QED BY <1>1, <1>2, <2>2, <2>4, ReadsKeepRows
<1>4. CASE move[s].from # NoBucket
  <2>1. PICK i \in Seen(s, move[s].from) :
          /\ have' = [have EXCEPT ![s] = [slot |-> i, qty |-> SeenQty(s, move[s].from, i)]]
          /\ pc' = [pc EXCEPT ![s] = "debit"]
    BY <1>4 DEF Guard, Go
  <2>2. have'[s].slot = i /\ pc'[s] = "debit" /\ have' = [have EXCEPT ![s] = have'[s]]
        /\ pc' = [pc EXCEPT ![s] = pc'[s]]
    BY <2>1 DEF IInv
  <2>3. Sees(s, <<move[s].from, i>>) BY SeenIsSeen
  <2>4. Holds(s)' BY <1>1, <2>2, <2>3 DEF Holds, Sees
  <2> QED BY <1>1, <1>2, <2>2, <2>4, ReadsKeepRows
<1> QED BY <1>3, <1>4

(* looking up a bucket,                                                     *)
LEMMA FindRows ==
  ASSUME IInv, RowInv, NEW s \in Sessions, Find(s)
  PROVE  RowInv'
<1>1. row' = row /\ move' = move BY DEF Find
<1>2. move' = [move EXCEPT ![s] = move'[s]] BY <1>1 DEF IInv
<1>3. CASE Seen(s, move[s].to) = {}
  <2>1. pc' = [pc EXCEPT ![s] = "create"] /\ have' = have BY <1>3 DEF Find, Go
  <2>2. have' = [have EXCEPT ![s] = have'[s]] BY <2>1 DEF IInv
  <2>3. "create" \in Stages \ {"debit", "credit"} BY DEF Stages
  <2>4. Holds(s)' /\ pc' = [pc EXCEPT ![s] = pc'[s]] BY <2>1, <2>3, IdleHolds
  <2> QED BY <1>1, <1>2, <2>2, <2>4, ReadsKeepRows
<1>4. CASE Seen(s, move[s].to) # {}
  <2>1. PICK i \in Seen(s, move[s].to) :
          /\ have' = [have EXCEPT ![s] = [slot |-> i, qty |-> SeenQty(s, move[s].to, i)]]
          /\ pc' = [pc EXCEPT ![s] = "credit"]
    BY <1>4 DEF Find, Go
  <2>2. have'[s].slot = i /\ pc'[s] = "credit" /\ have' = [have EXCEPT ![s] = have'[s]]
        /\ pc' = [pc EXCEPT ![s] = pc'[s]]
    BY <2>1 DEF IInv
  <2>3. Sees(s, <<move[s].to, i>>) BY SeenIsSeen
  <2>4. Holds(s)' BY <1>1, <2>2, <2>3 DEF Holds, Sees
  <2> QED BY <1>1, <1>2, <2>2, <2>4, ReadsKeepRows
<1> QED BY <1>3, <1>4

(* a debit,                                                                 *)
LEMMA DebitRows ==
  ASSUME IInv, RowInv, NEW s \in Sessions, Debit(s)
  PROVE  RowInv'
<1>0. Ready(pc[s], move[s], have[s]) /\ pc[s] = "debit" BY DEF IInv, Debit
<1> DEFINE k == <<move[s].from, have[s].slot>>
           qty == have[s].qty - move[s].qty
<1>1. k \in Keys BY <1>0 DEF Ready, Keys
<1>2. qty \in Int
  <2>1. move[s] \in RealMove /\ have[s] \in [slot: Slots \cup {0}, qty: Int]
    BY <1>0 DEF Ready, AtPosting
  <2>2. have[s].qty \in Int /\ move[s].qty \in Nat
    BY <2>1, SessionsAssumption DEF RealMove, Move
  <2> QED BY <2>2
<1>3. Sees(s, k) BY <1>0 DEF RowInv, Holds
<1>4. Unlocked(s, k) /\ row' = Written(s, k, qty) BY DEF Debit
<1> HIDE DEF k, qty
<1>5. SingleRows' BY <1>1, <1>2, <1>3, <1>4, WriteSeenKeeps
<1>6. OthersSee(s) BY <1>1, <1>2, <1>4, WrittenRows
<1>7. /\ move' = [move EXCEPT ![s] = move'[s]]
      /\ have' = [have EXCEPT ![s] = have'[s]]
  BY DEF Debit, IInv
<1>8. PICK p \in Stages \ {"debit", "credit"} : pc' = [pc EXCEPT ![s] = p]
  <2>1. "insert" \in Stages \ {"debit", "credit"} /\ "find" \in Stages \ {"debit", "credit"}
    BY DEF Stages
  <2>2. CASE move[s].to = NoBucket BY <2>1, <2>2 DEF Debit, Go
  <2>3. CASE move[s].to # NoBucket BY <2>1, <2>3 DEF Debit, Go
  <2> QED BY <2>2, <2>3
<1>9. Holds(s)' /\ pc' = [pc EXCEPT ![s] = pc'[s]] BY <1>8, IdleHolds
<1>10. \A t \in Sessions : Holds(t)' BY <1>6, <1>7, <1>9, HoldsKeeps
<1> QED BY <1>5, <1>10 DEF RowInv

(* and a credit.                                                            *)
LEMMA CreditRows ==
  ASSUME IInv, RowInv, NEW s \in Sessions, Credit(s)
  PROVE  RowInv'
<1>0. Ready(pc[s], move[s], have[s]) /\ pc[s] = "credit" BY DEF IInv, Credit
<1> DEFINE k == <<move[s].to, have[s].slot>>
           qty == have[s].qty + move[s].qty
<1>1. k \in Keys BY <1>0 DEF Ready, AtCredit, Keys
<1>2. qty \in Int
  <2>1. move[s] \in RealMove /\ have[s] \in [slot: Slots \cup {0}, qty: Int]
    BY <1>0 DEF Ready, AtPosting
  <2>2. have[s].qty \in Int /\ move[s].qty \in Nat
    BY <2>1, SessionsAssumption DEF RealMove, Move
  <2> QED BY <2>2
<1>3. Sees(s, k) BY <1>0 DEF RowInv, Holds
<1>4. Unlocked(s, k) /\ row' = Written(s, k, qty) BY DEF Credit
<1> HIDE DEF k, qty
<1>5. SingleRows' BY <1>1, <1>2, <1>3, <1>4, WriteSeenKeeps
<1>6. OthersSee(s) BY <1>1, <1>2, <1>4, WrittenRows
<1>7. /\ move' = [move EXCEPT ![s] = move'[s]]
      /\ have' = [have EXCEPT ![s] = have'[s]]
  BY DEF Credit, IInv
<1>8. "insert" \in Stages \ {"debit", "credit"} /\ pc' = [pc EXCEPT ![s] = "insert"]
  BY DEF Credit, Go, Stages
<1>9. Holds(s)' /\ pc' = [pc EXCEPT ![s] = pc'[s]] BY <1>8, IdleHolds
<1>10. \A t \in Sessions : Holds(t)' BY <1>6, <1>7, <1>9, HoldsKeeps
<1> QED BY <1>5, <1>10 DEF RowInv

(* uq_balance: a row is inserted into a bucket that has none.               *)
LEMMA CreateRows ==
  ASSUME LotNamed, IInv, RowInv, NEW s \in Sessions, Create(s)
  PROVE  RowInv'
<1>0. Ready(pc[s], move[s], have[s]) /\ pc[s] = "create" BY DEF IInv, Create
<1>1. PICK b \in Buckets : b = move[s].to BY <1>0 DEF Ready, AtCredit
<1>2. Vacant(b) = Slots /\ Vacant(b) # {} BY <1>1 DEF Create
<1>3. PICK n \in Slots : n = NewSlot(b) BY <1>2 DEF NewSlot
<1>4. \A i \in Slots : row[<<b, i>>].val = Absent /\ row[<<b, i>>].by = NoSession
  BY <1>2 DEF Vacant
<1>5. row' = Written(s, <<b, n>>, 0) BY <1>1, <1>3 DEF Create
<1>6. /\ have' = [have EXCEPT ![s] = [slot |-> n, qty |-> 0]]
      /\ pc' = [pc EXCEPT ![s] = "credit"] /\ move' = move
  BY <1>1, <1>3 DEF Create, Go
<1>7. pc'[s] = "credit" /\ have'[s].slot = n /\ move'[s].to = b BY <1>1, <1>6 DEF IInv
<1>8. <<b, n>> \in Keys /\ Unlocked(s, <<b, n>>) BY <1>1, <1>3, <1>4 DEF Keys, Unlocked
<1>9. /\ OthersSee(s) /\ row'[<<b, n>>].by = s
      /\ \A j \in Keys : j # <<b, n>> => row'[j] = row[j]
  BY <1>5, <1>8, WrittenRows
<1>10. SingleRows'
  <2>1. ASSUME NEW c \in Buckets, NEW i \in Slots, NEW j \in Slots,
               Taken(<<c, i>>)', Taken(<<c, j>>)'
        PROVE  i = j
    <3>0. <<c, i>> \in Keys /\ <<c, j>> \in Keys BY DEF Keys
    <3>1. CASE c = b
      <4>1. ASSUME NEW h \in Slots, Taken(<<b, h>>)' PROVE h = n
        <5>1. SUFFICES ASSUME h # n PROVE FALSE OBVIOUS
        <5>2. <<b, h>> \in Keys /\ <<b, h>> # <<b, n>> BY <1>1, <5>1 DEF Keys
        <5>3. row'[<<b, h>>] = row[<<b, h>>] BY <1>9, <5>2
        <5> QED BY <1>4, <4>1, <5>3 DEF Taken
      <4> QED BY <2>1, <3>1, <4>1
    <3>2. CASE c # b
      <4>1. row'[<<c, i>>] = row[<<c, i>>] /\ row'[<<c, j>>] = row[<<c, j>>]
        BY <1>9, <3>0, <3>2
      <4>2. Taken(<<c, i>>) /\ Taken(<<c, j>>) BY <2>1, <4>1 DEF Taken
      <4> QED BY <4>2 DEF RowInv, SingleRows
    <3> QED BY <3>1, <3>2
  <2> QED BY <2>1 DEF SingleRows
<1>11. Holds(s)'
  BY <1>7, <1>9 DEF Holds, Sees
<1>12. /\ pc' = [pc EXCEPT ![s] = pc'[s]] /\ move' = [move EXCEPT ![s] = move'[s]]
       /\ have' = [have EXCEPT ![s] = have'[s]]
  BY <1>6 DEF IInv
<1>13. \A t \in Sessions : Holds(t)' BY <1>9, <1>11, <1>12, HoldsKeeps
<1> QED BY <1>10, <1>13 DEF RowInv

(* The end of a transaction frees rows, and takes none.                     *)
LEMMA EndRows ==
  ASSUME IInv, RowInv, NEW s \in Sessions, Commit(s) \/ RollBack(s)
  PROVE  RowInv'
<1>1. Finish(s) BY DEF Commit, RollBack
<1>2. ASSUME NEW k \in Keys
      PROVE  /\ row[k].by # s => row'[k] = row[k]
             /\ row[k].by = s => row'[k].by = NoSession
  <2>1. Fine(row[k]) BY DEF IInv, SoundTables
  <2>2. CASE Commit(s)
    <3>1. row'[k] = IF row[k].by = s THEN [val |-> row[k].new, by |-> NoSession, new |-> 0] ELSE row[k]
      BY <2>2 DEF Commit, Keys
    <3> QED BY <3>1
  <2>3. CASE RollBack(s)
    <3>1. row'[k] = IF row[k].by = s THEN [row[k] EXCEPT !.by = NoSession, !.new = 0] ELSE row[k]
      BY <2>3 DEF RollBack, Keys
    <3>2. [row[k] EXCEPT !.by = NoSession, !.new = 0].by = NoSession BY <2>1 DEF Fine, Record
    <3> QED BY <3>1, <3>2
  <2> QED BY <2>2, <2>3
<1>3. ASSUME NEW k \in Keys, row[k].val # Absent PROVE row'[k].val # Absent
  <2>1. Fine(row[k]) BY DEF IInv, SoundTables
  <2>2. CASE Commit(s)
    <3>1. row'[k] = IF row[k].by = s THEN [val |-> row[k].new, by |-> NoSession, new |-> 0] ELSE row[k]
      BY <2>2 DEF Commit, Keys
    <3> QED BY <1>3, <2>1, <3>1, SessionsAssumption DEF Fine, Record
  <2>3. CASE RollBack(s)
    <3>1. row'[k] = IF row[k].by = s THEN [row[k] EXCEPT !.by = NoSession, !.new = 0] ELSE row[k]
      BY <2>3 DEF RollBack, Keys
    <3>2. [row[k] EXCEPT !.by = NoSession, !.new = 0].val = row[k].val BY <2>1 DEF Fine, Record
    <3> QED BY <1>3, <3>1, <3>2
  <2> QED BY <2>2, <2>3
<1>4. OthersSee(s)
  <2>1. ASSUME NEW t \in Sessions, NEW k \in Keys, t # s, Sees(t, k) PROVE Sees(t, k)'
    BY <1>2, <1>3, <2>1 DEF Sees
  <2> QED BY <2>1 DEF OthersSee
<1>5. ASSUME NEW k \in Keys, Taken(k)' PROVE Taken(k)
  BY <1>2, <1>5, SessionsAssumption DEF Taken
<1>6. SingleRows' BY <1>5 DEF RowInv, SingleRows, Keys
<1>7. pc' = [pc EXCEPT ![s] = "idle"] /\ "idle" \in Stages \ {"debit", "credit"}
  BY <1>1 DEF Finish, Go, Stages
<1>8. Holds(s)' /\ pc' = [pc EXCEPT ![s] = pc'[s]] BY <1>7, IdleHolds
<1>9. move' = [move EXCEPT ![s] = move'[s]] /\ have' = [have EXCEPT ![s] = have'[s]]
  BY <1>1 DEF Finish, IInv
<1>10. \A t \in Sessions : Holds(t)' BY <1>4, <1>8, <1>9, HoldsKeeps
<1> QED BY <1>6, <1>10 DEF RowInv

(* Every step keeps the rows single,                                        *)
LEMMA StepRows == LotNamed /\ IInv /\ RowInv /\ [Next]_vars => RowInv'
<1> SUFFICES ASSUME LotNamed, IInv, RowInv, [Next]_vars PROVE RowInv'
  OBVIOUS
<1>1. ASSUME NEW s \in Sessions, Post(s) \/ Reverse(s) PROVE RowInv'
  <2>1. \E m \in RealMove : Begin(s, m) BY <1>1, PostBegins, ReverseBegins
  <2> QED BY <2>1, QuietRows
<1>2. ASSUME NEW s \in Sessions, Step(s) PROVE RowInv'
  <2>1. CASE Guard(s) \/ Refuse(s) BY <2>1, GuardRows, QuietRows
  <2>2. CASE Debit(s) \/ Find(s) BY <2>2, DebitRows, FindRows
  <2>3. CASE Create(s) \/ Credit(s) BY <2>3, CreateRows, CreditRows
  <2>4. CASE Insert(s) \/ Bump(s) BY <2>4, QuietRows
  <2>5. CASE Commit(s) \/ Fail(s) \/ AbortDeadlock(s)
    BY <2>5, EndRows DEF Fail, AbortDeadlock
  <2> QED BY <1>2, <2>1, <2>2, <2>3, <2>4, <2>5 DEF Step
<1>3. CASE UNCHANGED vars
  <2>1. SingleRows' BY <1>3 DEF vars, RowInv, SingleRows, Taken
  <2>2. ASSUME NEW s \in Sessions PROVE Holds(s)'
    BY <1>3 DEF vars, RowInv, Holds, Sees
  <2> QED BY <2>1, <2>2 DEF RowInv
<1> QED BY <1>1, <1>2, <1>3 DEF Next

(* and they are single at the start.                                        *)
LEMMA InitRows == Init => RowInv
<1> SUFFICES ASSUME Init PROVE RowInv
  OBVIOUS
<1> DEFINE first == CHOOSE i \in Slots : TRUE
<1>1. ASSUME NEW b \in Buckets, NEW i \in Slots, Taken(<<b, i>>) PROVE i = first
  <2>1. <<b, i>> \in Buckets \X Slots OBVIOUS
  <2>2. row[<<b, i>>] = [val |-> IF i = first /\ Stock[b] > 0 THEN Stock[b] ELSE Absent,
                         by |-> NoSession, new |-> 0]
    BY <2>1 DEF Init
  <2> QED BY <1>1, <2>2 DEF Taken
<1>2. \A s \in Sessions : Holds(s) BY DEF Init, Holds
<1> QED BY <1>1, <1>2 DEF RowInv, SingleRows

(* Single rows are one row for every bucket.                                *)
LEMMA SingleRowsCount == SingleRows => OneRowPerBucket
<1> SUFFICES ASSUME SingleRows, NEW b \in Buckets
             PROVE  Cardinality({i \in Slots : row[<<b, i>>].val # Absent}) <= 1
  BY DEF OneRowPerBucket
<1> DEFINE rows == {i \in Slots : row[<<b, i>>].val # Absent}
<1>1. \A i, j \in rows : i = j BY DEF SingleRows, Taken
<1>2. CASE rows = {}
  <2>1. Cardinality(rows) = 0 BY <1>2, FS_EmptySet
  <2> QED BY <2>1
<1>3. CASE rows # {}
  <2>1. PICK i : rows = {i} BY <1>1, <1>3
  <2>2. Cardinality({i}) = 1 BY FS_Singleton
  <2> HIDE DEF rows
  <2>3. Cardinality(rows) = 1 BY <2>1, <2>2
  <2> QED BY <2>3 DEF rows
<1> QED BY <1>2, <1>3

(* A bucket whose lot is named has one row, however many sessions credit it *)
(* for the first time together.                                             *)
THEOREM OneRowEach ==
  ASSUME LotNamed
  PROVE  Spec => []OneRowPerBucket
<1>1. IInv /\ RowInv /\ [Next]_vars => RowInv' BY StepRows
<1>2. RowInv => OneRowPerBucket BY SingleRowsCount DEF RowInv
<1> QED BY <1>1, <1>2, InitRows, Invariant, PTL DEF Spec
=============================================================================
