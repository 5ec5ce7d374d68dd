---------------------------- MODULE ApprovalGate ----------------------------
(***************************************************************************)
(* What the approval workflow promises about execution, apart from who     *)
(* decides and how: an execution uses up one grant, the latest, and        *)
(* carries out what that grant was for; a grant is withdrawn or superseded *)
(* before it is used, never used twice.                                    *)
(***************************************************************************)
EXTENDS Integers, Sequences

CONSTANTS
  Actions,
  Contents,   \* what may be granted for an action
  Nothing     \* not one of them

VARIABLES
  granted,   \* how many grants each action was given
  open,      \* what the grant that may still be used is for, if there is one
  done       \* what was executed for each action, oldest first

vars == <<granted, open, done>>

Init ==
  /\ granted = [a \in Actions |-> 0]
  /\ open = [a \in Actions |-> Nothing]
  /\ done = [a \in Actions |-> <<>>]

Grant(a, what) ==
  /\ granted' = [granted EXCEPT ![a] = @ + 1]
  /\ open' = [open EXCEPT ![a] = what]
  /\ UNCHANGED done

Withdraw(a) ==
  /\ open' = [open EXCEPT ![a] = Nothing]
  /\ UNCHANGED <<granted, done>>

Use(a) ==
  /\ open[a] # Nothing
  /\ open' = [open EXCEPT ![a] = Nothing]
  /\ done' = [done EXCEPT ![a] = Append(@, open[a])]
  /\ UNCHANGED granted

(* A grant that is used in the same step. *)
GrantAndUse(a, what) ==
  /\ granted' = [granted EXCEPT ![a] = @ + 1]
  /\ open' = [open EXCEPT ![a] = Nothing]
  /\ done' = [done EXCEPT ![a] = Append(@, what)]

Next ==
  \E a \in Actions :
    \/ Withdraw(a)
    \/ Use(a)
    \/ \E what \in Contents : Grant(a, what) \/ GrantAndUse(a, what)

Spec == Init /\ [][Next]_vars
=============================================================================
