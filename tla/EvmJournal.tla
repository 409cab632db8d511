------------------------------ MODULE EvmJournal ------------------------------
(***************************************************************************)
(* What an evaluation promises (the abstract specification of EvmHost): a   *)
(* stack of journals, one per running message, each the accounts as that    *)
(* message sees them.  A message writes to the storage of its own account   *)
(* only, a nested message starts from what its caller sees and moves value  *)
(* between two accounts, and when it ends the caller sees either all of     *)
(* what it did or nothing of it.  The accounts of the chain change only     *)
(* when the outermost message succeeds.                                     *)
(***************************************************************************)
EXTENDS Integers, Sequences

CONSTANTS Addrs, Keys, Vals, MaxValue

VARIABLES world, stack

vars == <<world, stack>>

Top == stack[Len(stack)]
Pop(s) == SubSeq(s, 1, Len(s) - 1)

Init == stack = <<>> /\ world \in [Addrs -> [code : BOOLEAN, live : BOOLEAN,
                                             slots : [Keys -> Vals], bal : Nat]]

Moved(acc, from, to, value) ==
    [a \in Addrs |-> [acc[a] EXCEPT
        !.live = @ \/ (a = to /\ value > 0),
        !.bal = @ + (IF a = to THEN value ELSE 0) - (IF a = from THEN value ELSE 0)]]

Made(acc, a) ==
    [acc EXCEPT ![a] = [@ EXCEPT !.live = TRUE, !.code = FALSE,
                                 !.slots = [k \in Keys |-> CHOOSE v \in Vals : v = 0]]]

\* The accounts as the next message finds them.
Entered(acc) ==
    {Moved(acc, x[1], x[2], x[3]) : x \in Addrs \X Addrs \X (0 .. MaxValue)}
    \cup UNION {{Moved(Made(acc, x[2]), x[1], x[2], x[3]) :
                    x \in (Addrs \X {a} \X (0 .. MaxValue))} : a \in {a \in Addrs : ~acc[a].live}}

\* The depth before and after.  Stated first in each action, it spares TLC the
\* rest when it checks that a step of EvmHost is one of these.
Depth(before, by) == Len(stack) = before /\ Len(stack') = before + by

Begin ==
    /\ Depth(0, 1)
    /\ \E self \in Addrs, acc \in Entered(world) :
          stack' = <<[self |-> self, acc |-> acc, dead |-> {}]>>
    /\ UNCHANGED world

Write ==
    /\ stack # <<>> /\ Depth(Len(stack), 0)
    /\ \E k \in Keys, v \in Vals :
          stack' = [stack EXCEPT ![Len(stack)].acc[Top.self].slots[k] = v]
    /\ UNCHANGED world

Enter ==
    /\ stack # <<>> /\ Depth(Len(stack), 1)
    /\ \E self \in Addrs, acc \in Entered(Top.acc) :
          stack' = Append(stack, [self |-> self, acc |-> acc, dead |-> Top.dead])
    /\ UNCHANGED world

\* A message that runs no code: it moves value or makes an account at once.
Transfer ==
    /\ stack # <<>> /\ Depth(Len(stack), 0)
    /\ \E acc \in Entered(Top.acc), a \in Addrs, code \in BOOLEAN :
          /\ acc[a].code => code
          /\ code => acc[a].live
          /\ stack' = [stack EXCEPT ![Len(stack)].acc = [acc EXCEPT ![a].code = code]]
    /\ UNCHANGED world

Leave ==
    /\ Len(stack) > 1 /\ Depth(Len(stack), -1)
    /\ \/ stack' = Pop(stack)
       \/ \E code \in BOOLEAN, dead \in {Top.dead, Top.dead \cup {Top.self}} :
             /\ Top.acc[Top.self].code => code
             /\ stack' = [Pop(stack) EXCEPT
                    ![Len(stack) - 1].acc = [Top.acc EXCEPT ![Top.self].code = code],
                    ![Len(stack) - 1].dead = dead]
    /\ UNCHANGED world

End ==
    /\ Depth(1, -1)
    /\ stack' = <<>>
    /\ world' \in {world, Top.acc}

\* The process that evaluates is lost.
Lost == stack # <<>> /\ stack' = <<>> /\ UNCHANGED world

Next == Begin \/ Write \/ Enter \/ Transfer \/ Leave \/ End \/ Lost

\* A stuttering step comes first, for TLC again.
Spec == Init /\ [][UNCHANGED vars \/ Next]_vars
=============================================================================
