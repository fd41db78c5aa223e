---------------------------- MODULE OperandStack ----------------------------
(***************************************************************************)
(* What NDP.md promises the code generator: "the handling of an            *)
(* conceptually infinite ndp stack".  The stack holds the floating point   *)
(* operands that are evaluated and not yet used, the newest last; out is   *)
(* what the code delivered last: a value stored, or the two values whose   *)
(* comparison set the processor's flags.                                   *)
(***************************************************************************)
EXTENDS Naturals, Sequences, SequencesExt

CONSTANTS Values,           \* what a register can hold
          Negated(_),       \* the value of fchs and its like
          Combined(_, _)    \* the value of a dyadic operation, not symmetric

VARIABLES stack, out

Below(n) == SubSeq(stack, 1, Len(stack) - n)
Under == stack[Len(stack) - 1]

Init == stack = <<>> /\ out = <<>>

\* A variable, a constant or a function's result becomes an operand.
Push == \E v \in Values : stack' = Append(stack, v) /\ UNCHANGED out

Negate ==
    /\ stack # <<>>
    /\ stack' = Append(Below(1), Negated(Last(stack)))
    /\ UNCHANGED out

CombineWithMemory ==
    /\ stack # <<>>
    /\ \E v \in Values : stack' = Append(Below(1), Combined(Last(stack), v))
    /\ UNCHANGED out

Combine ==
    /\ Len(stack) >= 2
    /\ stack' = Append(Below(2), Combined(Under, Last(stack)))
    /\ UNCHANGED out

Store ==
    /\ stack # <<>>
    /\ stack' = Below(1)
    /\ out' = <<Last(stack)>>

CompareWithMemory ==
    /\ stack # <<>>
    /\ stack' = Below(1)
    /\ \E v \in Values : out' = <<v, Last(stack)>>

Compare ==
    /\ Len(stack) >= 2
    /\ stack' = Below(2)
    /\ out' = <<Under, Last(stack)>>

Next ==
    \/ Push \/ Negate \/ CombineWithMemory \/ Combine
    \/ Store \/ CompareWithMemory \/ Compare

StackSpec == Init /\ [][Next]_<<stack, out>>
=============================================================================
