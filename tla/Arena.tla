------------------------------- MODULE Arena -------------------------------
(***************************************************************************)
(* What a memory pool promises: the spans it hands out lie in its room and *)
(* do not overlap, a span that is given back can be handed out again, and  *)
(* a request is refused only if no gap between the spans is large enough.  *)
(***************************************************************************)
EXTENDS Naturals

CONSTANTS Room, \* the units a span may use
          Null  \* NULL

VARIABLES spans,    \* the spans that are out, each its first unit and size
          answer    \* the last request and where its span begins

Taken == UNION {s.at .. s.at + s.size - 1 : s \in spans}
Gaps(n) == {a \in Room : a .. a + n - 1 \subseteq Room \ Taken}

Init == spans = {} /\ answer = [units |-> 0, at |-> Null]

(* The request and its answer are those of the next state.                 *)
Grant == /\ answer'.units \in Nat /\ answer'.at \in Gaps(answer'.units)
         /\ spans' = spans \cup {[at |-> answer'.at, size |-> answer'.units]}

Refuse == /\ answer'.at = Null /\ Gaps(answer'.units) = {}
          /\ spans' = spans

Release == \E s \in spans : spans' = spans \ {s} /\ answer' = answer

Next == Grant \/ Refuse \/ Release

Spec == Init /\ [][Next]_<<spans, answer>>
=============================================================================
