--------------------------- MODULE FieldAssignment ---------------------------
(***************************************************************************)
(* What a caller of yajp_deserialize_json_stream is promised: for every    *)
(* member of the document that has a rule its setter is called with the    *)
(* member's name and value, once per value and in the order of the         *)
(* document; members without a rule are passed over; the result is 0 if    *)
(* all of it was done, and -1 as soon as a setter refuses a value or       *)
(* memory runs out, after which no setter is called.                       *)
(***************************************************************************)
EXTENDS Integers, Sequences

CONSTANT MemoryFails   \* subset of BOOLEAN: may memory run out?

VARIABLES plan,    \* what the document asks for: calls of setters with their verdicts,
                   \* and values of a kind their rule cannot take
          calls,   \* the calls made
          status   \* "running", "ok" or "failed"

vars == <<plan, calls, status>>

Refused == \E i \in 1..Len(calls) : ~plan[i].taken

Init == calls = <<>> /\ status = "running"

CallSetter ==
    /\ status = "running"
    /\ Len(calls) < Len(plan) /\ ~Refused
    /\ plan[Len(calls) + 1].fits
    /\ calls' = Append(calls, plan[Len(calls) + 1].call)
    /\ UNCHANGED <<plan, status>>

Succeed ==
    /\ status = "running"
    /\ Len(calls) = Len(plan) /\ ~Refused
    /\ status' = "ok"
    /\ UNCHANGED <<plan, calls>>

\* The last call was refused, or the next value is of a kind its rule cannot take.
Refuse ==
    /\ status = "running"
    /\ Refused \/ (Len(calls) < Len(plan) /\ ~plan[Len(calls) + 1].fits)
    /\ status' = "failed"
    /\ UNCHANGED <<plan, calls>>

NoMemory ==
    /\ status = "running"
    /\ TRUE \in MemoryFails
    /\ status' = "failed"
    /\ UNCHANGED <<plan, calls>>

Next == CallSetter \/ Succeed \/ Refuse \/ NoMemory

Spec == Init /\ [][Next]_vars /\ WF_vars(Next)
=============================================================================
