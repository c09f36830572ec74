------------------------------ MODULE RuleMap -------------------------------
(***************************************************************************)
(* What a deserialization context is to its users: a map from the names of *)
(* its rules to the rules.  It is made of a list of rules, or not at all   *)
(* if two of them have one name; asked for a name it gives that name's     *)
(* rule, or nothing.                                                       *)
(***************************************************************************)
EXTENDS SequencesExt

CONSTANT Names     \* the names that may be asked for

VARIABLES rules,   \* the names of the rules, in the order of their list
          status,  \* "making", "ready" or "failed"
          asked,   \* the name last asked for
          answer   \* the rule's place in the list, 0 for none

vars == <<rules, status, asked, answer>>

NoName == <<0>>

Init == status = "making" /\ asked = NoName /\ answer = 0

\* Of an empty list no promise is made.
Make ==
    /\ status = "making"
    /\ status' \in IF rules = <<>> THEN {"ready", "failed"}
                   ELSE IF IsInjective(rules) THEN {"ready"} ELSE {"failed"}
    /\ UNCHANGED <<rules, asked, answer>>

Ask(name) ==
    /\ status = "ready"
    /\ asked' = name
    /\ answer' = SelectInSeq(rules, LAMBDA r : r = name)
    /\ UNCHANGED <<rules, status>>

Next == Make \/ \E name \in Names : Ask(name)

Spec == Init /\ [][Next]_vars /\ WF_vars(Make)
=============================================================================
