------------------------------ MODULE Members -------------------------------
(***************************************************************************)
(* The members of a document, one after another, each from its name to the *)
(* field it is stored in: the rule as it was declared, initialised and put *)
(* into the table (module RuleTable), found again by the member's name,    *)
(* and its setter (module Setters) given the member's text and the memory  *)
(* that the deserializer has for it.                                       *)
(***************************************************************************)
EXTENDS RuleTable, Setters

CONSTANTS
    Declared,        \* name -> [options, ctype, elem, setter]: how its rule is declared
    Texts,           \* the texts a member may have
    YAJP_BUFFER_SIZE \* bytes in a token itself

\* The setter of a rule is that of the type its value has in the structure: of the
\* field, of what the field points to, or of an array's element.  An array of
\* strings has pointers for elements.  Nothing is said of a field for a string but
\* that it is not empty, nor of which values are allocated.
WellTyped(d) ==
    LET size == IF "ARRAY_OF" \in d.options THEN d.elem ELSE d.ctype
    IN  /\ d.setter \in SetterNames /\ d.ctype \in Nat /\ d.elem \in Nat
        /\ d.setter = "string" <=> "STRING" \in d.options
        /\ IF d.setter = "string" THEN size >= 1 ELSE size = SizeOf[d.setter]

ASSUME MembersAssumption ==
    /\ YAJP_BUFFER_SIZE \in Nat \ {0}
    /\ \A list \in RuleLists : Range(list) \subseteq DOMAIN Declared
    /\ \A name \in DOMAIN Declared : WellTyped(Declared[name])
    /\ \A t \in Texts : IsText(t) /\ ~t.followed

VARIABLES
    at,      \* the next step: "name", "value" or "set"
    text,    \* the text of the value under way
    errno,   \* of the C library
    last     \* what became of the last value

memberVars == <<at, text, errno, last>>

NoText == [kind |-> "null", n |-> 0, exp |-> 0, size |-> 0, followed |-> FALSE]
NoResult == [ret |-> 0, rule |-> 0, text |-> NoText, readable |-> TRUE, stored |-> NoValue, written |-> 0, room |-> 0]
-----------------------------------------------------------------------------
(* Rules.                                                                  *)

\* The field of an allocated value is a pointer; its size is that of what it
\* points to (deserialization_action_initialization.h).
Allocated(d) == d.options \cap {"ALLOCATE", "NULLABLE"} # {}

\* The size of an element, of an array or of a string; of a string that is not
\* allocated it is that of the whole field.
ElemSize(d) ==
    IF "ARRAY_OF" \in d.options THEN d.elem
    ELSE IF "STRING" \in d.options THEN d.ctype ELSE 0

\* Variant: elem_size is for the elements of arrays alone.
RuleInitArraysOnly(d) ==
    [options |-> d.options, field_size |-> d.ctype, allocate |-> Allocated(d),
     elem_size |-> IF "ARRAY_OF" \in d.options THEN ElemSize(d) ELSE 0, setter |-> d.setter]

\* yajp_deserialization_rule_init, as the macros call it.
RuleInit(d) ==
    [options |-> d.options, field_size |-> d.ctype, allocate |-> Allocated(d),
     elem_size |-> IF d.options \cap {"ARRAY_OF", "STRING"} # {} THEN ElemSize(d) ELSE 0, setter |-> d.setter]

Rule == RuleInit(Declared[rules[answer]])

\* The bytes the setter is given for the text: of an element, of a block made
\* for the text, or of the field itself.
Room(rule, size) ==
    IF "ARRAY_OF" \in rule.options
    THEN rule.elem_size + (IF "STRING" \in rule.options THEN size ELSE 0)
    ELSE IF rule.allocate THEN size + rule.elem_size ELSE rule.field_size
-----------------------------------------------------------------------------
(* One member.                                                             *)

MemberInit ==
    /\ Init
    /\ at = "name" /\ text = NoText /\ errno \in {"0", "ERANGE"} /\ last = NoResult

MakeTable == Making /\ UNCHANGED memberVars

\* yajp_deserialize_value.
FindRule(name) ==
    /\ at = "name"
    /\ Find(name)
    /\ at' = IF answer' = 0 THEN "name" ELSE "value"
    /\ last' = NoResult
    /\ UNCHANGED <<text, errno>>

\* Variant: errno is left as it was.
ReadValueUnreset(t) ==
    /\ at = "value"
    /\ text' = t /\ errno' = errno
    /\ at' = "set"
    /\ UNCHANGED <<vars, last>>

\* The lexer clears errno before every token.  A value is set after the token
\* behind it was read, and nobody looks whether that was one.
ReadValue(t) ==
    /\ at = "value"
    /\ \E followed \in (IF t.size >= YAJP_BUFFER_SIZE THEN BOOLEAN ELSE {FALSE}) :
          text' = [t EXCEPT !.followed = followed]
    /\ errno' \in {"0", "EINVAL"}
    /\ at' = "set"
    /\ UNCHANGED <<vars, last>>

\* The setter is called, and has converted, stored or refused the text.  After a
\* refusal the next member is that of another document.
SetValue ==
    /\ at = "set"
    /\ LET set == yajp_set(Rule.setter, text, errno)
       IN  /\ last' = [ret |-> set.ret, rule |-> answer, text |-> text, readable |-> errno # "EINVAL",
                       stored |-> set.stored, room |-> Room(Rule, text.size),
                       written |-> IF set.ret = 0 THEN Written(Rule.setter, text) ELSE 0]
           /\ errno' = set.errno
    /\ at' = "name" /\ text' = NoText
    /\ UNCHANGED vars

MemberNext ==
    \/ MakeTable
    \/ \E name \in Names : FindRule(name)
    \/ \E t \in Texts : ReadValue(t)
    \/ SetValue

MemberSpec == MemberInit /\ [][MemberNext]_<<vars, memberVars>> /\ WF_<<vars, memberVars>>(MakeTable)
-----------------------------------------------------------------------------
(* Properties *)

Largest == [short |-> SHRT_MAX, int |-> INT_MAX, long |-> LONG_MAX, long_long |-> LLONG_MAX]
Highest == [float |-> FLT_EXP, double |-> DBL_EXP, long_double |-> LDBL_EXP]

\* Has the field's type a value for the text?
InType(setter, t) ==
    CASE setter \in DOMAIN Largest -> t.kind = "integer" /\ t.n \in Span(Largest[setter])
      [] setter \in DOMAIN Highest -> t.kind \in {"integer", "real"} /\ t.exp \in -(Highest[setter] + 1)..Highest[setter]
      [] setter = "bool" -> t.kind \in {"true", "false"}
      [] setter = "string" -> TRUE

ValueOf(setter, t) ==
    CASE setter \in DOMAIN Largest -> Whole(t.n)
      [] setter \in DOMAIN Highest -> IF t.n = 0 /\ t.exp = 0 THEN Floating("zero", 0) ELSE Floating("real", t.exp)
      [] setter = "bool" -> Truth(t.kind = "true")
      [] setter = "string" -> Text(t)

\* What is stored is the value of the text and nothing else, whatever was
\* converted before; a text is refused only if the type has no value for it, if
\* it runs on behind its end, or if the document goes on with what is no token.
\* The one exception are reals too large, which are stored as infinity
\* (src/deserialization_routine.c:41-51, 73-83, 166-172; src/lexer.c:52).
StoredExactly ==
    LET setter == RuleInit(Declared[rules[last.rule]]).setter
        t == last.text
        tooLarge == setter \in DOMAIN Highest /\ t.exp > Highest[setter]
    IN  last.rule # 0 =>
          /\ last.ret = 0 => \/ InType(setter, t) /\ last.stored = ValueOf(setter, t)
                             \/ tooLarge /\ last.stored = Floating("infinity", 0)
          /\ InType(setter, t) /\ ~t.followed /\ last.readable => last.ret = 0

\* A string copied into the field itself overruns it if it does not leave room
\* for the terminator; a number or boolean in a block of its own, which is made
\* as long as its text, overruns that if the text is shorter than the type.
Overruns(d, size) ==
    /\ "ARRAY_OF" \notin d.options
    /\ IF d.setter = "string" THEN ~Allocated(d) /\ size >= d.ctype
       ELSE Allocated(d) /\ size < SizeOf[d.setter]

\* Those are the only cases: for every other value the sizes that the macros
\* pass, rule_init keeps and the deserializer adds up are enough for what its
\* setter writes, a string's terminator included
\* (src/deserialization.c:288, 307, 482, 497; src/deserialization_routine.c:269).
OverflowsNamed ==
    last.rule # 0 /\ last.ret = 0 =>
        (last.written > last.room <=> Overruns(Declared[rules[last.rule]], last.text.size))

\* A setter writes within the memory it was given for the text, which is what a
\* number that may be null is documented for (run MCSmallBlock shows it is not so).
WritesFit == last.written <= last.room
==================================================
