--------------------------- MODULE MembersProofs ----------------------------
(***************************************************************************)
(* Proofs about module Members, for every list of rules, every text and    *)
(* every width of the types: what RuleTableProofs proves of the table      *)
(* holds as members are looked up and set, a setter stores the value of    *)
(* its text or refuses it, and overruns the memory it is given in two      *)
(* cases and no other.                                                     *)
(***************************************************************************)
EXTENDS Members, RuleTableProofs
-----------------------------------------------------------------------------
(* The setters.                                                            *)

\* What a setter does with a text is right.  It is called with errno as the
\* lexer has left it.
Right(setter, t, errnoBefore, set) ==
    LET tooLarge == setter \in DOMAIN Highest /\ t.exp > Highest[setter]
    IN  /\ set.ret = 0 => \/ InType(setter, t) /\ set.stored = ValueOf(setter, t)
                          \/ tooLarge /\ set.stored = Floating("infinity", 0)
        /\ InType(setter, t) /\ ~t.followed /\ errnoBefore # "EINVAL" => set.ret = 0

\* Conversion to a wider type, and the test, refuse the integers that the type
\* of the field does not have and no others.
LEMMA IntegerIsRight ==
    ASSUME NEW t, IsText(t), NEW before \in {"0", "EINVAL"},
           NEW widest \in Nat, NEW tested \in Nat, NEW max \in Nat, max <= tested, tested <= widest
    PROVE  LET set == Integer(t, widest, tested, max, before)
               fits == t.kind = "integer" /\ t.n \in Span(max)
           IN  /\ set.ret = 0 => fits /\ set.stored = Whole(t.n)
               /\ fits /\ ~t.followed /\ before # "EINVAL" => set.ret = 0
<1> DEFINE set == Integer(t, widest, tested, max, before)
           c == Converted(t, widest, before)
<1>1. t.n \in Int /\ t.size \in Nat /\ t.followed \in BOOLEAN /\ (t.kind = "integer" => t.size # 0)
  BY DEF IsText
<1>2. set.ret = 0 => /\ t.size # 0 /\ t.kind = "integer"
                     /\ ~(c.errno = "ERANGE" /\ c.result \in Limits(tested))
                     /\ c.result \in Span(max) /\ set.stored = Whole(c.result)
  BY DEF Integer, Refused, Taken, StopsAtEnd
<1>3. t.kind = "integer" => \/ c.result = t.n /\ c.errno = before /\ t.n \in Span(widest)
                            \/ t.n > widest /\ c.result = widest /\ c.errno = "ERANGE"
                            \/ t.n < -(widest + 1) /\ c.result = -(widest + 1) /\ c.errno = "ERANGE"
  BY <1>1 DEF Converted, Span
<1>4. set.ret = 0 => t.kind = "integer" /\ t.n \in Span(max) /\ set.stored = Whole(t.n)
  <2>1. CASE t.kind = "integer" /\ c.result = t.n
    BY <1>2, <2>1
  <2>2. CASE t.kind = "integer" /\ c.result = widest /\ c.errno = "ERANGE"
    <3>1. widest \in Span(max) => widest \in Limits(tested)
      BY DEF Span, Limits
    <3>2. QED
      BY <1>2, <2>2, <3>1
  <2>3. CASE t.kind = "integer" /\ c.result = -(widest + 1) /\ c.errno = "ERANGE"
    <3>1. -(widest + 1) \in Span(max) => -(widest + 1) \in Limits(tested)
      BY DEF Span, Limits
    <3>2. QED
      BY <1>2, <2>3, <3>1
  <2>4. QED
    BY <1>2, <1>3, <2>1, <2>2, <2>3
<1>5. ASSUME t.kind = "integer", t.n \in Span(max), ~t.followed, before # "EINVAL" PROVE set.ret = 0
  <2>1. c.result = t.n /\ c.errno = "0"
    BY <1>1, <1>5 DEF Converted, Span
  <2>2. QED
    BY <1>1, <1>5, <2>1 DEF Integer, Taken, StopsAtEnd
<1>6. QED
  BY <1>4, <1>5

\* A real is refused only if it is too small; one too large is infinite.
LEMMA RealIsRight ==
    ASSUME NEW t, IsText(t), NEW before \in {"0", "EINVAL"}, NEW limit \in Nat \ {0}
    PROVE  LET set == Real(t, limit, before)
               fits == t.kind \in {"integer", "real"} /\ t.exp \in -(limit + 1)..limit
               value == IF t.n = 0 /\ t.exp = 0 THEN Floating("zero", 0) ELSE Floating("real", t.exp)
           IN  /\ set.ret = 0 => \/ fits /\ set.stored = value
                                 \/ t.exp > limit /\ set.stored = Floating("infinity", 0)
               /\ fits /\ ~t.followed => set.ret = 0
<1> DEFINE set == Real(t, limit, before)
           c == Rounded(t, limit, before)
           zero == t.n = 0 /\ t.exp = 0
           number == t.kind \in {"integer", "real"}
<1>1. t.exp \in Int /\ t.size \in Nat /\ t.followed \in BOOLEAN /\ (number => t.size # 0)
  BY DEF IsText
<1>2. /\ set.ret = 0 <=> /\ t.size # 0 /\ number /\ ~t.followed
                         /\ ~(c.errno = "ERANGE" /\ c.result.is = "zero")
      /\ set.ret = 0 => set.stored = c.result
  BY DEF Real, Refused, Taken, StopsAtEnd
<1>3. CASE number /\ zero
  <2>1. c.result = Floating("zero", 0) /\ c.errno # "ERANGE"
    BY <1>3 DEF Rounded
  <2>2. QED
    BY <1>1, <1>2, <1>3, <2>1
<1>4. CASE number /\ ~zero /\ t.exp > limit
  <2>1. c.result = Floating("infinity", 0)
    BY <1>1, <1>4 DEF Rounded
  <2>2. QED
    BY <1>1, <1>2, <1>4, <2>1
<1>5. CASE number /\ ~zero /\ t.exp \in -(limit + 1)..limit
  <2>1. c.result = Floating("real", t.exp)
    BY <1>1, <1>5 DEF Rounded
  <2>2. c.result.is # "zero"
    BY <2>1 DEF Floating
  <2>3. QED
    BY <1>1, <1>2, <1>5, <2>1, <2>2
<1>6. CASE number /\ ~zero /\ t.exp < -(limit + 1)
  <2>1. c.result = Floating("zero", 0) /\ c.errno = "ERANGE" /\ c.result.is = "zero"
    BY <1>1, <1>6 DEF Rounded, Floating
  <2>2. QED
    BY <1>1, <1>2, <1>6, <2>1
<1>7. CASE ~number
  BY <1>2, <1>7
<1>8. QED
  BY <1>1, <1>3, <1>4, <1>5, <1>6, <1>7

\* So every setter is right.
LEMMA SettersAreRight ==
    ASSUME SettersAssumption, NEW setter \in SetterNames, NEW t, IsText(t), NEW before \in {"0", "EINVAL"}
    PROVE  Right(setter, t, before, yajp_set(setter, t, before))
<1>1. CASE setter = "short"
  BY <1>1, IntegerIsRight, SMTT(30) DEF SettersAssumption, Right, yajp_set, yajp_set_short, InType, ValueOf, Largest, Highest
<1>2. CASE setter = "int"
  BY <1>2, IntegerIsRight DEF SettersAssumption, Right, yajp_set, yajp_set_int, InType, ValueOf, Largest, Highest
<1>3. CASE setter = "long"
  BY <1>3, IntegerIsRight DEF SettersAssumption, Right, yajp_set, yajp_set_long_int, InType, ValueOf, Largest, Highest
<1>4. CASE setter = "long_long"
  BY <1>4, IntegerIsRight DEF SettersAssumption, Right, yajp_set, yajp_set_long_long_int, InType, ValueOf, Largest, Highest
<1>5. CASE setter = "float"
  BY <1>5, RealIsRight DEF SettersAssumption, Right, yajp_set, yajp_set_float, InType, ValueOf, Largest, Highest
<1>6. CASE setter = "double"
  BY <1>6, RealIsRight DEF SettersAssumption, Right, yajp_set, yajp_set_double, InType, ValueOf, Largest, Highest
<1>7. CASE setter = "long_double"
  BY <1>7, RealIsRight DEF SettersAssumption, Right, yajp_set, yajp_set_long_double, InType, ValueOf, Largest, Highest
<1>8. CASE setter = "bool"
  BY <1>8 DEF Right, yajp_set, yajp_set_bool, InType, ValueOf, Largest, Highest, Taken, Refused
<1>9. CASE setter = "string"
  BY <1>9 DEF Right, yajp_set, yajp_set_string, InType, ValueOf, Largest, Highest, Taken
<1>10. QED
  BY <1>1, <1>2, <1>3, <1>4, <1>5, <1>6, <1>7, <1>8, <1>9 DEF SetterNames
-----------------------------------------------------------------------------
(* The members.                                                            *)

\* The inductive invariant: the table's, and what is known of the member whose
\* value is under way.
MemberIInv ==
    /\ IInv
    /\ at \in {"name", "value", "set"}
    /\ at # "name" => answer # 0
    /\ at = "set" => IsText(text) /\ errno \in {"0", "EINVAL"}

\* The rule of a member under way is one of the declared.
LEMMA RuleIsDeclared ==
    ASSUME RuleTableAssumption, MembersAssumption, MemberIInv, at # "name"
    PROVE  rules[answer] \in DOMAIN Declared /\ Rule.setter \in SetterNames
<1>1. rules \in RuleLists /\ Len(rules) \in Nat /\ answer \in 1..Len(rules)
  BY ListsAre DEF MemberIInv, IInv
<1>2. DOMAIN rules = 1..Len(rules)
  BY <1>1 DEF RuleTableAssumption
<1>3. rules[answer] \in DOMAIN Declared
  BY <1>1, <1>2 DEF MembersAssumption, Range
<1>4. QED
  BY <1>3 DEF MembersAssumption, WellTyped, Rule, RuleInit

\* A member's steps are steps of the table or leave it alone.
LEMMA StepMemberIInv ==
    ASSUME RuleTableAssumption, MembersAssumption, MemberIInv, [MemberNext]_<<vars, memberVars>>
    PROVE  MemberIInv' /\ rules' = rules
<1>1. [Next]_vars
  BY DEF MemberNext, MakeTable, FindRule, ReadValue, SetValue, Next, vars, memberVars
<1>2. IInv'
  BY <1>1, StepIInv DEF MemberIInv
<1>3. CASE MakeTable
  <2>1. UNCHANGED <<rules, answer, at, text, errno>>
    BY <1>3 DEF MakeTable, Making, Create, Put, Grow, PickUp, PutDown, FinishGrowth, Made, memberVars
  <2>2. QED
    BY <1>2, <2>1 DEF MemberIInv
<1>4. ASSUME NEW name \in Names, FindRule(name) PROVE MemberIInv' /\ rules' = rules
  BY <1>2, <1>4 DEF MemberIInv, FindRule, Find
<1>5. ASSUME NEW t \in Texts, ReadValue(t) PROVE MemberIInv' /\ rules' = rules
  <2>1. IsText(t)
    BY DEF MembersAssumption
  <2>2. PICK followed \in BOOLEAN : text' = [t EXCEPT !.followed = followed]
    BY <1>5 DEF ReadValue
  <2>3. IsText(text')
    BY <2>1, <2>2 DEF IsText
  <2>4. QED
    BY <1>2, <1>5, <2>3 DEF MemberIInv, ReadValue, vars
<1>6. CASE SetValue
  BY <1>2, <1>6 DEF MemberIInv, SetValue, vars
<1>7. CASE UNCHANGED <<vars, memberVars>>
  BY <1>2, <1>7 DEF MemberIInv, vars, memberVars
<1>8. QED
  BY <1>3, <1>4, <1>5, <1>6, <1>7 DEF MemberNext

\* The invariant holds in every state, whatever members are looked up and set.
THEOREM MemberInvariance == MemberSpec => []MemberIInv
<1>1. RuleTableAssumption /\ MemberInit => MemberIInv
  BY InitIInv DEF MemberInit, MemberIInv
<1>2. QED
  BY <1>1, StepMemberIInv, RuleTableAssumption, MembersAssumption, PTL DEF MemberSpec

\* The table has lost nothing, whatever members were looked up and set.
THEOREM TableTheorem == MemberSpec => [](TypeOK /\ NothingLost)
<1>1. RuleTableAssumption /\ MemberIInv => TypeOK /\ NothingLost
  BY TypeFollows, NothingIsLost DEF MemberIInv
<1>2. QED
  BY <1>1, RuleTableAssumption, MemberInvariance, PTL

\* What has become of the last value stays as it is until the next is set or
\* another name is looked up.
LEMMA LastStays ==
    ASSUME MemberNext \/ UNCHANGED <<vars, memberVars>>, ~SetValue
    PROVE  last' = last \/ last' = NoResult
  BY DEF MemberNext, MakeTable, FindRule, ReadValue, vars, memberVars

\* What is stored is the value of the text and nothing else, and nothing is
\* refused that the type of the field has a value for, whatever the widths of
\* the types are and whatever was converted before.
THEOREM StoredTheorem == MemberSpec => []StoredExactly
<1>1. MemberInit => StoredExactly
  BY DEF MemberInit, StoredExactly, NoResult
<1>2. ASSUME RuleTableAssumption, MembersAssumption, SettersAssumption, MemberIInv, StoredExactly,
             [MemberNext]_<<vars, memberVars>>
      PROVE  StoredExactly'
  <2>1. rules' = rules
    BY <1>2, StepMemberIInv
  <2>2. CASE SetValue
    <3> DEFINE set == yajp_set(Rule.setter, text, errno)
    <3>1. Right(Rule.setter, text, errno, set)
      BY <1>2, <2>2, RuleIsDeclared, SettersAreRight DEF MemberIInv, SetValue
    <3>2. /\ last'.rule = answer /\ last'.text = text /\ last'.ret = set.ret /\ last'.stored = set.stored
          /\ last'.readable <=> errno # "EINVAL"
      BY <2>2 DEF SetValue
    <3>3. RuleInit(Declared[rules[last.rule]])' = Rule
      BY <2>1, <3>2 DEF Rule
    <3> HIDE DEF set
    <3>4. QED
      BY <3>1, <3>2, <3>3 DEF StoredExactly, Right
  <2>3. CASE ~SetValue
    <3>1. last' = last \/ last'.rule = 0
      BY <1>2, <2>3, LastStays DEF NoResult
    <3>2. QED
      BY <1>2, <2>1, <3>1 DEF StoredExactly
  <2>4. QED
    BY <2>2, <2>3
<1>3. QED
  BY <1>1, <1>2, MemberInvariance, RuleTableAssumption, MembersAssumption, SettersAssumption, PTL DEF MemberSpec

\* What rule_init keeps of the sizes the macros pass.
LEMMA SizesKept ==
    ASSUME NEW d
    PROVE  LET rule == RuleInit(d)
           IN  /\ rule.options = d.options /\ rule.field_size = d.ctype
               /\ rule.allocate <=> Allocated(d)
               /\ "ARRAY_OF" \in d.options => rule.elem_size = d.elem
               /\ "STRING" \in d.options /\ "ARRAY_OF" \notin d.options => rule.elem_size = d.ctype
               /\ "STRING" \notin d.options /\ "ARRAY_OF" \notin d.options => rule.elem_size = 0
<1>1. "ARRAY_OF" \in d.options \/ "STRING" \in d.options <=> d.options \cap {"ARRAY_OF", "STRING"} # {}
  OBVIOUS
<1>2. /\ "ARRAY_OF" \in d.options => RuleInit(d).elem_size = d.elem
      /\ "STRING" \in d.options /\ "ARRAY_OF" \notin d.options => RuleInit(d).elem_size = d.ctype
      /\ "STRING" \notin d.options /\ "ARRAY_OF" \notin d.options => RuleInit(d).elem_size = 0
  BY <1>1 DEF RuleInit, ElemSize
<1>3. RuleInit(d).options = d.options /\ RuleInit(d).field_size = d.ctype
  BY DEF RuleInit
<1>4. RuleInit(d).allocate <=> Allocated(d)
  BY DEF RuleInit
<1>5. QED
  BY <1>2, <1>3, <1>4

\* So the memory for a text is too small in those cases alone.
LEMMA RoomIsShort ==
    ASSUME NEW d, WellTyped(d), NEW t, t.size \in Nat
    PROVE  Written(d.setter, t) > Room(RuleInit(d), t.size) <=> Overruns(d, t.size)
<1> DEFINE rule == RuleInit(d)
<1>1. /\ rule.options = d.options /\ rule.field_size = d.ctype
      /\ rule.allocate <=> Allocated(d)
      /\ "ARRAY_OF" \in d.options => rule.elem_size = d.elem
      /\ "STRING" \in d.options /\ "ARRAY_OF" \notin d.options => rule.elem_size = d.ctype
      /\ "STRING" \notin d.options /\ "ARRAY_OF" \notin d.options => rule.elem_size = 0
  BY SizesKept
<1>2. d.ctype \in Nat /\ d.elem \in Nat /\ (d.setter = "string" <=> "STRING" \in d.options)
  BY DEF WellTyped
<1> HIDE DEF rule
<1>3. CASE d.setter = "string"
  <2>1. Written(d.setter, t) = t.size + 1
    BY <1>3 DEF Written
  <2>2. IF "ARRAY_OF" \in d.options THEN d.elem >= 1 ELSE d.ctype >= 1
    BY <1>3 DEF WellTyped
  <2>3. QED
    BY <1>1, <1>2, <1>3, <2>1, <2>2 DEF Room, Overruns, rule
<1>4. CASE d.setter # "string"
  <2>1. SizeOf[d.setter] \in Nat
    BY <1>4 DEF WellTyped, SetterNames, SizeOf
  <2>2. Written(d.setter, t) = SizeOf[d.setter]
    BY <1>4 DEF Written
  <2>3. IF "ARRAY_OF" \in d.options THEN d.elem = SizeOf[d.setter] ELSE d.ctype = SizeOf[d.setter]
    BY <1>4 DEF WellTyped
  <2>4. QED
    BY <1>1, <1>2, <1>4, <2>1, <2>2, <2>3 DEF Room, Overruns, rule
<1>5. QED
  BY <1>3, <1>4

\* A setter writes more than it was given for a string that fills the field
\* itself, and for a number or boolean in a block shorter than its type, and in
\* no other case, whatever the declarations, the lists and the texts.
THEOREM WritesTheorem == MemberSpec => []OverflowsNamed
<1>1. MemberInit => OverflowsNamed
  BY DEF MemberInit, OverflowsNamed, NoResult
<1>2. ASSUME RuleTableAssumption, MembersAssumption, MemberIInv, OverflowsNamed,
             [MemberNext]_<<vars, memberVars>>
      PROVE  OverflowsNamed'
  <2>1. rules' = rules
    BY <1>2, StepMemberIInv
  <2>2. CASE SetValue
    <3> DEFINE d == Declared[rules[answer]]
               set == yajp_set(d.setter, text, errno)
    <3>1. WellTyped(d) /\ text.size \in Nat
      BY <1>2, <2>2, RuleIsDeclared DEF SetValue, MembersAssumption, MemberIInv, IsText
    <3>2. Written(d.setter, text) > Room(RuleInit(d), text.size) <=> Overruns(d, text.size)
      BY <3>1, RoomIsShort
    <3>3. /\ last'.rule = answer /\ last'.text = text /\ last'.ret = set.ret
          /\ last'.room = Room(RuleInit(d), text.size)
          /\ last'.written = IF set.ret = 0 THEN Written(d.setter, text) ELSE 0
      BY <2>2 DEF SetValue, Rule, RuleInit
    <3>4. Declared[rules[last.rule]]' = d
      BY <2>1, <3>3
    <3> HIDE DEF d, set
    <3>5. QED
      BY <3>2, <3>3, <3>4 DEF OverflowsNamed, Overruns
  <2>3. CASE ~SetValue
    <3>1. last' = last \/ last'.rule = 0
      BY <1>2, <2>3, LastStays DEF NoResult
    <3>2. QED
      BY <1>2, <2>1, <3>1 DEF OverflowsNamed
  <2>4. QED
    BY <2>2, <2>3
<1>3. QED
  BY <1>1, <1>2, MemberInvariance, RuleTableAssumption, MembersAssumption, PTL DEF MemberSpec
==================================================
