------------------------- MODULE MessageBuilderProofs -------------------------
(***************************************************************************)
(* Proofs about MessageBuilder, for every schema size and line length that *)
(* satisfy BuilderAssumption.                                              *)
(*                                                                         *)
(* PopTarget is not inductive alone.  Its tail clause reads given[j][i],   *)
(* so the proof needs to know how far given has been filled: nothing for   *)
(* the members not reached yet, and exactly m - 1 lines for the struct     *)
(* being asked for.  It also needs the shape of the state: the text is a   *)
(* sequence of tokens, and j and m stay within the member lists.  The      *)
(* tokens are those the actions append; a string literal is               *)
(* Str(Escape(l), l) for a typed line l, and nothing more about Escape is  *)
(* needed (what it computes for every line would take induction).          *)
(***************************************************************************)
EXTENDS MessageBuilder, TLAPS

\* Every token input_message and input_type append.
TokSet ==
    {Tok(k) : k \in {"{", "}", ",", "lit"}}
    \cup {Key(n) : n \in 0..MaxFields}
    \cup {Str(Escape(l), l) : l \in Lines}

\* The state as the actions build it: member lists within MaxFields, the
\* text a sequence of tokens, the indices within their lists.
Shape ==
    /\ msg \in Seq(Field) /\ Len(msg) <= MaxFields
    /\ structS \in Seq(Field) /\ Len(structS) <= MaxFields
    /\ out \in Seq(TokSet)
    /\ given \in [1..MaxFields -> Seq(Lines)]
    /\ pc \in {"field", "member", "done"}
    /\ j \in 1..Len(msg) + 1
    /\ pc = "member" => j <= Len(msg) /\ m \in 1..Len(structS) + 1

\* How far given has been filled: the members not reached yet have no
\* lines, and the struct being asked for has one per member asked.
GivenFilled ==
    /\ pc = "field" => \A k \in 1..MaxFields : k >= j => given[k] = << >>
    /\ pc = "member" => /\ Len(given[j]) = m - 1
                        /\ \A k \in 1..MaxFields : k > j => given[k] = << >>

IInv == Shape /\ GivenFilled /\ PopTarget

USE BuilderAssumption

-----------------------------------------------------------------------------
\* A member list drawn from FieldSeqs is a sequence of at most MaxFields
\* member types.
LEMMA FieldSeqsShape ==
  ASSUME NEW lo \in Nat, NEW s \in FieldSeqs(lo)
  PROVE  s \in Seq(Field) /\ Len(s) \in lo..MaxFields
  <1>1. PICK k \in lo..MaxFields : s \in [1..k -> Field]
    BY DEF FieldSeqs
  <1>2. QED
    BY <1>1

\* What to_json_item appends is a sequence of tokens: nothing when the
\* member is an optional one left empty, else items ending with a comma.
LEMMA ItemShape ==
  ASSUME NEW n \in 1..MaxFields, NEW f \in Field, NEW l \in Lines
  PROVE  /\ Item(n, f, l) \in Seq(TokSet)
         /\ Item(n, f, l) = << >> <=> Omitted(f, l)
         /\ Item(n, f, l) # << >> => Item(n, f, l)[Len(Item(n, f, l))] = Comma
  <1>1. Key(n) \in TokSet /\ Comma \in TokSet /\ Tok("lit") \in TokSet
        /\ Str(Escape(l), l) \in TokSet
    <2>1. n \in 0..MaxFields
      OBVIOUS
    <2>2. Key(n) \in TokSet
      BY <2>1, Zenon DEF TokSet
    <2>3. Comma \in TokSet /\ Tok("lit") \in TokSet
      BY Zenon DEF TokSet, Comma
    <2>4. Str(Escape(l), l) \in TokSet
      BY Zenon DEF TokSet
    <2>5. QED
      BY <2>2, <2>3, <2>4
  <1> DEFINE V == IF NeedSlash(Resolve(f.base)) THEN <<Str(Escape(l), l)>>
                                               ELSE Verbatim(l)
  <1>2. V \in Seq(TokSet)
    BY <1>1 DEF Verbatim
  <1>3. CASE Omitted(f, l)
    BY <1>3 DEF Item, Omitted
  <1>4. CASE ~Omitted(f, l)
    <2>1. Item(n, f, l) = <<Key(n)>> \o V \o <<Comma>>
      BY <1>4 DEF Item, Omitted
    <2>2. QED
      BY <1>1, <1>2, <2>1, <1>4
  <1>5. QED
    BY <1>3, <1>4

LEMMA InitIInv == Init => IInv
  <1> SUFFICES ASSUME Init PROVE IInv
    OBVIOUS
  <1>1. msg \in Seq(Field) /\ Len(msg) <= MaxFields
        /\ structS \in Seq(Field) /\ Len(structS) <= MaxFields
    BY FieldSeqsShape DEF Init
  <1>2. out \in Seq(TokSet)
    <2>1. LB \in TokSet /\ Key(Wrapper) \in TokSet
      <3>1. Wrapper \in 0..MaxFields
        BY DEF Wrapper
      <3>2. QED
        BY <3>1, Zenon DEF TokSet, LB
    <2>2. QED
      BY <2>1 DEF Init
  <1>3. given \in [1..MaxFields -> Seq(Lines)]
    BY DEF Init
  <1>4. Shape
    BY <1>1, <1>2, <1>3 DEF Init, Shape
  <1>5. GivenFilled
    BY DEF Init, GivenFilled
  <1>6. PopTarget
    <2>1. out # << >> /\ out[Len(out)] = LB
      BY DEF Init, LB
    <2>2. QED
      BY <2>1 DEF Init, PopTarget
  <1>7. QED
    BY <1>4, <1>5, <1>6 DEF IInv


\* Appending a non-empty piece: the text is non-empty and ends as the
\* piece ends.
LEMMA AppendLast ==
  ASSUME NEW S, NEW s \in Seq(S), NEW t \in Seq(S), t # << >>
  PROVE  /\ s \o t \in Seq(S)
         /\ s \o t # << >>
         /\ (s \o t)[Len(s \o t)] = t[Len(t)]
  OBVIOUS

LEMMA BraceTokens == /\ Comma # LB
                     /\ {LB, RB, Comma} \subseteq TokSet
  <1>1. Comma # LB
    BY DEF Comma, LB, Tok
  <1>2. {LB, RB, Comma} \subseteq TokSet
    BY Zenon DEF TokSet, LB, RB, Comma
  <1>3. QED
    BY <1>1, <1>2

\* A step after which the text ends with a comma keeps PopTarget.
LEMMA EndsWithComma ==
  ASSUME out' \in Seq(TokSet), out' # << >>, out'[Len(out')] = Comma
  PROVE  PopTarget'
  BY BraceTokens DEF PopTarget

-----------------------------------------------------------------------------
LEMMA PromptScalarIInv == IInv /\ PromptScalar => IInv'
  <1> SUFFICES ASSUME IInv, PromptScalar PROVE IInv'
    OBVIOUS
  <1> USE DEF IInv, Shape
  <1>1. PICK l \in Lines : /\ out' = out \o Item(j, msg[j], l)
                           /\ given' = [given EXCEPT ![j] = <<l>>]
    BY DEF PromptScalar
  <1>2. j \in 1..MaxFields /\ msg[j] \in Field
    BY DEF PromptScalar
  <1>3. Item(j, msg[j], l) \in Seq(TokSet)
        /\ (Item(j, msg[j], l) = << >> <=> Omitted(msg[j], l))
        /\ (Item(j, msg[j], l) # << >> => Item(j, msg[j], l)[Len(Item(j, msg[j], l))] = Comma)
    BY <1>2, ItemShape
  <1>4. given' \in [1..MaxFields -> Seq(Lines)] /\ given'[j] = <<l>>
        /\ \A k \in 1..MaxFields : k # j => given'[k] = given[k]
    BY <1>1, <1>2
  <1>5. Shape'
    BY <1>1, <1>3, <1>4 DEF PromptScalar
  <1>6. GivenFilled'
    BY <1>4 DEF PromptScalar, GivenFilled
  <1>7. PopTarget'
    <2>1. CASE Omitted(msg[j], l)
      <3>1. out' = out
        <4>1. Item(j, msg[j], l) = << >>
          BY <1>3, <2>1
        <4>2. out' = out \o << >>
          BY <1>1, <4>1
        <4>3. out \in Seq(TokSet)
          OBVIOUS
        <4>4. QED
          BY <4>2, <4>3
      <3>2. ASSUME out[Len(out)] = LB PROVE \A k \in 1..j : Omitted(msg[k], given'[k][1])
        <4>1. \A k \in 1..j - 1 : Omitted(msg[k], given[k][1])
          BY <3>2 DEF PopTarget, PromptScalar
        <4>2. \A k \in 1..j - 1 : given'[k] = given[k]
          BY <1>4, <1>2
        <4>3. Omitted(msg[j], given'[j][1])
          BY <1>4, <2>1
        <4>4. ASSUME NEW k \in 1..j PROVE Omitted(msg[k], given'[k][1])
          <5>1. CASE k = j
            BY <4>3, <5>1
          <5>2. CASE k # j
            <6>1. k \in 1..j - 1
              BY <5>2, <1>2
            <6>2. QED
              BY <4>1, <4>2, <6>1
          <5>3. QED
            BY <5>1, <5>2
        <4>5. QED
          BY <4>4
      <3>3. QED
        BY <3>1, <3>2 DEF PopTarget, PromptScalar
    <2>2. CASE ~Omitted(msg[j], l)
      BY <1>1, <1>3, <2>2, AppendLast, EndsWithComma
    <2>3. QED
      BY <2>1, <2>2
  <1>8. QED
    BY <1>5, <1>6, <1>7


LEMMA PromptEmptyStructIInv == IInv /\ PromptEmptyStruct => IInv'
  <1> SUFFICES ASSUME IInv, PromptEmptyStruct PROVE IInv'
    OBVIOUS
  <1> USE DEF IInv, Shape
  <1>1. PICK l \in Lines :
          /\ out' = out \o <<Key(j)>> \o Verbatim(l) \o <<Comma>>
          /\ given' = [given EXCEPT ![j] = <<l>>]
    BY DEF PromptEmptyStruct
  <1>2. j \in 1..MaxFields
    BY DEF PromptEmptyStruct
  <1>3. <<Key(j)>> \o Verbatim(l) \o <<Comma>> \in Seq(TokSet)
    <2>1. Key(j) \in TokSet /\ Tok("lit") \in TokSet
      <3>1. j \in 0..MaxFields
        BY <1>2
      <3>2. QED
        BY <3>1, Zenon DEF TokSet
    <2>2. QED
      BY <2>1, BraceTokens DEF Verbatim
  <1>4. out' \in Seq(TokSet) /\ out' # << >> /\ out'[Len(out')] = Comma
    BY <1>1, <1>3, BraceTokens, AppendLast
  <1>5. given' \in [1..MaxFields -> Seq(Lines)]
        /\ \A k \in 1..MaxFields : k # j => given'[k] = given[k]
    BY <1>1, <1>2
  <1>6. Shape'
    BY <1>4, <1>5 DEF PromptEmptyStruct
  <1>7. GivenFilled'
    BY <1>5 DEF PromptEmptyStruct, GivenFilled
  <1>8. QED
    BY <1>4, <1>6, <1>7, EndsWithComma

LEMMA EnterStructIInv == IInv /\ EnterStruct => IInv'
  <1> SUFFICES ASSUME IInv, EnterStruct PROVE IInv'
    OBVIOUS
  <1> USE DEF IInv, Shape
  <1>1. j \in 1..MaxFields /\ given[j] = << >>
    BY DEF EnterStruct, GivenFilled
  <1>2. <<Key(j), LB>> \in Seq(TokSet)
    <2>1. j \in 0..MaxFields
      BY <1>1
    <2>2. Key(j) \in TokSet
      BY <2>1, Zenon DEF TokSet
    <2>3. QED
      BY <2>2, BraceTokens
  <1>3. out' \in Seq(TokSet) /\ out' # << >> /\ out'[Len(out')] = LB
    <2>1. out' = out \o <<Key(j), LB>>
      BY DEF EnterStruct
    <2>2. QED
      BY <1>2, <2>1, AppendLast
  <1>4. Shape'
    BY <1>3 DEF EnterStruct
  <1>5. GivenFilled'
    BY <1>1 DEF EnterStruct, GivenFilled
  <1>6. PopTarget'
    BY <1>3, BraceTokens DEF EnterStruct, PopTarget
  <1>7. QED
    BY <1>4, <1>5, <1>6

LEMMA PromptMemberIInv == IInv /\ PromptMember => IInv'
  <1> SUFFICES ASSUME IInv, PromptMember PROVE IInv'
    OBVIOUS
  <1> USE DEF IInv, Shape
  <1>1. PICK l \in Lines : /\ out' = out \o Item(m, structS[m], l)
                           /\ given' = [given EXCEPT ![j] = Append(@, l)]
    BY DEF PromptMember
  <1> DEFINE It == Item(m, structS[m], l)
  <1>2. /\ m \in 1..MaxFields /\ structS[m] \in Field
        /\ j \in 1..MaxFields /\ Len(given[j]) = m - 1
        /\ given[j] \in Seq(Lines)
    BY DEF PromptMember, GivenFilled
  <1>3. /\ It \in Seq(TokSet)
        /\ It = << >> <=> Omitted(structS[m], l)
        /\ It # << >> => It[Len(It)] = Comma
    BY <1>2, ItemShape
  <1>10. out' = out \o It
    BY <1>1
  <1> HIDE DEF It
  <1>4. /\ given' \in [1..MaxFields -> Seq(Lines)]
        /\ given'[j] = Append(given[j], l)
        /\ \A k \in 1..MaxFields : k # j => given'[k] = given[k]
    BY <1>1, <1>2
  <1>5. out' \in Seq(TokSet)
    BY <1>10, <1>3
  <1>6. Shape'
    BY <1>4, <1>5 DEF PromptMember
  <1>7. GivenFilled'
    BY <1>2, <1>4 DEF PromptMember, GivenFilled
  <1>8. PopTarget'
    <2>1. CASE Omitted(structS[m], l)
      <3>1. out' = out
        BY <1>10, <1>3, <2>1
      <3>2. ASSUME out[Len(out)] = LB
            PROVE  \A i \in 1..m : Omitted(structS[i], given'[j][i])
        <4>1. \A i \in 1..m - 1 : Omitted(structS[i], given[j][i])
          BY <3>2 DEF PopTarget, PromptMember
        <4>2. given'[j] = Append(given[j], l) /\ Len(given[j]) = m - 1
              /\ given[j] \in Seq(Lines) /\ m \in Nat \ {0}
          BY <1>2, <1>4
        <4>3. \A i \in 1..m - 1 : given'[j][i] = given[j][i]
          BY <4>2
        <4>4. given'[j][m] = l
          BY <4>2
        <4>5. ASSUME NEW i \in 1..m PROVE Omitted(structS[i], given'[j][i])
          <5>1. CASE i = m
            BY <2>1, <4>4, <5>1
          <5>2. CASE i # m
            <6>1. i \in 1..m - 1
              BY <5>2, <1>2
            <6>2. QED
              BY <4>1, <4>3, <6>1
          <5>3. QED
            BY <5>1, <5>2
        <4>6. QED
          BY <4>5
      <3>3. m' - 1 = m /\ j' = j /\ structS' = structS /\ pc' = "member"
        BY <1>2 DEF PromptMember
      <3>4. out[Len(out)] \in {LB, Comma} /\ out # << >>
        BY DEF PopTarget, PromptMember
      <3>5. QED
        BY <3>1, <3>2, <3>3, <3>4 DEF PopTarget
    <2>2. CASE ~Omitted(structS[m], l)
      BY <1>10, <1>3, <2>2, AppendLast, EndsWithComma
    <2>3. QED
      BY <2>1, <2>2
  <1>9. QED
    BY <1>6, <1>7, <1>8

LEMMA CloseStructIInv == IInv /\ CloseStruct => IInv'
  <1> SUFFICES ASSUME IInv, CloseStruct PROVE IInv'
    OBVIOUS
  <1> USE DEF IInv, Shape
  <1>1. out # << >>
    BY DEF CloseStruct, PopTarget
  <1>2. Pop(out) \in Seq(TokSet)
    BY <1>1 DEF Pop
  <1>3. out' \in Seq(TokSet) /\ out' # << >> /\ out'[Len(out')] = Comma
    <2>1. out' = Pop(out) \o <<RB, Comma>>
      BY DEF CloseStruct
    <2>2. QED
      BY <1>2, <2>1, BraceTokens, AppendLast
  <1>4. Shape'
    BY <1>3 DEF CloseStruct
  <1>5. GivenFilled'
    BY DEF CloseStruct, GivenFilled
  <1>6. QED
    BY <1>3, <1>4, <1>5, EndsWithComma

LEMMA FinishIInv == IInv /\ Finish => IInv'
  <1> SUFFICES ASSUME IInv, Finish PROVE IInv'
    OBVIOUS
  <1> USE DEF IInv, Shape
  <1>1. Pop(out) \in Seq(TokSet)
    BY DEF Pop
  <1>2. out' \in Seq(TokSet)
    BY <1>1, BraceTokens DEF Finish
  <1>3. QED
    BY <1>2 DEF Finish, GivenFilled, PopTarget

\* Each step of input_message and input_type keeps IInv.
LEMMA NextIInv == IInv /\ [Next]_vars => IInv'
  <1> SUFFICES ASSUME IInv, [Next]_vars PROVE IInv'
    OBVIOUS
  <1>1. CASE UNCHANGED vars
    BY <1>1 DEF vars, IInv, Shape, GivenFilled, PopTarget
  <1>2. QED
    BY <1>1, PromptScalarIInv, PromptEmptyStructIInv, EnterStructIInv,
       PromptMemberIInv, CloseStructIInv, FinishIInv DEF Next

-----------------------------------------------------------------------------
\* IInv holds in every reachable state.
THEOREM IInvHolds == Spec => []IInv
  BY InitIInv, NextIInv, PTL DEF Spec

\* PopTarget: while a member list is being built the text ends with a
\* comma or the list's "{", and with the brace only when every member asked
\* so far was an optional one left empty, so the params.pop() of input_type
\* and input_message removes a trailing comma, or the brace of a list whose
\* members were all omitted, never a key, a value or a "}".
THEOREM PopTargetHolds == Spec => []PopTarget
  BY IInvHolds, PTL DEF IInv

=============================================================================
