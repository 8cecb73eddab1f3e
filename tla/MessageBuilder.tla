---------------------------- MODULE MessageBuilder ----------------------------
(***************************************************************************)
(* The schema-driven message constructor of cosmwasm-simulate             *)
(* (src/src/main.rs): input_message asks for the members of one message   *)
(* variant in declared order, input_type expands a member whose type is a *)
(* struct of the schema by one level, and to_json_item turns one operator *)
(* line into a "name":value, item.  The JSON text is built by appending   *)
(* to a String and popping its last character after each member list.     *)
(*                                                                         *)
(* The text is abstracted to a sequence of tokens: "{", "}", ",", a key    *)
(* "name": , a string literal (its characters between the quotes), and a *)
(* verbatim literal.  An operator line is a short sequence of characters: *)
(* "q" a double quote, "b" a backslash, "n" a newline, "a" any other.      *)
(*                                                                         *)
(* The schema is chosen in Init from every small schema: the type names  *)
(* are the primitive "string", a non-string primitive "u64", "Binary"     *)
(* (aliased to "string" in map_of_basetype), a struct "S" whose members   *)
(* are chosen too, and a struct "E" with no members.                      *)
(***************************************************************************)
EXTENDS Naturals, Sequences

CONSTANTS
    Chars,      \* characters a typed line may hold
    MaxLen,     \* longest line typed
    MaxFields   \* most members of a message variant or of the struct S

ASSUME BuilderAssumption ==
    /\ Chars \subseteq {"a", "q", "b", "n"}
    /\ MaxLen \in Nat
    /\ MaxFields \in Nat \ {0}

Lines == UNION {[1..k -> Chars] : k \in 0..MaxLen}

\* The pieces of a sequence of sequences joined in order, as successive
\* push_str calls join them (a recursive function, not an operator, so
\* that the module stays within the prover's reach).
Concat(ss) ==
    LET f[i \in 0..Len(ss)] == IF i = 0 THEN << >> ELSE f[i - 1] \o ss[i]
    IN  f[Len(ss)]

\* String::pop on the text: the last token removed.
Pop(s) == SubSeq(s, 1, Len(s) - 1)

TypeNames == {"string", "u64", "Binary", "S", "E"}

\* A member type as Member's member_def prints it: a name and the '?' mark.
Field == [base : TypeNames, opt : BOOLEAN]

FieldSeqs(lo) == UNION {[1..k -> Field] : k \in lo..MaxFields}

\* One token of the JSON text.  src keeps the line a string literal was made
\* from, for the round-trip property.
Tok(k) == [tok |-> k, name |-> 0, text |-> <<>>, src |-> <<>>]
Key(n) == [tok |-> "key", name |-> n, text |-> <<>>, src |-> <<>>]
Str(t, l) == [tok |-> "str", name |-> 0, text |-> t, src |-> l]
LB == Tok("{")
RB == Tok("}")
Comma == Tok(",")

\* The name of the enum wrapper key (the variant's name).
Wrapper == 0

VARIABLES
    msg,      \* members of the chosen message variant
    isEnum,   \* map_of_enum: the group is a tagged union
    structS,  \* map_of_struct["S"]
    out,      \* the JSON text built so far
    j,        \* the member of the variant being asked for
    m,        \* the member of S being asked for
    pc,       \* "field", "member" or "done"
    given     \* ghost: the lines typed for each member of the variant

vars == <<msg, isEnum, structS, out, j, m, pc, given>>

-----------------------------------------------------------------------------
\* map_of_basetype lookup, falling back to the name itself.
Resolve(t) == IF t = "Binary" THEN "string" ELSE t

\* check_is_need_slash: only the "string" primitive is quoted.
NeedSlash(t) == t = "string"

\* Mutant of Escape: the second replace is missing and double quotes are
\* copied as they are.
EscapeNoQuote(l) ==
    Concat([i \in DOMAIN l |-> IF l[i] = "n" THEN << >> ELSE <<l[i]>>])

\* data.replace('\n', "").replace('"', "\\\""): newlines dropped, every
\* double quote preceded by a backslash.
Escape(l) ==
    Concat([i \in DOMAIN l |->
        CASE l[i] = "n" -> << >>
          [] l[i] = "q" -> <<"b", "q">>
          [] OTHER      -> <<l[i]>>])

\* A line pushed verbatim: nothing if empty, else the literal the operator
\* typed (spec 4.2: assumed to be a valid JSON literal).
Verbatim(l) == IF l = << >> THEN << >> ELSE <<Tok("lit")>>

\* Mutant of Item: the trailing params.push(',') is missing.
ItemNoComma(n, f, l) ==
    IF l = << >> /\ f.opt
    THEN << >>
    ELSE <<Key(n)>>
         \o (IF NeedSlash(Resolve(f.base)) THEN <<Str(Escape(l), l)>>
                                          ELSE Verbatim(l))

\* to_json_item: an empty line for an optional member emits nothing;
\* otherwise "name": then the quoted or verbatim line, then a comma.
Item(n, f, l) ==
    IF l = << >> /\ f.opt
    THEN << >>
    ELSE <<Key(n)>>
         \o (IF NeedSlash(Resolve(f.base)) THEN <<Str(Escape(l), l)>>
                                          ELSE Verbatim(l))
         \o <<Comma>>

\* input_type looks the printed type name up in map_of_struct: an optional
\* member "S?" or "E?" is not found and is asked for as one line.
IsStruct(f) == ~f.opt /\ f.base \in {"S", "E"}

-----------------------------------------------------------------------------
TypeOK ==
    /\ msg \in FieldSeqs(0)
    /\ isEnum \in BOOLEAN
    /\ structS \in FieldSeqs(1)
    /\ out \in Seq([tok : {"{", "}", ",", "key", "str", "lit"}, name : Nat,
                    text : Seq(Chars \cup {"b"}), src : Seq(Chars)])
    /\ j \in 1..MaxFields + 1
    /\ m \in 0..MaxFields + 1
    /\ pc \in {"field", "member", "done"}
    /\ given \in [1..MaxFields -> Seq(Lines)]

\* input_message starts with "{", and for an enum with "{"name":{".
Init ==
    /\ msg \in FieldSeqs(0)
    /\ isEnum \in BOOLEAN
    /\ structS \in FieldSeqs(1)
    /\ out = IF isEnum THEN <<LB, Key(Wrapper), LB>> ELSE <<LB>>
    /\ j = 1
    /\ m = 0
    /\ pc = "field"
    /\ given = [k \in 1..MaxFields |-> << >>]

\* input_type of a member that is not a struct: to_json_item.
PromptScalar ==
    /\ pc = "field"
    /\ j <= Len(msg)
    /\ ~IsStruct(msg[j])
    /\ \E l \in Lines :
        /\ out' = out \o Item(j, msg[j], l)
        /\ given' = [given EXCEPT ![j] = <<l>>]
    /\ j' = j + 1
    /\ UNCHANGED <<msg, isEnum, structS, m, pc>>

\* input_type of a struct with no members: "name": then the line read
\* straight into params, then a comma.
PromptEmptyStruct ==
    /\ pc = "field"
    /\ j <= Len(msg)
    /\ IsStruct(msg[j])
    /\ msg[j].base = "E"
    /\ \E l \in Lines :
        /\ out' = out \o <<Key(j)>> \o Verbatim(l) \o <<Comma>>
        /\ given' = [given EXCEPT ![j] = <<l>>]
    /\ j' = j + 1
    /\ UNCHANGED <<msg, isEnum, structS, m, pc>>

\* input_type of a struct with members: "name":{ and then its members.
EnterStruct ==
    /\ pc = "field"
    /\ j <= Len(msg)
    /\ IsStruct(msg[j])
    /\ msg[j].base = "S"
    /\ out' = out \o <<Key(j), LB>>
    /\ m' = 1
    /\ pc' = "member"
    /\ UNCHANGED <<msg, isEnum, structS, j, given>>

\* One member of the struct: to_json_item, whatever its type.
PromptMember ==
    /\ pc = "member"
    /\ m <= Len(structS)
    /\ \E l \in Lines :
        /\ out' = out \o Item(m, structS[m], l)
        /\ given' = [given EXCEPT ![j] = Append(@, l)]
    /\ m' = m + 1
    /\ UNCHANGED <<msg, isEnum, structS, j, pc>>

\* Mutant of CloseStruct: the trailing comma of the last member is kept.
CloseStructNoPop ==
    /\ pc = "member"
    /\ m > Len(structS)
    /\ out' = out \o <<RB, Comma>>
    /\ j' = j + 1
    /\ pc' = "field"
    /\ UNCHANGED <<msg, isEnum, structS, m, given>>

\* After the members: pop the last character, then "}" and ",".
CloseStruct ==
    /\ pc = "member"
    /\ m > Len(structS)
    /\ out' = Pop(out) \o <<RB, Comma>>
    /\ j' = j + 1
    /\ pc' = "field"
    /\ UNCHANGED <<msg, isEnum, structS, m, given>>

\* After the variant's members: pop the last character if there were
\* members, then "}", and a second "}" for an enum.
Finish ==
    /\ pc = "field"
    /\ j > Len(msg)
    /\ out' = (IF Len(msg) > 0 THEN Pop(out) ELSE out)
              \o <<RB>> \o (IF isEnum THEN <<RB>> ELSE << >>)
    /\ pc' = "done"
    /\ UNCHANGED <<msg, isEnum, structS, j, m, given>>

Next ==
    \/ PromptScalar \/ PromptEmptyStruct \/ EnterStruct
    \/ PromptMember \/ CloseStruct \/ Finish

Spec == Init /\ [][Next]_vars

-----------------------------------------------------------------------------
(* Reference definitions: what a JSON reader makes of the text, and the    *)
(* message the operator's lines stand for, built by joining member lists  *)
(* with commas instead of appending and popping.                          *)

\* A JSON reader over the tokens: the state is what may come next and the
\* nesting depth; a string literal is accepted only if its text decodes.
DecStep(s, c) ==
    CASE ~s.ok         -> s
      [] s.esc /\ c \in {"q", "b"} -> [ok |-> TRUE, esc |-> FALSE,
                                       acc |-> Append(s.acc, c)]
      [] s.esc         -> [s EXCEPT !.ok = FALSE]
      [] c = "b"       -> [s EXCEPT !.esc = TRUE]
      [] c \in {"q", "n"} -> [s EXCEPT !.ok = FALSE]
      [] OTHER         -> [s EXCEPT !.acc = Append(@, c)]

\* Decoding the characters between two quotes: a backslash must be followed
\* by a quote or a backslash, and a bare quote or newline is not allowed.
Decode(t) ==
    LET f[i \in 0..Len(t)] ==
          IF i = 0 THEN [ok |-> TRUE, esc |-> FALSE, acc |-> << >>]
                   ELSE DecStep(f[i - 1], t[i])
    IN  f[Len(t)]

ValidStr(t) == Decode(t).ok /\ ~Decode(t).esc

JStep(s, x) ==
    CASE s.st = "val" /\ x.tok = "{"   -> [st |-> "keyOrClose", d |-> s.d + 1]
      [] s.st = "val" /\ x.tok = "lit" -> [s EXCEPT !.st = "after"]
      [] s.st = "val" /\ x.tok = "str" /\ ValidStr(x.text)
                                       -> [s EXCEPT !.st = "after"]
      [] s.st \in {"keyOrClose", "key"} /\ x.tok = "key"
                                       -> [s EXCEPT !.st = "val"]
      [] s.st \in {"keyOrClose", "after"} /\ x.tok = "}" /\ s.d > 0
                                       -> [st |-> "after", d |-> s.d - 1]
      [] s.st = "after" /\ x.tok = "," /\ s.d > 0
                                       -> [s EXCEPT !.st = "key"]
      [] OTHER                         -> [s EXCEPT !.st = "bad"]

ValidJson(t) ==
    LET f[i \in 0..Len(t)] ==
          IF i = 0 THEN [st |-> "val", d |-> 0] ELSE JStep(f[i - 1], t[i])
    IN  f[Len(t)] = [st |-> "after", d |-> 0]

\* Reference encoder of a string value: quote and backslash escaped, the
\* newline the operator's Enter leaves dropped.
JsonEscape(l) ==
    Concat([i \in DOMAIN l |->
        CASE l[i] = "n"          -> << >>
          [] l[i] \in {"q", "b"} -> <<"b", l[i]>>
          [] OTHER               -> <<l[i]>>])

StripNewlines(l) == SelectSeq(l, LAMBDA c : c # "n")

Omitted(f, l) == l = << >> /\ f.opt

RefValue(f, l) ==
    IF NeedSlash(Resolve(f.base)) THEN <<Str(JsonEscape(l), l)>> ELSE Verbatim(l)

RefEntry(n, f, l) == IF Omitted(f, l) THEN << >> ELSE <<Key(n)>> \o RefValue(f, l)

\* An object: its non-omitted entries separated by commas, between braces.
Object(es) ==
    LET ne == SelectSeq(es, LAMBDA e : e # << >>)
    IN  <<LB>> \o Concat([i \in DOMAIN ne |->
                    IF i = 1 THEN ne[i] ELSE <<Comma>> \o ne[i]]) \o <<RB>>

IsObjectMember(f) == IsStruct(f) /\ f.base = "S"

RefField(n, f, g) ==
    IF IsObjectMember(f)
    THEN <<Key(n)>> \o Object([i \in DOMAIN structS |->
                                 RefEntry(i, structS[i], g[i])])
    ELSE RefEntry(n, f, g[1])

RefMessage ==
    LET body == Object([k \in DOMAIN msg |-> RefField(k, msg[k], given[k])])
    IN  IF isEnum THEN <<LB, Key(Wrapper)>> \o body \o <<RB>> ELSE body

\* Every line the operator left empty was for an optional member or a
\* string (spec 4.2: a line for any other type is a JSON literal).
Needed(f, l) == ~f.opt /\ ~NeedSlash(Resolve(f.base)) => l # << >>

Filled ==
    \A k \in DOMAIN msg :
        IF IsObjectMember(msg[k])
        THEN \A i \in DOMAIN structS : Needed(structS[i], given[k][i])
        ELSE Needed(msg[k], given[k][1])

\* Some object of the message had all of its members omitted.
SomeObjectEmpty ==
    \/ Len(msg) > 0 /\ \A k \in DOMAIN msg :
                          ~IsObjectMember(msg[k]) /\ Omitted(msg[k], given[k][1])
    \/ \E k \in DOMAIN msg :
          IsObjectMember(msg[k])
          /\ \A i \in DOMAIN structS : Omitted(structS[i], given[k][i])

-----------------------------------------------------------------------------
\* input_message builds by appending "name":value, items and popping the
\* last character of each member list (the trailing comma), at the top and
\* inside input_type: when no object was left empty by omitted optional
\* members, the finished text is exactly the reference message of the
\* lines typed, keys in declared order, separators and braces in place.
MatchesReference ==
    pc = "done" /\ Filled /\ ~SomeObjectEmpty => out = RefMessage

\* to_json_item's escaping: every string literal of the text decodes, as a
\* JSON reader reads it, to the line the operator typed without newlines.
StringsRoundTrip ==
    \A i \in DOMAIN out :
        out[i].tok = "str" =>
            /\ ValidStr(out[i].text)
            /\ Decode(out[i].text).acc = StripNewlines(out[i].src)

\* The params.pop() after a member list (input_type, input_message) removes
\* one character, meant to be the trailing comma of the last item.  While
\* a member list is being built, the text always ends with a comma or with
\* the list's opening brace, and with the brace only when every member
\* asked for so far was an optional one left empty: the pop never cuts
\* into a key, a value or a closing brace.
PopTarget ==
    pc \in {"field", "member"} =>
        /\ out # << >>
        /\ out[Len(out)] \in {LB, Comma}
        /\ out[Len(out)] = LB =>
              IF pc = "member"
              THEN \A i \in 1..m - 1 : Omitted(structS[i], given[j][i])
              ELSE \A k \in 1..j - 1 : Omitted(msg[k], given[k][1])

\* Spec section 8: the message input_message returns is JSON, also when the
\* operator leaves every optional member of an object empty and the pop
\* after the member list removes the object's "{" instead of a comma.
OmissionKeepsJsonValid ==
    pc = "done" /\ Filled => ValidJson(out)

=============================================================================
