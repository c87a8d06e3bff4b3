---------------------------- MODULE KrlGenerator ----------------------------
(***************************************************************************)
(* The generator that writes a tree of KRL back as text (krl-generator/src), *)
(* as a pretty printer runs it, and the author who wrote the program.       *)
(* Layout and comments are left out.                                       *)
(***************************************************************************)
EXTENDS KrlParser

CONSTANTS Expressions, Events, Programs  \* the trees of the texts that are tried

VARIABLES
  source,  \* the tree of a program
  text,    \* the program as it is written
  writer   \* who wrote it

vars == <<source, text, writer>>

isInfix(t) == t.kind = "events" /\ t.op \in DOMAIN defInfixEventOperator /\ Len(t.args) = 2

-----------------------------------------------------------------------------
(* How a node is written where its parts have been written: a part that is  *)
(* absent is <<>>.  Where KRL leaves a choice, lavish takes what is longer. *)

If(condition, s) == IF condition THEN s ELSE <<>>
\* The parts from the j-th on, between commas.
List(parts, j) == FlattenSeq([k \in 1..(Len(parts) - j + 1) |-> If(k > 1, <<",">>) \o parts[k + j - 1]])
fmtArgs(parts, j) == <<"(">> \o List(parts, j) \o <<")">>
Braces(s) == <<"{">> \o s \o <<"}">>
Clause(keyword, s) == If(s # <<>>, <<keyword>> \o s)
Setting(s) == If(s # <<>>, <<"setting", "(">> \o s \o <<")">>)
\* Each part followed by a semicolon.
Ended(parts) == FlattenSeq([k \in DOMAIN parts |-> parts[k] \o <<";">>])
From(parts, j) == FlattenSeq(SubSeq(parts, j, Len(parts)))

\* EventOperator.js and the other files for events.
SpelledEvent(t, parts, lavish) ==
  CASE isInfix(t) -> parts[1] \o <<t.op>> \o parts[2]
    [] t.kind = "between" -> parts[1] \o <<"between">> \o fmtArgs(parts, 2)
    [] t.kind = "notBetween" -> parts[1] \o <<"not", "between">> \o fmtArgs(parts, 2)
    [] t.kind = "events" /\ ~isInfix(t) ->
         (IF t.op = "any" THEN <<t.op, "2">> ELSE <<t.op>>) \o fmtArgs(parts, 1)
    [] t.kind = "group" -> <<t.op, "2", "(">> \o parts[1] \o <<")">> \o From(parts, 2)
    [] t.kind = "max" -> <<"max">> \o fmtArgs(parts, 1)
    [] t.kind = "matches" -> FlattenSeq(parts)
    [] t.kind = "match" -> <<t.op>> \o parts[1]
    [] t.kind = "event" ->
         <<"a">> \o If(lavish, <<":">>) \o <<"b">> \o parts[1] \o Setting(parts[2])
         \o Clause("where", parts[3])

SpelledExpression(t, parts, lavish) ==
  CASE t.kind = "id" -> <<t.op>>
    [] t.kind = "domainId" -> <<"a", ":", "b">>
    [] t.kind \in {"str", "re"} -> <<t.kind>>
    [] t.kind = "prefix" -> <<t.op>> \o parts[1]
    [] t.kind = "infix" -> parts[1] \o <<t.op>> \o parts[2]
    [] t.kind = "cond" -> parts[1] \o <<"=>">> \o parts[2] \o <<"|">> \o parts[3]
    [] t.kind = "dot" -> parts[1] \o <<".">> \o parts[2]
    [] t.kind = "path" -> parts[1] \o Braces(parts[2])
    [] t.kind = "index" -> parts[1] \o <<"[">> \o parts[2] \o <<"]">>
    [] t.kind = "call" -> parts[1] \o parts[2]
    [] t.kind \in {"args", "params"} ->
         <<"(">> \o List(parts, 1) \o If(lavish /\ parts # <<>>, <<",">>) \o <<")">>
    [] t.kind = "named" -> <<t.op, "=">> \o parts[1]
    [] t.kind = "array" -> <<"[">> \o List(parts, 1) \o <<"]">>
    [] t.kind = "map" -> Braces(List(parts, 1))
    [] t.kind = "pair" -> parts[1] \o <<":">> \o parts[2]
    [] t.kind = "param" -> <<t.op>> \o Clause("=", parts[1])
    [] t.kind = "function" ->
         <<"function">> \o parts[1] \o Braces(parts[2] \o If(~lavish, <<"return">>) \o parts[3])
    [] t.kind = "defaction" ->
         <<"defaction">> \o parts[1] \o Braces(parts[2] \o parts[3] \o Clause("return", parts[4]))

SpelledStatement(t, parts, lavish) ==
  CASE t.kind = "decl" -> <<t.op, "=">> \o parts[1]
    [] t.kind = "decls" -> IF lavish THEN Ended(parts) ELSE FlattenSeq(parts)
    [] t.kind = "statements" -> Braces(IF lavish THEN Ended(parts) ELSE FlattenSeq(parts))
    [] t.kind = "assign" ->
         <<"a", ":", "b">> \o If(parts[1] # <<>>, Braces(parts[1])) \o <<":=">> \o parts[2]
    [] t.kind = "clear" -> <<"clear", "a", ":", "b">> \o If(parts[1] # <<>>, Braces(parts[1]))
    [] t.kind = "raise" ->
         <<"raise">> \o If(t.op # "", <<t.op>>) \o <<"event">> \o parts[1]
         \o Clause("for", parts[2]) \o Clause("attributes", parts[3])
    [] t.kind = "schedule" ->
         <<"schedule">> \o If(t.op # "", <<t.op>>) \o <<"event">> \o parts[1] \o parts[2]
         \o Clause("attributes", parts[3]) \o Setting(parts[4])
    [] t.kind \in {"at", "repeat"} -> <<t.kind>> \o parts[1]
    [] t.kind \in {"log", "error"} -> <<t.kind, t.op>> \o parts[1]
    [] t.kind = "last" -> <<"last">>
    [] t.kind = "guard" -> parts[1] \o (IF t.op = "if" THEN <<"if">> \o parts[2] ELSE <<"on", "final">>)
    [] t.kind = "action" ->
         If(t.op # "", <<t.op, "=>">>) \o parts[1] \o parts[2] \o Setting(parts[3])
         \o If(lavish, <<";">>)
    [] t.kind = "block" ->
         If(parts[1] # <<>>, <<"if">> \o parts[1] \o <<"then">>)
         \o (IF t.op = "every" /\ Len(parts) = 3 /\ ~lavish THEN parts[3]
             ELSE <<t.op>> \o parts[2] \o Braces(From(parts, 3)))

\* notfired may come first, followed by what fired does.
SpelledPostlude(parts, notfiredFirst) ==
  CASE parts[1] = <<>> /\ parts[2] = <<>> -> <<"always">> \o parts[3]
    [] parts[2] # <<>> /\ (parts[1] = <<>> \/ notfiredFirst) ->
         <<"notfired">> \o parts[2] \o Clause("else", parts[1]) \o Clause("finally", parts[3])
    [] OTHER -> <<"fired">> \o parts[1] \o Clause("else", parts[2]) \o Clause("finally", parts[3])

SpelledProperty(t, parts, lavish) ==
  CASE t.op \in {"name", "logging"} -> <<t.op>> \o parts[1]
    [] t.op = "keys" -> <<IF lavish THEN "keys" ELSE "key", "a">> \o parts[1]
    [] t.op = "use" -> <<"use", "module", "a">> \o Clause("alias", parts[1]) \o Clause("with", parts[2])
    [] t.op = "errors" -> <<"errors", "to", "a">>
    [] t.op = "configure" -> <<"configure", "using">> \o parts[1]
    [] t.op = "shares" -> <<IF lavish THEN "shares" ELSE "share">> \o parts[1]
    [] t.op = "provides" ->
         <<IF lavish THEN "provides" ELSE "provide">>
         \o (IF Len(parts) = 1 THEN parts[1] ELSE <<"keys">> \o parts[1] \o <<"to">> \o parts[2])

SpelledRuleset(t, parts, lavish) ==
  CASE t.kind = "select" -> <<"select", t.op>> \o parts[1]
         \o If(t.op = "when" /\ parts[Len(parts)] # <<>>, <<"within">> \o parts[Len(parts)] \o <<"seconds">>)
    [] t.kind = "foreachs" -> FlattenSeq(parts)
    [] t.kind = "foreach" -> <<"foreach">> \o parts[1] \o Setting(parts[2])
    [] t.kind = "rule" ->
         <<"rule", "a">> \o If(t.op # "active" \/ lavish, <<"is", t.op>>)
         \o Braces(parts[1] \o parts[2] \o If(parts[3] # <<>> \/ lavish, <<"pre">> \o Braces(parts[3]))
                   \o parts[4] \o parts[5])
    [] t.kind = "postlude" -> SpelledPostlude(parts, lavish)
    [] t.kind = "with" -> FlattenSeq([k \in DOMAIN parts |-> If(k > 1 /\ lavish, <<"and">>) \o parts[k]])
    [] t.kind = "property" -> SpelledProperty(t, parts, lavish)
    [] t.kind = "meta" -> <<"meta">> \o Braces(FlattenSeq(parts))
    [] t.kind = "ruleset" ->
         <<"ruleset", "a">>
         \o Braces(Clause("version", parts[1]) \o parts[2]
                   \o If(parts[3] # <<>> \/ lavish, <<"global">> \o Braces(parts[3])) \o From(parts, 4))

Exprs == {"id", "domainId", "str", "prefix", "infix", "cond", "dot", "path", "index", "call",
          "array", "map", "function", "defaction"}
EventKinds == {"event", "events", "between", "notBetween", "group"}
Lists == {"args", "params", "named", "pair", "param", "re"}

Spelled(t, parts, lavish) ==
  CASE t.kind = "none" -> <<>>
    [] t.kind \in {"word", "domainWord"} -> IF t.kind = "word" THEN <<t.op>> ELSE <<"a", ":", "b">>
    [] t.kind = "ids" -> List(parts, 1)
    [] t.kind = "program" -> Ended(parts)
    [] t.kind \in Exprs \union Lists -> SpelledExpression(t, parts, lavish)
    [] t.kind \in EventKinds \union {"max", "matches", "match"} -> SpelledEvent(t, parts, lavish)
    [] t.kind \in {"select", "foreachs", "foreach", "rule", "postlude", "with", "property", "meta",
                   "ruleset"} -> SpelledRuleset(t, parts, lavish)
    [] OTHER -> SpelledStatement(t, parts, lavish)

Group(s) == <<"(">> \o s \o <<")">>

-----------------------------------------------------------------------------
(* The generator.                                                          *)

BracketsNone(t, k) == FALSE  \* mutant: operands are written as they are

\* InfixOperator.js and EventOperator.js: the parts that are put in parentheses.
Brackets(t, k) ==
  \/ t.kind = "infix" /\ t.args[k].kind = "infix" /\ t.args[k].op # t.op
  \/ isInfix(t) /\ isInfix(t.args[k])

\* Function.js and DefAction.js end each declaration; those of blocks stand on lines.
IsBody(t, k) == t.kind \in {"function", "defaction"} /\ k = 2

\* Where the generator has choices of its own.
Generated(t, parts) ==
  CASE t.kind = "program" -> FlattenSeq(parts)
    [] t.kind = "params" -> SpelledExpression(t, parts, \E k \in DOMAIN parts : Len(parts[k]) > 1)
    [] t.kind = "args" ->
         SpelledExpression(t, parts, Cardinality({k \in DOMAIN parts : t.args[k].kind = "named"}) > 1)
    [] t.kind = "function" -> <<"function">> \o parts[1] \o Braces(parts[2] \o parts[3] \o <<";">>)
    [] t.kind = "defaction" ->
         <<"defaction">> \o parts[1]
         \o Braces(parts[2] \o parts[3] \o If(parts[4] # <<>>, <<"return">> \o parts[4] \o <<";">>))
    [] t.kind = "statements" -> Braces(FlattenSeq([k \in DOMAIN parts |-> If(k > 1, <<";">>) \o parts[k]]))
    [] t.kind = "block" /\ t.op = "every" /\ Len(parts) < 4 ->
         If(parts[1] # <<>>, <<"if">> \o parts[1] \o <<"then">>) \o From(parts, 3)
    [] t.kind = "postlude" ->
         IF parts[1] # <<>> THEN SpelledPostlude(parts, FALSE) ELSE Clause("always", parts[3])
    [] t.kind \in {"action", "block", "with"} \/ (t.kind = "property" /\ t.op # "keys") -> Spelled(t, parts, TRUE)
    [] OTHER -> Spelled(t, parts, FALSE)

RECURSIVE generate(_)

generate(t) == Generated(t, [k \in DOMAIN t.args |->
  IF IsBody(t, k) THEN Ended([j \in DOMAIN t.args[k].args |-> generate(t.args[k].args[j])])
  ELSE IF Brackets(t, k) THEN Group(generate(t.args[k])) ELSE generate(t.args[k])])

-----------------------------------------------------------------------------
(* The grammar, read without the parser's loop: each operator has a level,  *)
(* operators of one level are read from the left, and what a place does not *)
(* admit is written in parentheses there.                                  *)

RECURSIVE Level(_)

Level(t) ==
  CASE t.kind = "infix" -> defInfix[t.op]
    [] t.kind = "cond" -> 10
    [] t.kind = "prefix" -> 70
    [] t.kind \in {"dot", "path", "index"} -> 80
    [] t.kind = "call" /\ Level(t.args[1]) = 80 -> 80
    [] isInfix(t) -> defInfixEventOperator[t.op]
    [] t.kind \in {"between", "notBetween"} -> 50
    [] OTHER -> 100

\* The level that the k-th part must have.
Admits(t, k) ==
  CASE t.kind = "infix" \/ isInfix(t) -> IF k = 1 THEN Level(t) ELSE Level(t) + 1
    [] t.kind = "cond" -> IF k = 3 THEN 0 ELSE 11
    [] t.kind = "prefix" -> 70
    [] t.kind \in {"dot", "path", "index", "call"} /\ k = 1 -> 80
    [] t.kind \in {"between", "notBetween"} /\ k = 1 -> 50
    [] t.kind = "block" /\ t.op = "choose" /\ k = 2 -> 81
    [] OTHER -> 0

\* Where parentheses may stand although nothing needs them.
MayGroup(t, k) ==
  /\ t.args[k].kind \in Exprs \union EventKinds
  /\ t.kind \notin {"group", "ruleset"} /\ ~(t.kind = "pair" /\ k = 1)

RECURSIVE Written(_, _)

\* t as its author writes it: as short as can be, or with all that may stand.
Written(t, lavish) == Spelled(t, [k \in DOMAIN t.args |->
  LET part == Written(t.args[k], lavish) IN
  IF Level(t.args[k]) < Admits(t, k) \/ (lavish /\ MayGroup(t, k)) THEN Group(part) ELSE part], lavish)

\* Parentheses that the program needs and the generator leaves out: all but those
\* around an operand of an operator that has another operator.
Loses(t, k) ==
  /\ Level(t.args[k]) < Admits(t, k)
  /\ ~isInfix(t)
  /\ t.kind = "infix" => t.args[k].kind = "cond" \/ t.args[k].op = t.op

RECURSIVE Survives(_)

\* Also lost: a notfired without fired; the end of a statement that the next one
\* continues; an action block without actions before a return.
Survives(t) ==
  /\ \A k \in DOMAIN t.args : ~Loses(t, k) /\ Survives(t.args[k])
  /\ t.kind = "postlude" => t.args[1] # none \/ t.args[2] = none
  /\ t.kind = "program" => \A k \in 2..Len(t.args) : Head(generate(t.args[k])) \notin DOMAIN lbp
  /\ t.kind = "defaction" => t.args[4] = none \/ Len(t.args[3].args) > 2 \/ t.args[3].op # "every"

-----------------------------------------------------------------------------
(* A program is written, by its author or by the generator, and then read.  *)

\* parseCore: the whole text is what the entry expects.
whole(r) == IF r.at = Len(text) + 1 THEN r.tree ELSE Throws.tree
parseCore ==
  whole(CASE source.kind \in Exprs -> anExpression(text, 1)
          [] source.kind \in EventKinds -> anEvent(text, 1)
          [] OTHER -> parse(text))

Init ==
  /\ source \in Expressions \union Events \union Programs
  /\ text = <<>> /\ writer = "nobody"

Write(lavish) ==
  /\ writer = "nobody"
  /\ text' = Written(source, lavish)
  /\ writer' = "author"
  /\ UNCHANGED source

\* The pretty printer of krl-generator/README.md: the tree is what the parser read.
format ==
  /\ writer = "author"
  /\ text' = generate(source)
  /\ writer' = "generator"
  /\ UNCHANGED source

Next == format \/ \E lavish \in BOOLEAN : Write(lavish)

Spec == Init /\ [][Next]_vars

-----------------------------------------------------------------------------
\* The parser reads a program as its author means it: by the levels of the
\* operators, from the left, each clause with the statement that it follows;
\* semicolons, keywords, commas and parentheses that nothing needs change nothing.
ReadsAsWritten == writer = "author" => parseCore = source

\* Formatting leaves the meaning of exactly those programs alone in which the
\* generator keeps what is needed; the others are read differently afterwards, or
\* not at all.
FormattingKeepsMeaning ==
  writer = "generator" => (Survives(source) <=> parseCore = source)
=============================================================================
