------------------------------ MODULE KrlParser ------------------------------
(***************************************************************************)
(* The parser of KRL (krl-parser/src/krl.ts, tdop.ts): operator precedence  *)
(* for expressions and event expressions, recursive descent for the rest.  *)
(*                                                                         *)
(* A text s is a sequence of tokens.  A few names stand for all names and   *)
(* other single tokens (no name is a keyword), "str" for all strings, "re"  *)
(* for all regular expressions, "2" for all numbers, one operator for those *)
(* of each binding power, two where it matters.                            *)
(*                                                                         *)
(* What a rule of the parser has read is a record: the tree, and the place  *)
(* after it, which is 0 once the parser has thrown (nothing can be read     *)
(* there).  A rule for a node starts it and adds part after part.           *)
(***************************************************************************)
EXTENDS Naturals, Sequences, SequencesExt, TLC

Node(kind, op, args) == [kind |-> kind, op |-> op, args |-> args]
none == Node("none", "", <<>>)
Names == {"a", "b"}

-----------------------------------------------------------------------------
(* The binding powers of the tokens.                                       *)

defInfix ==
  ("||" :> 20) @@ ("&&" :> 30) @@ ("==" :> 40) @@ ("+" :> 50) @@ ("-" :> 50) @@ ("*" :> 60)
defPrefix == ("-" :> 70) @@ ("not" :> 70)
lbp == defInfix @@ ("=>" :> 10) @@ ("." :> 80) @@ ("{" :> 80) @@ ("[" :> 80) @@ ("(" :> 90)

defInfixEventOperator == ("or" :> 20) @@ ("and" :> 30) @@ ("before" :> 40)
event_lbp == defInfixEventOperator @@ ("between" :> 50) @@ ("not" :> 50)
defVariableArityEventExpression == {"and", "or", "before"}
defAggregatorEventExpression == {"count", "repeat"}

Power(powers, token) == IF token \in DOMAIN powers THEN powers[token] ELSE 0

\* Tokens that are not of type SYMBOL.
Raw == {"(end)", "||", "&&", "==", "+", "-", "*", "=>", ".", "{", "}", "[", "]", "(", ")",
        ";", ":", ":=", "=", "|", ",", "2", "str", "re"}

-----------------------------------------------------------------------------
(* Reading.                                                                *)

Got(kind, op, i) == [tree |-> Node(kind, op, <<>>), at |-> i]
Throws == Got("error", "", 0)
Absent(i) == [tree |-> none, at |-> i]

advance(s, i) == IF i \in 1..Len(s) THEN s[i] ELSE "(end)"
chomp(s, i, token) == IF advance(s, i) = token THEN i + 1 ELSE 0
chompMaybe(s, i, token) == IF advance(s, i) = token THEN i + 1 ELSE i

\* r with a part more, and behind a token that follows.
Add(r, x) == [tree |-> [r.tree EXCEPT !.args = Append(@, x.tree)], at |-> x.at]
Then(s, r, Rule(_, _)) == Add(r, Rule(s, r.at))
Past(s, r, token) == [r EXCEPT !.at = chomp(s, @, token)]
PastMaybe(s, r, token) == [r EXCEPT !.at = chompMaybe(s, @, token)]

RECURSIVE expression(_, _, _), led(_, _, _), commaList(_, _), declarationList(_, _), actionList(_, _),
          identifierList(_, _), eventExpression(_, _, _), event_led(_, _, _), eventList(_, _),
          attributeMatches(_, _), postludeStatements(_, _), foreachList(_, _), ruleList(_, _),
          withExprBody(_, _), metaProperties(_, _), statementList(_, _)

chompIdentifier(s, i) == IF advance(s, i) \in Names THEN Got("word", s[i], i + 1) ELSE Throws

chompDomainIdentifier(s, i) ==
  IF {advance(s, i), advance(s, i + 2)} \subseteq Names /\ advance(s, i + 1) = ":"
  THEN Got("domainWord", "", i + 3) ELSE Throws

chompIdentifier_or_DomainIdentifier(s, i) ==
  IF advance(s, i + 1) = ":" THEN chompDomainIdentifier(s, i) ELSE chompIdentifier(s, i)

identifierRest(s, r) ==
  IF advance(s, r.at) = "," THEN identifierList(s, Past(s, r, ",")) ELSE r
identifierList(s, r) == identifierRest(s, Then(s, r, chompIdentifier))
identifiers(s, i) == identifierList(s, Got("ids", "", i))

anExpression(s, i) == expression(s, i, 0)
chompString(s, i) == IF advance(s, i) = "str" THEN expression(s, i, 0) ELSE Throws

\* An expression after a keyword, which may both be absent.
clause(s, i, keyword) == IF advance(s, i) = keyword THEN expression(s, i + 1, 0) ELSE Absent(i)
AddClause(s, r, keyword) == Add(r, clause(s, r.at, keyword))

setting(s, i) ==
  IF advance(s, i) = "setting" THEN Past(s, identifiers(s, chomp(s, i + 1, "(")), ")") ELSE Absent(i)

-----------------------------------------------------------------------------
(* Lists and declarations.                                                 *)

argument(s, e) ==
  IF e.tree.kind = "id" /\ advance(s, e.at) = "="
  THEN Then(s, Got("named", e.tree.op, e.at + 1), anExpression) ELSE e

\* Between brackets: arguments, an array, a map or parameters.
listItem(s, i, kind) ==
  CASE kind = "map" -> Then(s, Past(s, Then(s, Got("pair", "", i), chompString), ":"), anExpression)
    [] kind = "params" ->
         IF advance(s, i) \in Names THEN AddClause(s, Got("param", s[i], i + 1), "=") ELSE Throws
    [] kind = "args" -> argument(s, expression(s, i, 0))
    [] OTHER -> expression(s, i, 0)

closes(kind) == CASE kind = "array" -> "]" [] kind = "map" -> "}" [] OTHER -> ")"

commaRest(s, r) ==
  IF advance(s, r.at) = "," THEN commaList(s, Past(s, r, ",")) ELSE Past(s, r, closes(r.tree.kind))

\* A comma may end the list.
commaList(s, r) ==
  IF advance(s, r.at) = closes(r.tree.kind) THEN [r EXCEPT !.at = @ + 1]
  ELSE commaRest(s, Add(r, listItem(s, r.at, r.tree.kind)))

arguments(s, i) == commaList(s, Got("args", "", chomp(s, i, "(")))
parameters(s, i) == commaList(s, Got("params", "", chomp(s, i, "(")))

isDeclaration(s, i) == advance(s, i) \in Names /\ advance(s, i + 1) = "="

declaration(s, i) ==
  IF isDeclaration(s, i) THEN Then(s, Got("decl", s[i], i + 2), anExpression) ELSE Throws

declarationList(s, r) ==
  IF isDeclaration(s, r.at)
  THEN declarationList(s, PastMaybe(s, Then(s, r, declaration), ";")) ELSE r
declarations(s, i) == declarationList(s, Got("decls", "", i))

-----------------------------------------------------------------------------
(* Actions.                                                                *)

actionRest(s, r) == PastMaybe(s, Then(s, Then(s, r, arguments), setting), ";")

\* A label may come first.
actionOf(s, first) ==
  IF first.tree.kind = "word" /\ advance(s, first.at) = "=>"
  THEN Then(s, Got("action", first.tree.op, first.at + 1), chompIdentifier_or_DomainIdentifier)
  ELSE Add(Got("action", "", 0), first)

action(s, i) == actionRest(s, actionOf(s, chompIdentifier_or_DomainIdentifier(s, i)))

actionList(s, r) ==
  IF advance(s, r.at) = "}" \/ r.at = 0 THEN Past(s, r, "}") ELSE actionList(s, Then(s, r, action))

\* A block with a condition has actions.
filled(r) == IF r.tree.args[1] # none /\ Len(r.tree.args) = 2 THEN Throws ELSE r

listed(s, r, type, discriminant) ==
  filled(actionList(s, Past(s, Add([r EXCEPT !.tree.op = type], discriminant), "{")))

actionsOf(s, r) ==
  LET token == advance(s, r.at) IN
  CASE token \in {"every", "sample"} -> listed(s, r, token, Absent(r.at + 1))
    [] token = "choose" -> listed(s, r, token, expression(s, r.at + 1, 80))
    [] token \in Raw \union {"always", "fired", "notfired"} -> filled(Add(r, Absent(r.at)))
    [] OTHER -> Then(s, Add(r, Absent(r.at)), action)

\* every, sample or choose, or an action of its own; with a condition, or without.
ruleCondition(s, i) ==
  IF advance(s, i) = "if" THEN Past(s, Then(s, Got("block", "every", i + 1), anExpression), "then")
  ELSE Add(Got("block", "every", i), Absent(i))

actionBlock(s, i) == actionsOf(s, ruleCondition(s, i))

-----------------------------------------------------------------------------
(* The rules of the operators.                                             *)

withBody(s, i, kind) == Then(s, Past(s, Then(s, Got(kind, "", i), parameters), "{"), declarations)

functionResult(s, r) ==
  Past(s, PastMaybe(s, Then(s, PastMaybe(s, r, "return"), anExpression), ";"), "}")

defactionResult(s, r) ==
  IF advance(s, r.at) = "return" THEN Past(s, PastMaybe(s, AddClause(s, r, "return"), ";"), "}")
  ELSE Past(s, Add(r, Absent(r.at)), "}")

nud(s, i) ==
  LET token == advance(s, i) IN
  CASE token \in Names /\ advance(s, i + 1) = ":" ->
         [chompDomainIdentifier(s, i) EXCEPT !.tree.kind = "domainId"]
    [] token \in Names -> Got("id", token, i + 1)
    [] token \in {"str", "re"} -> Got(token, "", i + 1)
    [] token \in DOMAIN defPrefix ->
         Add(Got("prefix", token, 0), expression(s, i + 1, defPrefix[token]))
    [] token = "(" -> Past(s, expression(s, i + 1, 0), ")")
    [] token = "[" -> commaList(s, Got("array", "", i + 1))
    [] token = "{" -> commaList(s, Got("map", "", i + 1))
    [] token = "function" -> functionResult(s, withBody(s, i + 1, token))
    [] token = "defaction" -> defactionResult(s, Then(s, withBody(s, i + 1, token), actionBlock))
    [] OTHER -> Throws

\* A node whose first part is what stands to the left of its token.
On(left, kind, op) == Add(Got(kind, op, 0), [left EXCEPT !.at = @ + 1])

ledOf(s, left) ==
  LET token == advance(s, left.at) IN
  CASE token \in DOMAIN defInfix ->
         Add(On(left, "infix", token), expression(s, left.at + 1, defInfix[token]))
    [] token = "." -> Then(s, On(left, "dot", ""), chompIdentifier_or_DomainIdentifier)
    [] token = "{" -> Past(s, Then(s, On(left, "path", ""), anExpression), "}")
    [] token = "[" -> Past(s, Then(s, On(left, "index", ""), anExpression), "]")
    [] token = "(" -> Add(On(left, "call", ""), arguments(s, left.at))
    [] token = "=>" ->
         Then(s, Past(s, Add(On(left, "cond", ""), expression(s, left.at + 1, 10)), "|"), anExpression)

ledTooEager(s, left, rbp) ==  \* mutant: an operator takes its equals on the right
  IF left.at # 0 /\ rbp <= Power(lbp, advance(s, left.at)) /\ advance(s, left.at) \in DOMAIN lbp
  THEN led(s, ledOf(s, left), rbp) ELSE left

\* The loop of expression(): what follows belongs to the left if it binds stronger.
led(s, left, rbp) ==
  IF left.at # 0 /\ rbp < Power(lbp, advance(s, left.at))
  THEN led(s, ledOf(s, left), rbp) ELSE left

expression(s, i, rbp) == led(s, nud(s, i), rbp)

-----------------------------------------------------------------------------
(* Event expressions.                                                      *)

anEvent(s, i) == eventExpression(s, i, 0)

\* A name in front of a regular expression.
attributeMatches(s, r) ==
  IF advance(s, r.at) \in Names /\ advance(s, r.at + 1) = "re"
  THEN attributeMatches(s, Add(r, Then(s, Got("match", s[r.at], r.at + 1), anExpression))) ELSE r
matches(s, i) == attributeMatches(s, Got("matches", "", i))

whereFirst(r, where, set) == Add(Add(r, set), [where EXCEPT !.at = set.at])

\* where belongs after setting, but is also read before it.
conditions(s, r, where) ==
  IF where.tree = none THEN AddClause(s, Then(s, r, setting), "where")
  ELSE whereFirst(r, where, setting(s, where.at))

matched(s, r) == conditions(s, r, clause(s, r.at, "where"))

eventExpressionBase(s, i) ==
  IF advance(s, i) \notin Names THEN Throws
  ELSE matched(s, Then(s, Got("event", "", chompIdentifier(s, chompMaybe(s, i + 1, ":")).at), matches))

eventRest(s, r) == IF advance(s, r.at) = "," THEN eventList(s, Past(s, r, ",")) ELSE Past(s, r, ")")
eventList(s, r) == eventRest(s, Then(s, r, anEvent))

aggregated(s, r) ==
  IF advance(s, r.at) # "max" THEN r
  ELSE Add(r, Past(s, Then(s, Got("max", "", chomp(s, r.at + 1, "(")), identifiers), ")"))

event_nud(s, i) ==
  LET token == advance(s, i)
      open == chomp(s, i + 1, "(")
      openCounted == chomp(s, chomp(s, i + 1, "2"), "(") IN
  CASE token = "(" -> Past(s, eventExpression(s, i + 1, 0), ")")
    [] token = "any" -> eventList(s, Got("events", token, openCounted))
    [] token \in defVariableArityEventExpression -> eventList(s, Got("events", token, open))
    [] token \in defAggregatorEventExpression ->
         aggregated(s, Past(s, Then(s, Got("group", token, openCounted), eventExpressionBase), ")"))
    [] OTHER -> eventExpressionBase(s, i)

betweenEvents(s, r) ==
  Past(s, Then(s, Past(s, Then(s, Past(s, r, "("), anEvent), ","), anEvent), ")")

event_ledOf(s, left) ==
  LET token == advance(s, left.at) IN
  CASE token \in DOMAIN defInfixEventOperator ->
         Add(On(left, "events", token), eventExpression(s, left.at + 1, defInfixEventOperator[token]))
    [] token = "between" -> betweenEvents(s, On(left, "between", ""))
    [] token = "not" -> betweenEvents(s, Past(s, On(left, "notBetween", ""), "between"))

event_led(s, left, rbp) ==
  IF left.at # 0 /\ rbp < Power(event_lbp, advance(s, left.at))
  THEN event_led(s, event_ledOf(s, left), rbp) ELSE left

eventExpression(s, i, rbp) == event_led(s, event_nud(s, i), rbp)

-----------------------------------------------------------------------------
(* Statements of a postlude.                                               *)

pathExpression(s, i) ==
  IF advance(s, i) = "{" THEN Past(s, expression(s, i + 1, 0), "}") ELSE Absent(i)

\* raise and schedule: event with an expression for domain and type, or domain event type.
eventNamed(s, i, kind) ==
  IF advance(s, i) \in Names THEN Then(s, Got(kind, s[i], chomp(s, i + 1, "event")), anExpression)
  ELSE Then(s, Got(kind, "", chomp(s, i, "event")), anExpression)

raiseStatement(s, i) == AddClause(s, AddClause(s, eventNamed(s, i, "raise"), "for"), "attributes")

settingId(s, i) ==
  IF advance(s, i) = "setting" THEN Past(s, chompIdentifier(s, chomp(s, i + 1, "(")), ")") ELSE Absent(i)

scheduledTime(s, i) ==
  IF advance(s, i) \in {"at", "repeat"} THEN Then(s, Got(s[i], "", i + 1), anExpression) ELSE Throws

scheduleStatement(s, i) ==
  Then(s, AddClause(s, Then(s, eventNamed(s, i, "schedule"), scheduledTime), "attributes"), settingId)

postludeStatementCore(s, i) ==
  LET token == advance(s, i) IN
  CASE token = "clear" -> Then(s, Got("clear", "", chompDomainIdentifier(s, i + 1).at), pathExpression)
    [] token = "raise" -> raiseStatement(s, i + 1)
    [] token = "schedule" -> scheduleStatement(s, i + 1)
    [] token \in {"log", "error"} -> Then(s, Got(token, "info", chomp(s, i + 1, "info")), anExpression)
    [] token = "last" -> Got("last", "", i + 1)
    [] token \in Names /\ advance(s, i + 1) = ":" ->
         Then(s, Past(s, Then(s, Got("assign", "", chompDomainIdentifier(s, i).at), pathExpression), ":="),
              anExpression)
    [] OTHER -> declaration(s, i)

guarded(s, stmt) ==
  CASE advance(s, stmt.at) = "on" /\ advance(s, stmt.at + 1) = "final" ->
         Add(Got("guard", "on final", 0), [stmt EXCEPT !.at = @ + 2])
    [] advance(s, stmt.at) = "if" -> Then(s, On(stmt, "guard", "if"), anExpression)
    [] OTHER -> stmt

postludeStatement(s, i) == guarded(s, postludeStatementCore(s, i))

postludeStatements(s, r) ==
  IF advance(s, r.at) = "}" \/ r.at = 0 THEN Past(s, r, "}")
  ELSE postludeStatements(s, PastMaybe(s, Then(s, r, postludeStatement), ";"))

-----------------------------------------------------------------------------
(* Rules.                                                                  *)

within(s, r) ==
  IF advance(s, r.at) = "within" THEN Past(s, AddClause(s, r, "within"), "seconds") ELSE Add(r, Absent(r.at))

ruleSelect(s, i) ==
  CASE advance(s, i) # "select" -> Absent(i)
    [] advance(s, i + 1) = "when" -> within(s, Then(s, Got("select", "when", i + 2), anEvent))
    [] advance(s, i + 1) = "where" -> Then(s, Got("select", "where", i + 2), anExpression)
    [] OTHER -> Throws

foreachSetting(s, r) == IF advance(s, r.at) = "setting" THEN Then(s, r, setting) ELSE Throws
foreachList(s, r) ==
  IF advance(s, r.at) # "foreach" THEN r
  ELSE foreachList(s, Add(r, foreachSetting(s, Then(s, Got("foreach", "", r.at + 1), anExpression))))
foreachs(s, i) == foreachList(s, Got("foreachs", "", i))

\* pre { ... } and global { ... }, which may be absent.
declarationBlock(s, i, keyword) ==
  IF advance(s, i) = keyword THEN Past(s, declarations(s, chomp(s, i + 1, "{")), "}")
  ELSE Got("decls", "", i)
pre(s, i) == declarationBlock(s, i, "pre")
global(s, i) == declarationBlock(s, i, "global")

ruleActions(s, i) ==
  IF advance(s, i) \in Raw \union {"fired", "notfired", "else", "finally", "always"}
  THEN Absent(i) ELSE actionBlock(s, i)

AddStatements(s, r, keyword) ==
  Add(r, IF advance(s, r.at) = keyword
         THEN postludeStatements(s, Got("statements", "", chomp(s, r.at + 1, "{"))) ELSE Absent(r.at))

\* The parts of a postlude: fired, notfired, always.
postludeFrom(s, r, first, last) ==
  AddStatements(s, AddStatements(s, AddStatements(s, r, first), "else"), last)

firedFirst(r, first) == IF first = "notfired" THEN [r EXCEPT !.tree.args = <<@[2], @[1], @[3]>>] ELSE r

rulePostlude(s, i) ==
  LET token == advance(s, i)
      first == IF token = "always" THEN "fired" ELSE token
      last == IF token = "always" THEN token ELSE "finally" IN
  IF token \notin {"fired", "notfired", "always"} THEN Absent(i)
  ELSE firedFirst(postludeFrom(s, Got("postlude", "", i), first, last), first)

ruleBody(s, r) ==
  Past(s, Then(s, Then(s, Then(s, Then(s, Then(s, Past(s, r, "{"), ruleSelect), foreachs), pre),
                       ruleActions), rulePostlude), "}")

ruleHead(s, i) ==
  CASE advance(s, i) \notin Names -> Throws
    [] advance(s, i + 1) # "is" -> Got("rule", "active", i + 1)
    [] advance(s, i + 2) \in {"active", "inactive"} -> Got("rule", s[i + 2], i + 3)
    [] OTHER -> Throws

rulesetRule(s, i) == ruleBody(s, ruleHead(s, i + 1))

ruleList(s, r) == IF advance(s, r.at) = "rule" THEN ruleList(s, Then(s, r, rulesetRule)) ELSE r

-----------------------------------------------------------------------------
(* Rulesets.  The id of a ruleset is one name.                             *)

withExprRest(s, r) ==
  IF advance(s, r.at) = "and" \/ isDeclaration(s, r.at) THEN withExprBody(s, PastMaybe(s, r, "and")) ELSE r
withExprBody(s, r) == withExprRest(s, Then(s, r, declaration))

alias(s, i) == IF advance(s, i) = "alias" THEN chompIdentifier(s, i + 1) ELSE Absent(i)
with(s, i) == IF advance(s, i) = "with" THEN withExprBody(s, Got("with", "", i + 1)) ELSE Absent(i)

provides(s, i) ==
  IF advance(s, i) = "keys"
  THEN Then(s, Past(s, Then(s, Got("property", "provides", i + 1), identifiers), "to"), identifiers)
  ELSE Then(s, Got("property", "provides", i), identifiers)

rulesetMetaProperty(s, i) ==
  LET key == advance(s, i)
      id == chompIdentifier(s, i + 1).at IN
  CASE key = "name" -> Then(s, Got("property", key, i + 1), anExpression)
    [] key = "logging" /\ advance(s, i + 1) \in {"on", "off"} ->
         Add(Got("property", key, 0), Got("word", s[i + 1], i + 2))
    [] key \in {"key", "keys"} -> Then(s, Got("property", "keys", id), anExpression)
    [] key = "use" ->
         Then(s, Then(s, Got("property", key, chompIdentifier(s, chomp(s, i + 1, "module")).at), alias), with)
    [] key = "errors" -> Got("property", key, chompIdentifier(s, chomp(s, i + 1, "to")).at)
    [] key = "configure" -> Then(s, Got("property", key, chomp(s, i + 1, "using")), declarations)
    [] key \in {"provide", "provides"} -> provides(s, i + 1)
    [] key \in {"share", "shares"} -> Then(s, Got("property", "shares", i + 1), identifiers)
    [] OTHER -> Throws

metaProperties(s, r) ==
  IF advance(s, r.at) \in Raw THEN r ELSE metaProperties(s, Then(s, r, rulesetMetaProperty))

version(s, i) == IF advance(s, i) = "version" THEN chompString(s, i + 1) ELSE Absent(i)

rulesetMeta(s, i) ==
  IF advance(s, i) = "meta" THEN Past(s, metaProperties(s, Got("meta", "", chomp(s, i + 1, "{"))), "}")
  ELSE Absent(i)

ruleset(s, i) ==
  LET open == chomp(s, chompIdentifier(s, chomp(s, i, "ruleset")).at, "{") IN
  Past(s, ruleList(s, Then(s, Then(s, Then(s, Got("ruleset", "", open), version), rulesetMeta), global)), "}")

-----------------------------------------------------------------------------
(* A whole text: a ruleset, or declarations and expressions.               *)

statement(s, i) == IF isDeclaration(s, i) THEN declaration(s, i) ELSE expression(s, i, 0)

statementList(s, r) ==
  IF r.at \notin 1..Len(s) THEN r ELSE statementList(s, PastMaybe(s, Then(s, r, statement), ";"))

parse(s) == IF advance(s, 1) = "ruleset" THEN ruleset(s, 1) ELSE statementList(s, Got("program", "", 1))
=============================================================================
