--------------------------- MODULE MCKrlGenerator ---------------------------
(* All expressions of two levels over one name and some of three levels; the    *)
(* event expressions of two levels over an event with and without a where; every *)
(* statement, action, rule and ruleset with each of its parts present and absent. *)
EXTENDS KrlGenerator

a == Node("id", "a", <<>>)
str == Node("str", "", <<>>)
word == Node("word", "a", <<>>)
ids == Node("ids", "", <<word>>)
OptIds == {none, Node("ids", "", <<word, word>>)}
Args(items) == Node("args", "", items)
Decls(items) == Node("decls", "", items)
Decl(e) == Node("decl", "b", <<e>>)
NoParams == Node("params", "", <<>>)

-----------------------------------------------------------------------------
\* Expressions with parts from S, those with three parts from T.
Grown(S, T) ==
  {Node("infix", op, <<l, r>>) : op \in {"+", "-", "*"}, l \in S, r \in S}
  \union {Node("prefix", op, <<e>>) : op \in {"-", "not"}, e \in S}
  \union {Node("cond", "", <<e, f, g>>) : e \in T, f \in T, g \in T}
  \union {Node("dot", "", <<e, word>>) : e \in S}
  \union {Node(kind, "", <<e, f>>) : kind \in {"path", "index"}, e \in S, f \in S}
  \union {Node("call", "", <<e, Args(<<f>>)>>) : e \in S, f \in S}
  \union {Node("call", "", <<e, Args(<<Node("named", "a", <<f>>), f>>)>>) : e \in S, f \in S}
  \union {Node("array", "", <<e>>) : e \in S}
  \union {Node("function", "", <<NoParams, Decls(<<>>), e>>) : e \in S}
  \union {Node("map", "", <<Node("pair", "", <<str, e>>)>>) : e \in S}

One == {a} \union Grown({a}, {a})
Two == One \union Grown(One, One)
\* More levels where operators meet: the conditional has them in Two.
Meets == Grown(One, {a}) \union {Node("infix", "&&", <<e, f>>) : e \in One, f \in One}
Three == {Node("infix", op, <<a, e>>) : op \in {"||", "==", "-"}, e \in Meets}
         \union {Node("infix", op, <<e, a>>) : op \in {"||", "==", "-"}, e \in Meets}

\* One expression of each way to begin and to go on.
Some == {a, Node("domainId", "", <<>>), str, Node("infix", "-", <<a, a>>),
         Node("prefix", "-", <<a>>), Node("cond", "", <<a, a, a>>), Node("dot", "", <<a, Node("domainWord", "", <<>>)>>),
         Node("array", "", <<a>>), Node("call", "", <<a, Args(<<a>>)>>),
         Node("call", "", <<Node("dot", "", <<a, Node("domainWord", "", <<>>)>>), Args(<<>>)>>),
         Node("infix", "-", <<Node("infix", "+", <<a, a>>), a>>)}
Opt == {none} \union Some
OptA == {none, a}

-----------------------------------------------------------------------------
event == Node("event", "", <<Node("matches", "", <<>>), none, none>>)
match == Node("match", "a", <<Node("re", "", <<>>)>>)
MatchEvents == {Node("event", "", <<Node("matches", "", m), s, w>>) :
                m \in {<<>>, <<match>>, <<match, match>>}, s \in OptIds, w \in Opt}

GrownEvents(S, T) ==
  {Node("events", op, <<l, r>>) : op \in {"or", "and", "before"}, l \in S, r \in S}
  \union {Node("events", op, <<e, f, g>>) : op \in {"any", "and"}, e \in T, f \in T, g \in T}
  \union {Node(kind, "", <<e, f, g>>) : kind \in {"between", "notBetween"}, e \in S, f \in T, g \in T}

Group2 == {Node("group", "repeat", <<event>>), Node("group", "count", <<event, Node("max", "", <<ids>>)>>)}
OneEvent == {event} \union Group2 \union {[event EXCEPT !.args[3] = e] : e \in One}
TwoEvents == OneEvent \union GrownEvents(OneEvent, {event} \union Group2) \union MatchEvents
SomeEvents == {event} \union GrownEvents({event}, {event})

-----------------------------------------------------------------------------
Action(label) == Node("action", label, <<word, Args(<<>>), none>>)
Actions == {Node("action", l, <<c, Args(x), s>>) :
            l \in {"", "b"}, c \in {word, Node("domainWord", "", <<>>)}, x \in {<<>>, <<a>>}, s \in OptIds}
Block(kind, c, d, acts) == Node("block", kind, <<c, d>> \o acts)
\* An empty every is the same as no block, and the parser takes none after a condition.
Blocks ==
  {Block("every", none, none, <<x>>) : x \in Actions}
  \union {Block("every", c, none, acts) : c \in Opt, acts \in {<<Action("")>>, <<Action("b"), Action("")>>}}
  \union {Block("sample", c, none, <<x, x>>) : c \in OptA, x \in Actions}
  \union {Block("sample", none, none, <<>>)}
  \union {Block("choose", c, d, acts) : c \in OptA, d \in Some, acts \in {<<Action("b")>>, <<Action("b"), Action("a")>>}}
  \union {Block("choose", none, a, <<>>)}

Param(d) == Node("param", "a", <<d>>)
Params == {NoParams, Node("params", "", <<Param(none), Param(none)>>), Node("params", "", <<Param(a)>>)}
Bodies == {Decls(<<>>)} \union {Decls(<<Decl(e)>>) : e \in Some} \union {Decls(<<Decl(a), Decl(a)>>)}
Functions ==
  {Node("function", "", <<p, b, e>>) : p \in Params, b \in Bodies, e \in Some}
  \union {Node("defaction", "", <<p, b, acts, r>>) :
          p \in Params, b \in Bodies,
          acts \in {Block("every", none, none, <<>>), Block("every", none, none, <<Action("")>>),
                    Block("choose", a, a, <<Action("b")>>)},
          r \in OptA \union {Node("infix", "-", <<a, a>>)}}

-----------------------------------------------------------------------------
Statements ==
  {Decl(e) : e \in Some}
  \union {Node("assign", "", <<p, e>>) : p \in OptA, e \in Some}
  \union {Node("clear", "", <<p>>) : p \in Opt}
  \union {Node("raise", d, <<t, f, x>>) : d \in {"", "a"}, t \in Some, f \in OptA, x \in OptA}
  \union {Node("schedule", d, <<a, Node(k, "", <<e>>), x, s>>) :
          d \in {"", "a"}, k \in {"at", "repeat"}, e \in Some, x \in OptA, s \in {none, word}}
  \union {Node(k, "info", <<e>>) : k \in {"log", "error"}, e \in Some}
  \union {Node("last", "", <<>>)}
Guarded == Statements
  \union {Node("guard", "on final", <<s>>) : s \in Statements}
  \union {Node("guard", "if", <<s, e>>) : s \in Statements, e \in {a, Node("cond", "", <<a, a, a>>)}}
\* One that ends in a word, in an expression, in a guard.
Few == {Node("last", "", <<>>), Decl(a), Node("clear", "", <<none>>),
        Node("guard", "if", <<Node("raise", "a", <<a, none, none>>), a>>)}
Post(items) == Node("statements", "", items)
Posts == {none, Post(<<>>), Post(<<Decl(a)>>), Post(<<Node("last", "", <<>>), Decl(a)>>)}
Postludes == ({Node("postlude", "", <<f, n, w>>) : f \in Posts, n \in Posts, w \in Posts}
              \ {Node("postlude", "", <<none, none, none>>)})
             \union {Node("postlude", "", <<none, none, Post(items)>>) :
                     items \in {<<s>> : s \in Guarded} \union {<<s, t>> : s \in Few, t \in Statements}
                               \union {<<s, t>> : s \in Statements, t \in Few}}

-----------------------------------------------------------------------------
when == Node("select", "when", <<event, none>>)
Selects ==
  {Node("select", "when", <<e, w>>) :
   e \in {event, Node("events", "or", <<event, event>>)} \union Group2 \union MatchEvents, w \in OptA}
  \union {Node("select", "when", <<event, e>>) : e \in Some}
  \union {Node("select", "where", <<e>>) : e \in Some} \union {none}
Each(items) == Node("foreachs", "", items)
Foreachs == {Each(<<>>)} \union {Each(<<Node("foreach", "", <<e, ids>>)>>) : e \in Some}
            \union {Each(<<Node("foreach", "", <<a, ids>>), Node("foreach", "", <<a, ids>>)>>)}
one == Block("every", none, none, <<Action("")>>)
always == Node("postlude", "", <<none, none, Post(<<Decl(a)>>)>>)
Rule(parts) == Node("rule", "active", parts)
MCRules ==
  {Rule(<<s, f, p, b, l>>) : s \in {none, when}, f \in Foreachs, p \in {Decls(<<>>), Decls(<<Decl(a)>>)},
                             b \in {none, one}, l \in {none, always}}
  \union {Rule(<<s, f, p, b, none>>) : s \in Selects, f \in {Each(<<>>)}, p \in Bodies, b \in {none, one}}
  \union {Rule(<<when, Each(<<>>), Decls(<<>>), b, l>>) : b \in Blocks, l \in {none, always}}
  \union {Rule(<<when, Each(<<>>), Decls(<<>>), b, l>>) : b \in {none, one}, l \in Postludes}
  \union {Node("rule", "inactive", <<none, Each(<<>>), Decls(<<>>), b, none>>) : b \in {none, one}}

Properties ==
  {Node("property", k, <<e>>) : k \in {"name", "keys"}, e \in Some}
  \union {Node("property", "logging", <<Node("word", w, <<>>)>>) : w \in {"on", "off"}}
  \union {Node("property", "use", <<x, w>>) : x \in {none, word},
          w \in {none} \union {Node("with", "", <<Decl(e), Decl(a)>>) : e \in Some}}
  \union {Node("property", "errors", <<>>), Node("property", "provides", <<ids, ids>>)}
  \union {Node("property", "configure", <<d>>) : d \in Bodies}
  \union {Node("property", k, <<i>>) : k \in {"shares", "provides"}, i \in OptIds \ {none}}
FewProperties == {p \in Properties : \A k \in DOMAIN p.args : p.args[k] \in {a, word, ids, none, Decls(<<>>)}}

Ruleset(v, m, g, rules) == Node("ruleset", "", <<v, m, g>> \o rules)
Rulesets ==
  {Ruleset(none, none, Decls(<<>>), <<r>>) : r \in MCRules}
  \union {Ruleset(v, Node("meta", "", m), Decls(<<>>), <<>>) :
          v \in {none, str},
          m \in {<<>>} \union {<<p>> : p \in Properties} \union {<<p, q>> : p \in Properties, q \in FewProperties}}
  \union {Ruleset(none, none, g, r) : g \in Bodies, r \in {<<>>, <<Rule(<<when, Each(<<>>), Decls(<<>>), one, always>>),
                                                              Rule(<<none, Each(<<>>), Decls(<<>>), none, none>>)>>}}
  \union {Ruleset(none, none, Decls(<<Decl(f), Decl(a)>>), <<>>) : f \in Functions}

Lines == Some \union {Decl(e) : e \in Some} \union {Node("map", "", <<>>)}

MCExpressions == Two \union Three \union Functions
MCEvents == TwoEvents \union GrownEvents(SomeEvents, SomeEvents)
MCPrograms == Rulesets \union {Node("program", "", <<x>>) : x \in Lines}
              \union {Node("program", "", <<x, y>>) : x \in Lines, y \in Lines}
              \union {Node("program", "", <<x, y, z>>) : x \in {a, Decl(a)}, y \in Lines, z \in Lines}
=============================================================================
