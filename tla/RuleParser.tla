----------------------------- MODULE RuleParser -----------------------------
(***************************************************************************)
(* soprano/inference/inferenceruleparser.cpp and inferenceruleset.cpp: a   *)
(* rule file is read line by line into prefixes and named rules.           *)
(*                                                                         *)
(* A line is what the regular expressions make of it: blank (or a comment),*)
(* a prefix, a rule with the tokens of its patterns, or something else.  A *)
(* token is the form of a node; its texts are sequences of letters.        *)
(***************************************************************************)
EXTENDS InferenceRules, Integers, FiniteSets

CONSTANTS RuleFiles      \* the files callers parse: sequences of lines

VARIABLES
  rpTodo,       \* lines of the file that parseFile has not read yet
  rpState,      \* what parseFile returned, or "reading"
  rpPrefixes,   \* Private::prefixes
  rpRules,      \* RuleSet::Private::ruleMap
  rpCache,      \* RuleSet::Private::rules, made of ruleMap on demand
  rpRead        \* the rule lines that have been accepted (for the properties)

rpVars == <<rpTodo, rpState, rpPrefixes, rpRules, rpCache, rpRead>>

NoMap == [x \in {} |-> {}]
RpInit ==
  /\ rpTodo = <<>> /\ rpState = "idle"
  /\ rpPrefixes = NoMap /\ rpRules = NoMap
  /\ rpCache = {} /\ rpRead = {}
-----------------------------------------------------------------------------
\* A plain literal; the language is part of its text.
PlainLiteral(value, lang) == Literal(IF lang = <<>> THEN value ELSE value \o <<"@">> \o lang)

\* What a token means, and parseNodePattern, which gives the possible results
\* as <<success, pattern>>.
Meaning(token, prefixes) ==
  CASE token.form = "variable" -> Var(token.name)
    [] token.form = "uri" -> Term(Resource(token.text))
    [] token.form = "typed" -> Term(Literal(token.text \o <<"^^">> \o token.type))
    [] token.form = "plain" -> Term(PlainLiteral(token.text, token.lang))
    [] token.form = "integer" -> Term(Literal(token.text))
    [] token.form = "qname" -> Term(Resource(prefixes[token.prefix] \o token.text))

\* The language loses its last letter, and the value takes the quote, the sign
\* and the first letter of the language.
ParsePlainLiteral(token) ==
  IF token.lang = <<>> THEN PlainLiteral(token.text, <<>>)
  ELSE PlainLiteral(token.text \o <<"quote", "@", Head(token.lang)>>, Front(token.lang))

ParseNodePattern(token, prefixes) ==
  CASE token.form = "blank" -> BOOLEAN \X {Term(Blank(token.text))}   \* success is not set
    [] token.form = "blankName" -> {<<FALSE, Term(Empty)>>}           \* taken for a prefix
    [] token.form = "qname" /\ token.prefix \notin DOMAIN prefixes -> {<<FALSE, Term(Empty)>>}
    [] token.form = "plain" -> {<<TRUE, Term(ParsePlainLiteral(token))>>}
    [] OTHER -> {<<TRUE, Meaning(token, prefixes)>>}

ParseMatchedStatementPattern(tokens, prefixes) ==
  {<<s[1] /\ p[1] /\ o[1], StatementPattern(s[2], p[2], o[2])>> :
      s \in ParseNodePattern(tokens[1], prefixes),
      p \in ParseNodePattern(tokens[2], prefixes),
      o \in ParseNodePattern(tokens[3], prefixes)}

\* parseRule: the effect, then the preconditions; InvalidRule if one fails.
InvalidRule == Rule(<<>>, StatementPattern(Term(Empty), Term(Empty), Term(Empty)))

ParseRule(line, prefixes) ==
  IF line.kind # "rule" THEN {InvalidRule}
  ELSE {IF r[1] THEN r[2] ELSE InvalidRule :
          r \in FoldLeft(
                  LAMBDA results, tokens :
                    {<<r[1] /\ p[1], Rule(Append(r[2].pre, p[2]), r[2].effect)>> :
                       r \in results, p \in ParseMatchedStatementPattern(tokens, prefixes)},
                  {<<e[1], Rule(<<>>, e[2])>> :
                     e \in ParseMatchedStatementPattern(line.effect, prefixes)},
                  line.pre)}
-----------------------------------------------------------------------------
\* RuleSet::insert drops the list that at() and allRules() have made.
RuleSetInsert_Cached(name, rule) == rpRules' = (name :> rule) @@ rpRules /\ UNCHANGED rpCache

RuleSetInsert(name, rule) ==
  /\ rpRules' = (name :> rule) @@ rpRules
  /\ rpCache' = {}

RuleSetValues == {rpRules[name] : name \in DOMAIN rpRules}

allRules ==
  /\ rpState # "reading"
  /\ rpCache' = IF rpCache = {} THEN RuleSetValues ELSE rpCache
  /\ UNCHANGED <<rpTodo, rpState, rpPrefixes, rpRules, rpRead>>

parseFile(file) ==
  /\ rpState # "reading"
  /\ \/ rpTodo' = file /\ rpState' = "reading"
     \/ UNCHANGED rpTodo /\ rpState' = "failed"     \* it cannot be opened
  /\ UNCHANGED <<rpPrefixes, rpRules, rpCache, rpRead>>

\* One line; the first invalid rule ends the file.
parseLine ==
  /\ rpState = "reading"
  /\ IF rpTodo = <<>>
     THEN /\ rpState' = "parsed"
          /\ UNCHANGED <<rpTodo, rpPrefixes, rpRules, rpCache, rpRead>>
     ELSE LET line == Head(rpTodo)
          IN /\ rpTodo' = Tail(rpTodo)
             /\ \/ /\ line.kind = "blank"
                   /\ UNCHANGED <<rpState, rpPrefixes, rpRules, rpCache, rpRead>>
                \/ /\ line.kind = "prefix"
                   /\ rpPrefixes' = (line.name :> line.text) @@ rpPrefixes
                   /\ UNCHANGED <<rpState, rpRules, rpCache, rpRead>>
                \/ /\ line.kind \in {"rule", "other"}
                   /\ \E rule \in ParseRule(line, rpPrefixes) :
                        IF RuleValid(rule)
                        THEN /\ RuleSetInsert(line.name, rule)
                             /\ rpRead' = {x \in rpRead : x[1] # line.name} \cup {<<line.name, line, rpPrefixes>>}
                             /\ UNCHANGED rpState
                        ELSE rpState' = "failed" /\ UNCHANGED <<rpRules, rpCache, rpRead>>
                   /\ UNCHANGED rpPrefixes

addPrefix(name, text) ==
  /\ rpState # "reading"
  /\ rpPrefixes' = (name :> text) @@ rpPrefixes
  /\ UNCHANGED <<rpTodo, rpState, rpRules, rpCache, rpRead>>

clearParser ==
  /\ rpState # "reading"
  /\ rpRules' = NoMap /\ rpCache' = {} /\ rpPrefixes' = NoMap /\ rpRead' = {}
  /\ UNCHANGED <<rpTodo, rpState>>
-----------------------------------------------------------------------------
RpNext ==
  \/ \E file \in RuleFiles : parseFile(file)
  \/ parseLine \/ allRules \/ clearParser
  \/ addPrefix("p", <<"other:">>)
-----------------------------------------------------------------------------
Tagged(token) == token.form = "blank" \/ (token.form = "plain" /\ token.lang # <<>>)
Written(tokens, prefixes) ==
  StatementPattern(Meaning(tokens[1], prefixes), Meaning(tokens[2], prefixes), Meaning(tokens[3], prefixes))

(***************************************************************************)
(* A rule means what its line says, under the prefixes defined before it,  *)
(* whatever was parsed, redefined or cleared since: every precondition in  *)
(* its place and the last pattern as effect.  Blank nodes and literals with*)
(* a language are the exceptions: parseNodePattern mistakes both.  The list*)
(* that allRules returns is the one of the current rules.                  *)
(***************************************************************************)
RulesAsWritten ==
  /\ rpCache \in {{}, RuleSetValues}
  /\ \A x \in rpRead :
       LET rule == rpRules[x[1]]
           line == x[2]
           plain(tokens) == ~\E i \in 1..3 : Tagged(tokens[i])
       IN /\ Len(rule.pre) = Len(line.pre)
          /\ plain(line.effect) => rule.effect = Written(line.effect, x[3])
          /\ \A i \in DOMAIN line.pre :
               plain(line.pre[i]) => rule.pre[i] = Written(line.pre[i], x[3])
=============================================================================
