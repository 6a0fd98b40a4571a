---------------------------- MODULE LanguageTag ----------------------------
(***************************************************************************)
(* LanguageTag: language tags, ranges that match them, the lookup of the   *)
(* best choice for a list of ranges, and the way to a locale and back.     *)
(*                                                                         *)
(* A tag is the sequence of its subtags; constructors lower every subtag,  *)
(* so a subtag stands for all its spellings.  The empty tag is the one     *)
(* subtag "", as QString::split returns it.                                *)
(***************************************************************************)
EXTENDS Integers, Sequences, SequencesExt, FiniteSets

CONSTANTS
  SubTagSize,     \* the length of each subtag, "*" and "" among them
  Letters,        \* the subtags of letters only; the others have digits
  LtTags,         \* tags that are matched
  LtRanges,       \* ranges they are matched with
  LtChoices,      \* lists of tags to look up in
  LtPriorities    \* lists of ranges to look up

VARIABLES
  ltCall,     \* the lookup in progress, or the last one
  ltSub,      \* tagSub: what is left of the range the lookup is at
  ltAt,       \* which range that is
  ltFound,    \* the answer: an index, -1, or Open
  ltAnswer    \* the last answer of matches or of a way through a locale

ltVars == <<ltCall, ltSub, ltAt, ltFound, ltAnswer>>

Wildcard == "*"
PrivateUse == "x"
EmptyTag == <<"">>
Open == 0

LtInit ==
  /\ ltCall = [choices |-> <<>>, priority |-> <<>>, fallback |-> TRUE, scheme |-> "Basic"]
  /\ ltSub = <<>> /\ ltAt = 0 /\ ltFound = -1
  /\ ltAnswer = [op |-> "none"]
-----------------------------------------------------------------------------
matchBasic(tag, range) == range = <<Wildcard>> \/ IsPrefix(range, tag)

\* Rest[t, r]: the loop, with subtag t of the tag and r of the range to compare
matchExtended(tag, range) ==
  LET Rest[t \in 2..(Len(tag) + 1), r \in 2..(Len(range) + 1)] ==
        \/ r > Len(range)
        \/ r <= Len(range) /\ range[r] = Wildcard /\ Rest[t, r + 1]
        \/ /\ r <= Len(range) /\ range[r] # Wildcard /\ t <= Len(tag)
           /\ IF tag[t] = range[r] THEN Rest[t + 1, r + 1]
              ELSE SubTagSize[tag[t]] # 1 /\ Rest[t + 1, r]
  IN tag = range \/ (range[1] \in {tag[1], Wildcard} /\ Rest[2, 2])

matches(tag, range, scheme) ==
  IF scheme = "Basic" THEN matchBasic(tag, range) ELSE matchExtended(tag, range)

isValid(tag) ==
  /\ tag # EmptyTag /\ tag[1] \in Letters
  /\ \A i \in DOMAIN tag : tag[i] # Wildcard /\ SubTagSize[tag[i]] \in 1..8
  /\ SubTagSize[tag[Len(tag)]] = 1 => \E i \in 1..(Len(tag) - 1) : tag[i] = PrivateUse

\* Copied from Qt: blanks for what is no language or no country.  Three entries
\* stand for each list.
language_code_list == [C |-> "", German |-> "de", Konkani |-> "kok"]
country_code_list == [AnyCountry |-> "", Germany |-> "de", India |-> "in"]

\* LanguageTag( QLocale::Language, QLocale::Country )
FromCodes(lang, country) ==
  IF language_code_list[lang] = "" THEN EmptyTag
  ELSE IF country = "AnyCountry" THEN <<language_code_list[lang]>>
  ELSE <<language_code_list[lang], country_code_list[country]>>

\* LanguageTag( const QLocale& ), the inverse of toLocale: a locale is a name of
\* one or two parts, or empty for C.
FromLocale(locale) == IF locale = <<>> THEN EmptyTag ELSE locale

\* The country is the first subtag of two letters that is not for private use.
toLocale(tag) ==
  LET countries == {i \in 2..Len(tag) : /\ SubTagSize[tag[i]] = 2
                                        /\ \A j \in 2..i : tag[j] # PrivateUse /\ (j < i => SubTagSize[tag[j]] # 2)}
  IN IF tag = EmptyTag THEN <<>>
     ELSE <<tag[1]>> \o [k \in 1..Cardinality(countries) |-> tag[CHOOSE i \in countries : TRUE]]
-----------------------------------------------------------------------------
\* No call depends on an earlier one, so each is the first (a bound of the model).
Fresh == ltAt = 0 /\ ltAnswer.op = "none"

match(tag, range) ==
  /\ Fresh
  /\ ltAnswer' = [op |-> "matches", tag |-> tag, range |-> range, basic |-> matches(tag, range, "Basic"),
                  extended |-> matches(tag, range, "Extended")]
  /\ UNCHANGED <<ltCall, ltSub, ltAt, ltFound>>

throughLocale(lang, country) ==
  /\ Fresh
  /\ ltAnswer' = [op |-> "locale", tag |-> FromCodes(lang, country),
                  back |-> FromLocale(toLocale(FromCodes(lang, country)))]
  /\ UNCHANGED <<ltCall, ltSub, ltAt, ltFound>>

\* lookup: with a tag of no subtags the loop is over before it begins.
lookup(choices, priority, fallback, scheme) ==
  /\ Fresh
  /\ ltCall' = [choices |-> choices, priority |-> priority, fallback |-> fallback, scheme |-> scheme]
  /\ IF choices = <<>> \/ priority = <<>>
     THEN ltFound' = -1 /\ ltAt' = 1 /\ UNCHANGED ltSub
     ELSE ltFound' = Open /\ ltAt' = 1 /\ ltSub' = priority[1]
  /\ UNCHANGED ltAnswer

\* Choices that are empty or a wildcard are skipped, a range that is one is not.
Fitting == {i \in DOMAIN ltCall.choices : /\ ltCall.choices[i] \notin {EmptyTag, <<Wildcard>>}
                                          /\ matches(ltCall.choices[i], ltSub, ltCall.scheme)}

\* A bug: what is left may end with a subtag of one character.
Truncated_Once(range) == SubSeq(range, 1, Len(range) - 1)

\* The last subtag goes, and the single characters before it.
Truncated(range) ==
  LET kept == {k \in 1..(Len(range) - 1) : SubTagSize[range[k]] # 1}
  IN SubSeq(range, 1, IF kept = {} THEN 0 ELSE CHOOSE k \in kept : \A j \in kept : j <= k)

\* One scan of the choices; without a hit the range is truncated, or the next
\* one is taken.
lookupScan ==
  /\ ltFound = Open
  /\ LET shorter == Truncated(ltSub)
     IN \/ /\ Fitting # {}
           /\ ltFound' = CHOOSE i \in Fitting : \A j \in Fitting : i <= j
           /\ UNCHANGED <<ltAt, ltSub>>
        \/ /\ Fitting = {} /\ ltCall.fallback /\ shorter # <<>>
           /\ ltSub' = shorter
           /\ UNCHANGED <<ltAt, ltFound>>
        \/ /\ Fitting = {} /\ ~(ltCall.fallback /\ shorter # <<>>)
           /\ IF ltAt < Len(ltCall.priority)
              THEN ltAt' = ltAt + 1 /\ ltSub' = ltCall.priority[ltAt + 1] /\ UNCHANGED ltFound
              ELSE ltFound' = -1 /\ UNCHANGED <<ltAt, ltSub>>
  /\ UNCHANGED <<ltCall, ltAnswer>>

LtNext ==
  \/ \E tag \in LtTags, range \in LtRanges : match(tag, range)
  \/ \E lang \in DOMAIN language_code_list, country \in DOMAIN country_code_list : throughLocale(lang, country)
  \/ \E choices \in LtChoices, priority \in LtPriorities, fallback \in BOOLEAN, scheme \in {"Basic", "Extended"} :
       lookup(choices, priority, fallback, scheme)
  \/ lookupScan
-----------------------------------------------------------------------------
\* RFC 4647, section 3.3.2: what the range names comes in its order in the tag,
\* and what is skipped on the way is no singleton.
ExtendedRange(tag, range) ==
  LET named == SelectSeq(Tail(range), LAMBDA s : s # Wildcard)
  IN /\ range[1] \in {tag[1], Wildcard}
     /\ \E f \in [DOMAIN named -> 2..Len(tag)] :
          /\ \A i \in DOMAIN named : tag[f[i]] = named[i]
          /\ \A i, j \in DOMAIN named : i < j => f[i] < f[j]
          /\ \A i \in DOMAIN named : \A k \in 2..f[i] :
               SubTagSize[tag[k]] = 1 => \E j \in DOMAIN named : f[j] = k

\* Section 3.4: the first range counts first, then the longest part of it that
\* does not end with a singleton, then the order of the choices.  The wildcard as
\* a range counts for nothing.
Tried(range) ==
  {k \in 1..Len(range) : k = Len(range) \/ (ltCall.fallback /\ SubTagSize[range[k]] # 1)}
Hits ==
  {<<p, k, i>> \in (DOMAIN ltCall.priority) \X (1..4) \X (DOMAIN ltCall.choices) :
     /\ k \in Tried(ltCall.priority[p])
     /\ SubSeq(ltCall.priority[p], 1, k) # <<Wildcard>>
     /\ ltCall.choices[i] \notin {EmptyTag, <<Wildcard>>}
     /\ matches(ltCall.choices[i], SubSeq(ltCall.priority[p], 1, k), ltCall.scheme)}
Better(h, g) == h[1] < g[1] \/ (h[1] = g[1] /\ (h[2] > g[2] \/ (h[2] = g[2] /\ h[3] <= g[3])))

(***************************************************************************)
(* languagetag.h: matching and lookup follow RFC 4647.  The loops agree    *)
(* with what the RFC asks for: a range matches when its parts are found in *)
(* order, extended matching finds whatever basic matching does, lookup     *)
(* returns the best hit and misses none, and every range it tries is valid *)
(* when the one it was given is.  An answer given away by a wildcard, which*)
(* lookup should ignore (WildcardIgnored), is not asked to be the best one:*)
(* no hit came before it.  A locale's tag leads back to the locale.        *)
(***************************************************************************)
LanguagesAsInRfc ==
  /\ ltAnswer.op = "matches" =>
       /\ ltAnswer.extended = ExtendedRange(ltAnswer.tag, ltAnswer.range)
       /\ ltAnswer.basic => ltAnswer.extended
  /\ ltAnswer.op = "locale" => ltAnswer.back = ltAnswer.tag
  /\ ltFound = Open /\ isValid(ltCall.priority[ltAt]) => isValid(ltSub)
  /\ ltFound \notin {Open, -1} /\ ltSub # <<Wildcard>> =>
       \E h \in Hits : h[3] = ltFound /\ \A g \in Hits : Better(h, g)
  /\ ltFound \notin {Open, -1} /\ ltSub = <<Wildcard>> => \A g \in Hits : g[1] > ltAt
  /\ ltFound = -1 => Hits = {}

(***************************************************************************)
(* languagetag.h: "The wildcard value "*" is ignored in lookup operations, *)
(* as it would match any tag."                                             *)
(***************************************************************************)
WildcardIgnored ==
  ltFound \notin {Open, -1} => ltSub # <<Wildcard>>
=============================================================================
