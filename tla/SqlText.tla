------------------------------ MODULE SqlText ------------------------------
(* The text of a statement as the query builder handles it: a sequence of    *)
(* tokens after "FROM table", each a clause keyword with what follows it up   *)
(* to the next one.  Column names, operators and values are left out; a      *)
(* placeholder keeps the position of its value in whereParams (at) and, on    *)
(* Postgres, the number printed after the dollar sign (n).                   *)
EXTENDS Naturals, Sequences, FiniteSets, SequencesExt

(* of is the clause a continuation (", x" or "AND x") was written for, body   *)
(* the predicate of a WHERE, inner the keywords inside its parentheses, tbl   *)
(* and on the table a JOIN adds and the one its ON refers back to.            *)
Token(kw) ==
  [kw |-> kw, of |-> kw, ph |-> <<>>, body |-> <<>>, inner |-> {}, tbl |-> "", on |-> ""]

(* A WhereTerm: its connector and what its text says of the predicates that   *)
(* went into it (all of them, any of them, none of them).  An empty IN list   *)
(* rendered without its placeholders is "broken": it does not parse.          *)
Term(conn, mode, atoms, ph) == [conn |-> conn, mode |-> mode, atoms |-> atoms, ph |-> ph]

(* Maximal OR-runs, bracketed when there is something outside to bind with.   *)
(* A piece of the rendered body is a bracketed run, or one bare term with     *)
(* the connector printed before it.                                           *)
WithTerm(runs, t) ==
  IF t.conn = "OR" /\ runs # <<>> THEN [runs EXCEPT ![Len(runs)] = Append(@, t)] ELSE Append(runs, <<t>>)
OrRuns(terms) ==
  LET runs[i \in 0 .. Len(terms)] == IF i = 0 THEN <<>> ELSE WithTerm(runs[i - 1], terms[i])
  IN  runs[Len(terms)]

RenderFlat(terms) == [i \in 1 .. Len(terms) |-> [conn |-> terms[i].conn, any |-> <<terms[i]>>]]
RenderWhereTerms(terms) ==
  LET runs  == OrRuns(terms)
      Piece(run) == IF Len(run) > 1 /\ Len(runs) > 1
                    THEN <<[conn |-> "AND", any |-> run]>>
                    ELSE [i \in 1 .. Len(run) |->
                           [conn |-> IF i = 1 THEN "AND" ELSE "OR", any |-> <<run[i]>>]]
  IN  FlattenSeq([i \in 1 .. Len(runs) |-> Piece(runs[i])])

BodyPlaceholders(body) ==
  FlattenSeq([i \in 1 .. Len(body) |->
    FlattenSeq([j \in 1 .. Len(body[i].any) |-> body[i].any[j].ph])])

(* The keyword that opens a rendered body, and the body.                      *)
WhereToken(kw, body) ==
  [Token(kw) EXCEPT !.of = "WHERE", !.body = body, !.ph = BodyPlaceholders(body)]

(* renderInPredicate: IN over nothing is FALSE, NOT IN over nothing is TRUE.   *)
RenderInPredicate(n, negated) ==
  IF n = 0 THEN [mode |-> IF negated THEN "all" ELSE "any", atoms |-> 0]
           ELSE [mode |-> "all", atoms |-> 1]

----------------------------------------------------------------------------
(* What they mean to the database where exactly the predicates in true hold: a  *)
(* term, a printed body (AND binds tighter than OR) and, of the calls that gave *)
(* the terms, what was asked (each OR belongs to the condition before it).      *)
TermHolds(t, true) ==
  CASE t.mode = "all" -> t.atoms \subseteq true
    [] t.mode = "any" -> t.atoms \cap true # {}
    [] t.mode = "none" -> t.atoms \cap true = {}
    [] t.mode = "broken" -> FALSE

BodyHolds(pieces, true) ==
  \E i \in DOMAIN pieces :
    /\ i = 1 \/ pieces[i].conn = "OR"
    /\ \A j \in i .. Len(pieces) :
         (\A k \in i + 1 .. j : pieces[k].conn = "AND")
           => \E n \in DOMAIN pieces[j].any : TermHolds(pieces[j].any[n], true)

ChainHolds(terms, true) ==
  \A i \in DOMAIN terms :
    i = 1 \/ terms[i].conn = "AND"
      => \E j \in i .. Len(terms) :
           TermHolds(terms[j], true) /\ \A k \in i + 1 .. j : terms[k].conn = "OR"

----------------------------------------------------------------------------
(* scanTopLevelKeywords: the positions where one of the keywords stands       *)
(* outside every parenthesis, string and comment.                             *)
TopLevel(text, keywords) == {i \in DOMAIN text : text[i].kw \in keywords}

(* The first of them, or one past the end.                                    *)
FirstTopLevel(text, keywords) ==
  LET hits == TopLevel(text, keywords)
  IN  IF hits = {} THEN Len(text) + 1 ELSE CHOOSE i \in hits : \A j \in hits : i <= j

(* A regular expression over the whole text also matches inside parentheses.  *)
Mentions(text, kw) == \E i \in DOMAIN text : text[i].kw = kw \/ kw \in text[i].inner

ReorderKeywords == {"GROUP_BY", "ORDER_BY", "HAVING", "OFFSET", "LIMIT", "WHERE"}
TailClause == {"GROUP_BY", "ORDER_BY", "HAVING", "LIMIT", "OFFSET", "UNION", "SETOP", "LOCK"}
JoinCut == {"GROUP_BY", "ORDER_BY", "WHERE", "HAVING", "LIMIT", "OFFSET", "UNION"}

(* computeReorderedClauses: the base is what comes before the first clause    *)
(* keyword, a fragment what follows one up to the next; the base, then the    *)
(* fragments in canonical order.                                              *)
WithFragment(cut, token) ==
  LET key == IF token.kw \in ReorderKeywords THEN token.kw ELSE cut.key
  IN  [key |-> key, fragments |-> [cut.fragments EXCEPT ![key] = Append(@, token)]]
BaseText == "base"
Fragments(text) ==
  LET cuts[i \in 0 .. Len(text)] ==
        IF i = 0 THEN [key |-> BaseText, fragments |-> [key \in ReorderKeywords \cup {BaseText} |-> <<>>]]
        ELSE WithFragment(cuts[i - 1], text[i])
  IN  cuts[Len(text)]

Reorder(text) ==
  LET of == Fragments(text).fragments
  IN  of[BaseText] \o of["WHERE"] \o of["GROUP_BY"] \o of["HAVING"] \o of["ORDER_BY"] \o of["LIMIT"] \o of["OFFSET"]

(* insertJoin: ahead of the first trailing clause the JOIN table knows.        *)
InsertJoin(text, joins) ==
  LET cut == FirstTopLevel(text, JoinCut)
  IN  SubSeq(text, 1, cut - 1) \o joins \o SubSeq(text, cut, Len(text))

(* The WHERE spliced ahead of the first trailing clause, or appended to the   *)
(* right operand once a set operator closed the left one.                     *)
SpliceWhere(text, body, tail, tailHasPredicate) ==
  LET cut == FirstTopLevel(text, TailClause)
  IN  IF body = <<>> THEN text
      ELSE IF tail THEN Append(text, WhereToken(IF tailHasPredicate THEN "AND" ELSE "WHERE", body))
      ELSE SubSeq(text, 1, cut - 1) \o <<WhereToken("WHERE", body)>> \o SubSeq(text, cut, Len(text))

(* The clause is appended, or its value replaced in place where the pattern   *)
(* finds one first: a LIMIT inside a joined subquery counts.                   *)
SetClauseAgain(text, kw) == Append(text, Token(kw))
SetClause(text, kw) == IF Mentions(text, kw) THEN text ELSE Append(text, Token(kw))

(* The first one opens the clause; once the pattern finds one anywhere, the   *)
(* next is ", x" at the end of the text, whatever clause stands there.        *)
ExtendClause(text, kw) ==
  Append(text, IF Mentions(text, kw) THEN [Token("COMMA") EXCEPT !.of = kw] ELSE Token(kw))
============================================================================
