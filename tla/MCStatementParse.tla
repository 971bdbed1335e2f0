-------------------------- MODULE MCStatementParse --------------------------
(* Statements over up to three tables with up to two expressions, as the   *)
(* calls of both parsers; Akiban's are walked again when they fail.        *)
EXTENDS StatementParse, TLC

CONSTANTS a, b, d, x, y, z, code, key, unknown

T(n, q) == [call |-> "table", name |-> n, alias |-> q]
C(q, k) == [call |-> "column", alias |-> q, column |-> k]
Op(q, k) == [alias |-> q, column |-> k, asked |-> TRUE]
J(l, r) == [call |-> "join", left |-> l, right |-> r]

Literal == Op(Null, Null)

\* FROM a x, b y    FROM a x, b y, d z    FROM a x, a y, b z
\* FROM a, b        FROM a x              FROM a, a x
Froms ==
  { << <<a, x>>, <<b, y>> >>, << <<a, x>>, <<b, y>>, <<d, z>> >>, << <<a, x>>, <<a, y>>, <<b, z>> >>,
    << <<a, Null>>, <<b, Null>> >>, << <<a, x>> >>, << <<a, Null>>, <<a, x>> >> }

\* The qualifiers that a FROM list declares, and none.
Qualifiers(from) ==
  {IF from[n][2] = Null THEN from[n][1] ELSE from[n][2] : n \in 1 .. Len(from)}

Expressions(from) ==
  {J(Op(p[1], k), Op(p[2], l)) : p \in {w \in Qualifiers(from) \X Qualifiers(from) : w[1] # w[2]}, k, l \in {code, key}}
    \cup {J(Op(q, code), Literal) : q \in Qualifiers(from)}
    \cup {J(Literal, Op(q, code)) : q \in Qualifiers(from)}
    \cup {J(Op(Null, key), Op(q, code)) : q \in Qualifiers(from)}

Wheres(from) ==
  {<<>>} \cup {<<e>> : e \in Expressions(from)}
    \cup {<<e, f>> : e \in Expressions(from), f \in {g \in Expressions(from) : {g.left.column, g.right.column} \subseteq {code, Null}}}

Selects(from) == {<<>>, <<C(Null, code)>>} \cup {<<C(q, code)>> : q \in Qualifiers(from)}

\* The columns of an expression, visited after it.
Refs(e) == SelectSeq(<<C(e.left.alias, e.left.column), C(e.right.alias, e.right.column)>>,
                     LAMBDA k : k.column # Null)

\* Parents before children, the select list before FROM and WHERE; a table is
\* reported with its alias and again by its name.
AkibanWalk(select, from, where) ==
  select
    \o FlattenSeq([n \in 1 .. Len(from) |-> <<T(from[n][1], from[n][2]), T(from[n][1], Null)>>])
    \o FlattenSeq([n \in 1 .. Len(where) |-> <<where[n]>> \o Refs(where[n])])

LiteralLeft(where) == \E n \in 1 .. Len(where) : where[n].left.column = Null

\* The text after it has failed: SELECT UNKNOWN_COLUMNS and the FROM clause onward.
Again(from, where, thrown) ==
  <<[call |-> "again", thrown |-> thrown]>> \o AkibanWalk(<<C(Null, unknown)>>, from, where)

\* A SELECT, and a statement of a type that SqlType does not know.
AkibanWalks(select, from, where) ==
  LET first == AkibanWalk(select, from, where)
  IN  {IF LiteralLeft(where) THEN first \o Again(from, where, FALSE) ELSE first}
        \cup (IF Len(where) = 1 THEN {first \o Again(from, where, TRUE)} ELSE {})

\* UniqueTableList: one entry for each name, the last one; any order.
UniqueTables(from) ==
  {T(from[n][1], from[n][2]) :
     n \in {k \in 1 .. Len(from) : \A i \in k + 1 .. Len(from) : from[i][1] # from[k][1]}}

\* No column is asked for where JSqlParser has no Column; an expression with
\* none on its left is not taken.
Taken(where) ==
  LET own == SelectSeq(where, LAMBDA e : e.left.column # Null)
  IN  [n \in 1 .. Len(own) |-> [own[n] EXCEPT !.right.asked = own[n].right.column # Null]]

\* ON expressions come before the tables, columns before the WHERE expressions.
JSqlWalks(select, from, on, where) ==
  LET list == SetToSeq(UniqueTables(from)) IN
  {Taken(on) \o tables \o select \o FlattenSeq([n \in 1 .. Len(where) |-> Refs(where[n])]) \o Taken(where) :
     tables \in {list, Reverse(list)}}

MCStatements ==
  UNION {UNION {AkibanWalks(s, from, w) : s \in Selects(from), w \in Wheres(from)} : from \in Froms}
    \cup UNION {UNION {JSqlWalks(s, from, <<>>, w) : s \in Selects(from), w \in {v \in Wheres(from) : Len(v) < 2}} :
                  from \in Froms}
    \cup UNION {UNION {JSqlWalks(s, from, <<w[1]>>, <<w[2]>>) :
                         s \in Selects(from), w \in {v \in Wheres(from) : Len(v) = 2}} :
                  from \in {f \in Froms : Len(f) > 1}}

============================================================================
