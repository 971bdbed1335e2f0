-------------------------- MODULE MCRequestLoading --------------------------
(* Requests of a few statements over three tables, among them the kinds of  *)
(* statements that need a second or third attempt.                         *)
EXTENDS TableAccessTimeline, TLC

T(t) == [kind |-> "table", table |-> t]
JoinOn(l, r, s) == [kind |-> "join", left |-> l, right |-> r, shown |-> s]
J(l, r) == JoinOn(l, r, {l, r} \ {Literal})
Ok(n) == [notes |-> n, end |-> "ok"]
Bad(n, e) == [notes |-> n, end |-> e]

CONSTANTS a, b, c

MCTexts == {"plain", "join", "twice", "literal", "odd", "foreign", "union", "broken"}

\* literal: ... FROM a, b WHERE a.x = b.x AND 1 = a.y
\* odd: a side whose table only postProcess() finds; twice: both sides become b's
\* union: JSqlParser takes its body for a plain SELECT
MCFirstWalk ==
  [x \in MCTexts |->
     CASE x = "plain"   -> Ok(<<T(a)>>)
       [] x = "join"    -> Ok(<<T(a), T(b), J(a, b)>>)
       [] x = "twice"   -> Ok(<<T(b), T(c), T(b), JoinOn(b, c, {b}), J(c, NoTable)>>)
       [] x = "literal" -> Ok(<<T(a), T(b), J(a, b), J(Literal, a)>>)
       [] OTHER         -> Bad(<<>>, "syntax")]

MCRetryWalk ==
  [x \in MCTexts |->
     CASE x = "literal" -> MCFirstWalk[x]
       [] x = "odd"     -> Ok(<<T(a), T(c), JoinOn(a, NoTable, {a, c})>>)
       [] OTHER         -> Bad(<<>>, "syntax")]

MCSecondaryWalk ==
  [x \in MCTexts |->
     CASE x = "literal" -> Ok(<<T(a), T(b), J(a, b)>>)
       [] x = "foreign" -> Ok(<<T(c)>>)
       [] x = "union"   -> Bad(<<>>, "runtime")
       [] OTHER         -> Bad(<<>>, "syntax")]

SeqsUpTo(S, n) == UNION {[1 .. m -> S] : m \in 0 .. n}

Ev(ty, m, cl, x) == [type |-> ty, method |-> m, class |-> cl, text |-> x]

Call(m, x) == <<Ev("ENTRY", m, "S", "plain"), Ev("ARG", m, "S", x), Ev("EXIT", m, "S", "plain")>>

Odd ==
  { <<Ev("ENTRY", "execute", "S", "plain"), Ev("EXIT", "execute", "S", "plain")>>,
    <<Ev("ENTRY", "execute", "S", "plain"), Ev("ARG", "execute", "S", "join")>>,
    <<Ev("ENTRY", "execute", "S", "plain"), Ev("ARG", "execute", "S", "join"), Ev("EXIT", "execute", "C", "plain")>>,
    <<Ev("EXIT", "execute", "S", "plain")>>,
    <<Ev("ENTRY", "prepare", "S", "plain"), Ev("ARG", "prepare", "S", "join")>> \o Call("execute", "plain")
      \o <<Ev("EXIT", "prepare", "S", "plain")>>,
    <<Ev("ENTRY", "execute", "S", "plain"), Ev("ARG", "execute", "S", "join")>> \o Call("execute", "plain")
      \o <<Ev("EXIT", "execute", "S", "plain")>> }

Calls == {Call("execute", x) : x \in {"join", "odd", "literal", "union"}} \cup {Call("prepare", "twice")}

MCNameRank == (a :> 1) @@ (b :> 2) @@ (c :> 3)

Lists ==
  {<<>>} \cup Odd \cup Calls
    \cup {p[1] \o p[2] : p \in (Calls \cup Odd) \X (Calls \cup Odd)}
    \cup {p[1] \o p[2] \o p[3] : p \in Calls \X Calls \X Calls}

MCInputs ==
  [source : {"text", "xml"}, items : SeqsUpTo(MCTexts, 3) \cup SeqsUpTo({"plain", "join"}, 6)]
    \cup [source : {"live"}, items : Lists]

============================================================================
