----------------------------- MODULE MCEntityIndex -----------------------------
(* Small instances of EntityIndex for TLC. *)
EXTENDS EntityIndex, TLC

CONSTANTS p1, p2, w1, w2, e1, e2, e3, a, b

Match(e, alias, from, to) == [uri |-> e, alias |-> alias, from |-> from, to |-> to]
DependsOn(from, to) == [rel |-> "DEPENDS_ON", from |-> from, to |-> to]

\* "e1 depends on e2"; two names of e1 and a relation word with nothing else
\* to relate it to; and a text too far from its relation word.
Stated == [matches |-> <<Match(e1, a, 0, 2), Match(e2, a, 13, 15)>>, triggers |-> {DependsOn(3, 12)}]
Listed == [matches |-> <<Match(e1, b, 0, 2), Match(e1, a, 4, 6)>>,
           triggers |-> {DependsOn(12, 20)}]
Apart == [matches |-> <<Match(e2, b, 0, 2)>>, triggers |-> {DependsOn(300, 310)}]

MCTexts == {<<Stated, Apart>>, <<Listed>>}

\* The earlier release kept one row for a URI, without vectors.  w1 has two,
\* one without a term; w2's chunk names e1, whose row is w1's.
MCOldRows == {w1 :> (e1 :> {a} @@ e2 :> NoRow @@ e3 :> {})
              @@ w2 :> (e1 :> NoRow @@ e2 :> NoRow @@ e3 :> NoRow)}
MCOldNames == {w1 :> <<{e1}, {e3}>> @@ w2 :> <<{e1}, {}>>}

\* The two processes are alike.
Symmetry == Permutations({p1, p2})
===============================================================================
