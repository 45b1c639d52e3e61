------------------------------ MODULE MCPager -------------------------------
(* A node with one peer that makes two more connections; a handshake where
   either side may time out; one with a node of another network; a triangle
   that is completed while it is paged; a triangle that breaks while it is
   paged; a triangle with two pages. *)
EXTENDS Pager

CONSTANTS n1, n2, n3, n4, n5, p1, p2

MCNode == {n1, n2, n3, n4, n5}
MCPage == {p1, p2}
MCNetwork == [n \in MCNode |-> IF n = n5 THEN "other" ELSE "ours"]
MCTriangle == {{n1, n2}, {n2, n3}, {n1, n3}}
MCSetups ==
  {[up |-> {{n1, n2}}, dial |-> {{n1, n3}, {n1, n4}}, pages |-> {},
    drops |-> {{n1, n2}}, slow |-> {}],
   [up |-> {}, dial |-> {{n1, n2}}, pages |-> {},
    drops |-> {{n1, n2}}, slow |-> {<<n1, n2>>, <<n2, n1>>}],
   [up |-> {}, dial |-> {{n1, n5}}, pages |-> {},
    drops |-> {}, slow |-> {<<n1, n5>>}],
   [up |-> {{n1, n2}, {n2, n3}}, dial |-> {{n1, n3}}, pages |-> {<<n1, p1>>},
    drops |-> {{n1, n2}}, slow |-> {}],
   [up |-> MCTriangle, dial |-> {}, pages |-> {<<n1, p1>>},
    drops |-> {{n1, n2}, {n2, n3}}, slow |-> {}],
   [up |-> MCTriangle, dial |-> {}, pages |-> {<<n1, p1>>, <<n2, p2>>},
    drops |-> {}, slow |-> {}]}
=============================================================================
