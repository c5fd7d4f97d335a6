----------------------------- MODULE WidestPath -----------------------------
(***************************************************************************)
(* What a route between two switches should be, stated without any         *)
(* algorithm: a simple path of links, of the greatest width there is.      *)
(* It is the reference the routing algorithm is compared with.             *)
(***************************************************************************)
EXTENDS Integers, SequencesExt

\* The links a path crosses, without their direction.
Crossed(path) == {{d[1], d[2]} : d \in ToSet(path)}

\* A set of directed links, in whatever order, is a simple path from a to b
\* over the links in edges: some walk from a to b visits no switch twice and
\* takes all of them and nothing else.
IsSimplePath(hops, a, b, edges) ==
  \/ a = b /\ hops = {}
  \/ \E walk \in SetToSeqs(UNION {{d[1], d[2]} : d \in hops}) :
       /\ Len(walk) > 1 /\ walk[1] = a /\ walk[Len(walk)] = b
       /\ hops = {<<walk[i], walk[i + 1]>> : i \in 1..(Len(walk) - 1)}
       /\ \A d \in hops : {d[1], d[2]} \in edges

\* The switches that links in edges connect a with.
ConnectedTo(a, edges) ==
  LET reach[n \in 0..Cardinality(edges)] ==
        IF n = 0 THEN {a}
        ELSE LET near == reach[n - 1]
             IN  near \union UNION {e \in edges : e \cap near # {}}
  IN  reach[Cardinality(edges)]

Connected(a, b, edges) == b \in ConnectedTo(a, edges)

\* A path is widest if no path between its ends uses only links that are
\* wider than its narrowest one.  width maps each link to its bandwidth.
IsWidest(path, a, b, width) ==
  ~Connected(a, b, {e \in DOMAIN width :
                      \E g \in Crossed(path) : width[g] < width[e]})
=============================================================================
