---------------------------- MODULE Solver_Proofs ----------------------------
(***************************************************************************)
(* What add_vertex and insert_edge do to a graph, and what they leave as   *)
(* it is: the facts about Solver that the proofs about its callers cite.   *)
(***************************************************************************)
EXTENDS Solver, TLAPS, SequenceTheorems

(* A graph whose vertexes are in V and whose edges are in E.               *)
IsGraph(g, V, E) ==
  /\ g = [vertexes |-> g.vertexes, out |-> g.out, undefined |-> g.undefined]
  /\ g.vertexes \in [Labels(g) -> V]
  /\ g.out \in [Labels(g) -> Seq(E)]
  /\ g.undefined \in BOOLEAN

(* Every edge leads to a vertex.                                           *)
Closed(g) ==
  \A src \in Labels(g) : \A i \in 1..Len(g.out[src]) :
    g.out[src][i].dst \in Labels(g)

(* h has all of g: vertexes with their names, and edges in their order.    *)
Extends(h, g) ==
  \A key \in Labels(g) :
    /\ key \in Labels(h)
    /\ h.vertexes[key] = g.vertexes[key]
    /\ Len(g.out[key]) <= Len(h.out[key])
    /\ \A i \in 1..Len(g.out[key]) : h.out[key][i] = g.out[key][i]

LEMMA EmptyGraphLemma ==
  ASSUME NEW V, NEW E
  PROVE  IsGraph(EmptyGraph, V, E) /\ Closed(EmptyGraph) /\ Labels(EmptyGraph) = {}
<1>1. ASSUME NEW S PROVE DOMAIN <<>> = {} /\ <<>> \in [{} -> S]
  <2>1. <<>> \in Seq(S) /\ Len(<<>>) = 0
    BY EmptySeq
  <2>2. <<>> \in [1..0 -> S] /\ DOMAIN <<>> = 1..0
    BY <2>1, LenProperties
  <2>3. 1..0 = {}
    OBVIOUS
  <2>4. QED
    BY <2>2, <2>3
<1>2. QED
  BY <1>1 DEF EmptyGraph, IsGraph, Labels, Closed

(* The vertexes there are stay, with their names and edges; the key has a  *)
(* vertex afterwards, without an edge if it is new.                        *)
LEMMA AddVertexLemma ==
  ASSUME NEW V, NEW E, NEW g, IsGraph(g, V, E),
         NEW name, NEW abs_path, Vertex(name, abs_path) \in V,
         NEW h, h = add_vertex(g, name, abs_path)
  PROVE  /\ IsGraph(h, V, E)
         /\ Labels(h) = Labels(g) \cup {Key(name, abs_path)}
         /\ h.undefined = g.undefined
         /\ \A k \in Labels(g) :
              h.vertexes[k] = g.vertexes[k] /\ h.out[k] = g.out[k]
         /\ Key(name, abs_path) \notin Labels(g) =>
              /\ h.vertexes[Key(name, abs_path)] = Vertex(name, abs_path)
              /\ h.out[Key(name, abs_path)] = <<>>
<1> DEFINE key == Key(name, abs_path)
           vs  == Extend(g.vertexes, key, Vertex(name, abs_path))
           out == Extend(g.out, key, <<>>)
<1>1. CASE key \in Labels(g)
  BY <1>1 DEF add_vertex
<1>2. CASE key \notin Labels(g)
  <2>1. h = [g EXCEPT !.vertexes = vs, !.out = out]
    BY <1>2 DEF add_vertex
  <2>2. h = [vertexes |-> vs, out |-> out, undefined |-> g.undefined]
    BY <2>1 DEF IsGraph
  <2>a. /\ g.vertexes \in [Labels(g) -> V] /\ g.out \in [Labels(g) -> Seq(E)]
        /\ <<>> \in Seq(E)
    BY EmptySeq DEF IsGraph
  <2> HIDE DEF key
  <2>3. /\ vs \in [Labels(g) \cup {key} -> V] /\ vs[key] = Vertex(name, abs_path)
        /\ DOMAIN vs = Labels(g) \cup {key}
        /\ \A k \in Labels(g) : k # key => vs[k] = g.vertexes[k]
    BY <2>a DEF Extend
  <2>4. /\ out \in [Labels(g) \cup {key} -> Seq(E)] /\ out[key] = <<>>
        /\ \A k \in Labels(g) : k # key => out[k] = g.out[k]
    BY <2>a DEF Extend
  <2> HIDE DEF vs, out
  <2>5. h.vertexes = vs /\ h.out = out /\ h.undefined = g.undefined
    BY <2>2
  <2>6. Labels(h) = Labels(g) \cup {key}
    BY <2>3, <2>5 DEF Labels
  <2>7. IsGraph(h, V, E)
    BY <2>2, <2>3, <2>4, <2>5, <2>6 DEF IsGraph
  <2>8. QED
    BY <1>2, <2>3, <2>4, <2>5, <2>6, <2>7 DEF key
<1>3. QED
  BY <1>1, <1>2

(* From a source that has a vertex, the destination gets one, and the      *)
(* source one more edge, at the end; nothing else changes.                 *)
LEMMA InsertEdgeLemma ==
  ASSUME NEW V, NEW E, NEW g, IsGraph(g, V, E),
         NEW src \in Labels(g), NEW dst_path, NEW name, NEW line_no,
         Vertex(name, dst_path) \in V, Edge(Key(name, dst_path), line_no) \in E,
         NEW h, h = insert_edge(g, src, dst_path, name, line_no)
  PROVE  /\ IsGraph(h, V, E)
         /\ Labels(h) = Labels(g) \cup {Key(name, dst_path)}
         /\ h.undefined = g.undefined
         /\ \A k \in Labels(g) : h.vertexes[k] = g.vertexes[k]
         /\ \A k \in Labels(g) : k # src => h.out[k] = g.out[k]
         /\ h.out[src] = Append(g.out[src], Edge(Key(name, dst_path), line_no))
         /\ Key(name, dst_path) \notin Labels(g) =>
              /\ h.vertexes[Key(name, dst_path)] = Vertex(name, dst_path)
              /\ h.out[Key(name, dst_path)] = <<>>
<1> DEFINE key == Key(name, dst_path)
           e   == Edge(key, line_no)
           a   == add_vertex(g, name, dst_path)
           new == [a.out EXCEPT ![src] = Append(a.out[src], e)]
<1>1. /\ IsGraph(a, V, E) /\ Labels(a) = Labels(g) \cup {key}
      /\ a.undefined = g.undefined
      /\ \A k \in Labels(g) : a.vertexes[k] = g.vertexes[k] /\ a.out[k] = g.out[k]
      /\ key \notin Labels(g) =>
           a.vertexes[key] = Vertex(name, dst_path) /\ a.out[key] = <<>>
  BY AddVertexLemma
<1>2. h = [a EXCEPT !.out = new]
  BY <1>1 DEF insert_edge, add_edge_by_label
<1> HIDE DEF a
<1>3. h = [vertexes |-> a.vertexes, out |-> new, undefined |-> a.undefined]
  BY <1>1, <1>2 DEF IsGraph
<1>4. a.out \in [Labels(a) -> Seq(E)] /\ src \in Labels(a) /\ e \in E
  BY <1>1 DEF IsGraph
<1>5. Append(a.out[src], e) \in Seq(E)
  BY <1>4, AppendProperties
<1>6. /\ new \in [Labels(a) -> Seq(E)] /\ new[src] = Append(a.out[src], e)
      /\ \A k \in Labels(a) : k # src => new[k] = a.out[k]
  BY <1>4, <1>5
<1> HIDE DEF new, e, key
<1>7. h.vertexes = a.vertexes /\ h.out = new /\ h.undefined = a.undefined
  BY <1>3
<1>8. Labels(h) = Labels(a)
  BY <1>7 DEF Labels
<1>9. IsGraph(h, V, E)
  BY <1>1, <1>3, <1>6, <1>7, <1>8 DEF IsGraph
<1>10. h.out[src] = Append(g.out[src], e)
  BY <1>1, <1>6, <1>7
<1>11. key \notin Labels(g) => h.out[key] = <<>>
  BY <1>1, <1>6, <1>7
<1>12. QED
  BY <1>1, <1>6, <1>7, <1>8, <1>9, <1>10, <1>11 DEF key, e

(* Edges that led to vertexes still do, and what was there is there.       *)
LEMMA AddVertexKeeps ==
  ASSUME NEW V, NEW E, NEW g, IsGraph(g, V, E), Closed(g),
         NEW name, NEW abs_path, Vertex(name, abs_path) \in V,
         NEW h, h = add_vertex(g, name, abs_path)
  PROVE  Closed(h) /\ Extends(h, g)
<1> DEFINE key == Key(name, abs_path)
<1>1. /\ Labels(h) = Labels(g) \cup {key}
      /\ \A k \in Labels(g) : h.vertexes[k] = g.vertexes[k] /\ h.out[k] = g.out[k]
      /\ key \notin Labels(g) => h.out[key] = <<>>
  BY AddVertexLemma
<1> HIDE DEF key
<1>2. \A k \in Labels(g) : g.out[k] \in Seq(E) /\ Len(g.out[k]) \in Nat
  BY LenProperties DEF IsGraph
<1>3. QED
  BY <1>1, <1>2, EmptySeq DEF Closed, Extends

LEMMA InsertEdgeKeeps ==
  ASSUME NEW V, NEW E, NEW g, IsGraph(g, V, E), Closed(g),
         NEW src \in Labels(g), NEW dst_path, NEW name, NEW line_no,
         Vertex(name, dst_path) \in V, Edge(Key(name, dst_path), line_no) \in E,
         NEW h, h = insert_edge(g, src, dst_path, name, line_no)
  PROVE  Closed(h) /\ Extends(h, g)
<1> DEFINE key == Key(name, dst_path)
           e   == Edge(key, line_no)
<1>1. /\ Labels(h) = Labels(g) \cup {key}
      /\ \A k \in Labels(g) : h.vertexes[k] = g.vertexes[k]
      /\ \A k \in Labels(g) : k # src => h.out[k] = g.out[k]
      /\ h.out[src] = Append(g.out[src], e)
      /\ key \notin Labels(g) => h.out[key] = <<>>
  BY InsertEdgeLemma
<1>2. \A k \in Labels(g) : g.out[k] \in Seq(E) /\ Len(g.out[k]) \in Nat
  BY LenProperties DEF IsGraph
<1>3. e \in E /\ e.dst = key
  BY DEF Edge
<1> HIDE DEF key, e
<1>4. /\ Len(h.out[src]) = Len(g.out[src]) + 1
      /\ h.out[src][Len(g.out[src]) + 1] = e
      /\ \A i \in 1..Len(g.out[src]) : h.out[src][i] = g.out[src][i]
  BY <1>1, <1>2, <1>3, AppendProperties
<1>5. Extends(h, g)
  <2> SUFFICES ASSUME NEW k \in Labels(g)
               PROVE  /\ Len(g.out[k]) <= Len(h.out[k])
                      /\ \A i \in 1..Len(g.out[k]) : h.out[k][i] = g.out[k][i]
    BY <1>1 DEF Extends
  <2>1. CASE k = src
    BY <2>1, <1>2, <1>4
  <2>2. CASE k # src
    BY <2>2, <1>1, <1>2
  <2>3. QED
    BY <2>1, <2>2
<1>6. \A i \in 1..Len(h.out[src]) : h.out[src][i].dst \in Labels(h)
  <2> TAKE i \in 1..Len(h.out[src])
  <2>1. CASE i = Len(g.out[src]) + 1
    BY <2>1, <1>1, <1>3, <1>4
  <2>2. CASE i \in 1..Len(g.out[src])
    BY <2>2, <1>1, <1>4 DEF Closed
  <2>3. QED
    BY <2>1, <2>2, <1>2, <1>4
<1>7. QED
  <2> SUFFICES ASSUME NEW k \in Labels(h), NEW i \in 1..Len(h.out[k])
               PROVE  h.out[k][i].dst \in Labels(h)
    BY <1>5 DEF Closed
  <2>1. CASE k = src
    BY <2>1, <1>6
  <2>2. CASE k \in Labels(g) /\ k # src
    BY <2>2, <1>1 DEF Closed
  <2>3. CASE k = key /\ key \notin Labels(g)
    BY <2>3, <1>1
  <2>4. QED
    BY <1>1, <2>1, <2>2, <2>3
=============================================================================
