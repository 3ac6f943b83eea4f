------------------------------- MODULE Solver -------------------------------
(***************************************************************************)
(* What class Solver and its languages share: the graph (inc/solver.h,     *)
(* inc/graph.h, inc/vertex.h), add_vertex (src/solver.cpp), and the        *)
(* insert_edge of Solver_C and Solver_Rb, which is the same code twice.    *)
(*                                                                         *)
(* The map vertexes and the boost::labeled_graph have the same keys: a     *)
(* file's canonical path, or the statement itself when no file was found.  *)
(* The graph is a value here; the modules that own one, and the mutex that *)
(* guards it, apply these operators to it.                                 *)
(***************************************************************************)
EXTENDS Naturals, Sequences

CONSTANT NoPath      (* the empty path: "no such file"                      *)

(* vertexes: key -> Vertex.  out: key -> the out-edges in the order they   *)
(* were added (a list; the same edge may be there more than once).         *)
(* undefined: add_edge_by_label was called for a label it does not know,   *)
(* or two threads were in the graph at the same time: undefined behaviour, *)
(* nothing is known of the graph after that.                               *)
EmptyGraph == [vertexes |-> <<>>, out |-> <<>>, undefined |-> FALSE]

Labels(g) == DOMAIN g.vertexes

(* A data race: one thread changes the graph, another one is in it too.    *)
Raced(g) == [g EXCEPT !.undefined = TRUE]

(* A file, existing or not.                                                *)
Vertex(name, abs_path) == [name |-> name, abs_path |-> abs_path]

(* Broken: the path is the key, also when there is none.                   *)
KeyIsPath(name, abs_path) == abs_path

(* "if abs_path is empty, take the name as key!"                           *)
Key(name, abs_path) == IF abs_path = NoPath THEN name ELSE abs_path

Extend(f, key, value) ==
  [k \in DOMAIN f \cup {key} |-> IF k = key THEN value ELSE f[k]]

(* Broken: a vertex that exists already takes the new name.                *)
renaming_add_vertex(g, name, abs_path) ==
  LET key == Key(name, abs_path)
  IN  [g EXCEPT !.vertexes = Extend(@, key, Vertex(name, abs_path)),
                !.out = IF key \in DOMAIN @ THEN @ ELSE Extend(@, key, <<>>)]

(* The first name a vertex is added with is the one it keeps.              *)
add_vertex(g, name, abs_path) ==
  LET key == Key(name, abs_path)
  IN  IF key \in Labels(g) THEN g
      ELSE [g EXCEPT
             !.vertexes = Extend(@, key, Vertex(name, abs_path)),
             !.out = Extend(@, key, <<>>)]

Edge(dst, line) == [dst |-> dst, line |-> line]

(* Broken: new edges go to the front.                                      *)
add_edge_in_front(g, src, dst, line) ==
  IF src \in Labels(g) /\ dst \in Labels(g)
  THEN [g EXCEPT !.out[src] = <<Edge(dst, line)>> \o @]
  ELSE [g EXCEPT !.undefined = TRUE]

add_edge_by_label(g, src, dst, line) ==
  IF src \in Labels(g) /\ dst \in Labels(g)
  THEN [g EXCEPT !.out[src] = Append(@, Edge(dst, line))]
  ELSE [g EXCEPT !.undefined = TRUE]

(* Broken: an edge that is there already is not added again.               *)
deduplicating_insert_edge(g, src, dst_path, name, line_no) ==
  LET h == add_vertex(g, name, dst_path)
      e == Edge(Key(name, dst_path), line_no)
  IN  IF \E i \in 1..Len(h.out[src]) : h.out[src][i].dst = e.dst THEN h
      ELSE add_edge_by_label(h, src, e.dst, line_no)

(* Broken: the destination is labelled by its name, found or not.          *)
insert_edge_by_name(g, src, dst_path, name, line_no) ==
  add_edge_by_label(add_vertex(g, name, NoPath), src, name, line_no)

(* Every call adds an edge, whether there is one already or not.           *)
insert_edge(g, src, dst_path, name, line_no) ==
  add_edge_by_label(add_vertex(g, name, dst_path), src,
                    Key(name, dst_path), line_no)
=============================================================================
