----------------------------- MODULE ConfigTree -----------------------------
(***************************************************************************)
(* util/config.cpp: a configuration file is read into a tree of keys,      *)
(* looked up and changed by paths, and saved again.                        *)
(*                                                                         *)
(* A line has its number of leading tabs, its kind and, trimmed, its key   *)
(* and its value; every line ends in a newline and is shorter than         *)
(* CONFIG_MAX_LINE.  The tree is the sequence of its nodes in the order    *)
(* they were added, node 1 being the root; a node's children are the nodes *)
(* that name it as parent, in that order.                                  *)
(***************************************************************************)
EXTENDS Integers, Sequences, SequencesExt, FiniteSetsExt

LineOf(indent, kind, key, val) == [indent |-> indent, kind |-> kind, key |-> key, val |-> val]

Root == <<[key |-> "root", val |-> "", parent |-> 0, depth |-> 0]>>

add_child(nodes, p, key, val) ==
    Append(nodes, [key |-> key, val |-> val, parent |-> p, depth |-> nodes[p].depth + 1])

ChildrenOf(nodes, p) == {i \in 1..Len(nodes) : nodes[i].parent = p}

\* The last child of that name, 0 if there is none.
find_child(nodes, p, key) ==
    LET hits == {i \in ChildrenOf(nodes, p) : nodes[i].key = key}
    IN  IF hits = {} THEN 0 ELSE Max(hits)

is_comment(node) == node.key = "#"

-----------------------------------------------------------------------------
(* load *)

\* cfg is moved up n times, but not above the root.
RECURSIVE Up(_, _, _)
Up(nodes, cfg, n) ==
    IF n = 0 \/ cfg = 1 THEN cfg ELSE Up(nodes, nodes[cfg].parent, n - 1)

LoadLine(st, ln) ==
    LET cfg == IF ln.indent <= st.last
               THEN Up(st.nodes, st.cfg, st.last - ln.indent + 1) ELSE st.cfg
    IN  CASE ~st.ok \/ ln.kind = "empty" -> st
          [] st.ok /\ ln.kind = "comment" ->
                 [st EXCEPT !.nodes = add_child(@, st.cfg, "#", ln.val)]
          [] st.ok /\ ln.kind \notin {"empty", "comment"} /\ ln.indent > st.last + 1 ->
                 [st EXCEPT !.ok = FALSE]
          [] st.ok /\ ln.kind \in {"space", "noseparator"} /\ ln.indent <= st.last + 1 ->
                 [st EXCEPT !.ok = FALSE]
          [] OTHER -> [st EXCEPT !.nodes = add_child(@, cfg, ln.key, ln.val),
                                 !.cfg = Len(st.nodes) + 1, !.last = ln.indent]

\* [ok, nodes]: NULL on the first line that is not valid.
load(lines) ==
    LET st == FoldLeft(LoadLine, [ok |-> TRUE, nodes |-> Root, cfg |-> 1, last |-> 0], lines)
    IN  [ok |-> st.ok, nodes |-> st.nodes]

-----------------------------------------------------------------------------
(* save: the tree in preorder, children in the order they were added *)

RECURSIVE save(_, _)
save(nodes, p) ==
    FlattenSeq([k \in 1..Cardinality(ChildrenOf(nodes, p)) |->
        LET c == SetToSortSeq(ChildrenOf(nodes, p), <)[k]
        IN  <<LineOf(nodes[p].depth, IF is_comment(nodes[c]) THEN "comment" ELSE "pair",
                     nodes[c].key, nodes[c].val)>> \o save(nodes, c)])

-----------------------------------------------------------------------------
(* Paths: the fields between the separators '.' and '/' *)

\* The node at the end of the path, 0 (NULL) if a field has none.
get(nodes, path) ==
    FoldLeft(LAMBDA p, f : IF p = 0 THEN 0 ELSE find_child(nodes, p, f), 1, path)

get_str(nodes, path) == IF get(nodes, path) = 0 THEN "" ELSE nodes[get(nodes, path)].val

\* The same walk, which adds the nodes that are missing.
build_key_path(nodes, path) ==
    FoldLeft(LAMBDA st, f :
                LET c == find_child(st.nodes, st.at, f)
                IN  IF c # 0 THEN [st EXCEPT !.at = c]
                    ELSE [nodes |-> add_child(st.nodes, st.at, f, ""),
                          at |-> Len(st.nodes) + 1],
             [nodes |-> nodes, at |-> 1], path)

set(nodes, path, val) ==
    LET b == build_key_path(nodes, path) IN [b.nodes EXCEPT ![b.at].val = val]

=============================================================================
