------------------------------- MODULE RBTree -------------------------------
(***************************************************************************)
(* The red-black tree of rbtree.cc, on which every index of the store is   *)
(* built.  A call runs through the cases of its rebalancing one function   *)
(* at a time; the tree is a heap of nodes with parent pointers.            *)
(***************************************************************************)
EXTENDS Integers, Sequences

CONSTANTS Keys,     \* positive numbers, in the order of IntComp
          Values

NULL == 0
Nodes == Keys
Absent == 0

ASSUME KeysAssumption == Keys \subseteq Nat \ {0} /\ Values \subseteq Nat \ {0}

VARIABLES t,        \* the root, and the nodes by address
          pc,       \* the function about to run, or "idle"
          n,        \* its argument
          del,      \* in rbtree_delete: the node to be unlinked ...
          child     \* ... and the child that takes its place

vars == <<t, pc, n, del, child>>

FreeNode == [key |-> 0, value |-> Absent, left |-> NULL, right |-> NULL,
             parent |-> NULL, color |-> "BLACK"]

-----------------------------------------------------------------------------
(* Neighbours and pointer surgery *)

Opposite(s) == IF s = "left" THEN "right" ELSE "left"

parent(m) == t.node[m].parent
node_color(m) == IF m = NULL THEN "BLACK" ELSE t.node[m].color
\* The side of its parent on which m hangs.
Side(m) == IF t.node[parent(m)].left = m THEN "left" ELSE "right"
sibling(m) == t.node[parent(m)][Opposite(Side(m))]
grandparent(m) == parent(parent(m))
uncle(m) == sibling(parent(m))

Paint(tr, m, c) == [tr EXCEPT !.node[m].color = c]

replace_node(tr, oldn, newn) ==
    LET p == tr.node[oldn].parent
        s == IF p # NULL /\ tr.node[p].left = oldn THEN "left" ELSE "right"
        linked == IF p = NULL THEN [tr EXCEPT !.root = newn]
                              ELSE [tr EXCEPT !.node[p][s] = newn]
    IN  IF newn = NULL THEN linked ELSE [linked EXCEPT !.node[newn].parent = p]

\* Mutant: the inner grandchild keeps its old parent pointer.
rotate_orphan(tr, m, s) ==
    LET r == tr.node[m][Opposite(s)]
    IN  [replace_node(tr, m, r) EXCEPT !.node[m][Opposite(s)] = tr.node[r][s],
                                       !.node[m].parent = r,
                                       !.node[r][s] = m]

\* Mutant: the inner grandchild is dropped.
rotate_drop(tr, m, s) ==
    LET r == tr.node[m][Opposite(s)]
    IN  [replace_node(tr, m, r) EXCEPT !.node[m][Opposite(s)] = NULL,
                                       !.node[m].parent = r,
                                       !.node[r][s] = m]

\* rotate_left (s = "left") and rotate_right.
rotate(tr, m, s) ==
    LET r == tr.node[m][Opposite(s)]
        inner == tr.node[r][s]
        turned == [replace_node(tr, m, r) EXCEPT !.node[m][Opposite(s)] = inner,
                                                 !.node[m].parent = r,
                                                 !.node[r][s] = m]
    IN  IF inner = NULL THEN turned ELSE [turned EXCEPT !.node[inner].parent = m]

-----------------------------------------------------------------------------
(* Lookup *)

\* Where the descent for key k ends: at the node of k, or at the node under
\* which k belongs.
Descent(k) ==
    LET down[m \in Nodes] ==
          LET next == IF k < t.node[m].key THEN t.node[m].left ELSE t.node[m].right
          IN  IF k = t.node[m].key \/ next = NULL THEN m ELSE down[next]
    IN  down[t.root]

lookup_node(k) ==
    IF t.root = NULL \/ t.node[Descent(k)].key # k THEN NULL ELSE Descent(k)

rbtree_lookup(k) == IF lookup_node(k) = NULL THEN Absent ELSE t.node[lookup_node(k)].value

maximum_node(m) ==
    LET down[x \in Nodes] == IF t.node[x].right = NULL THEN x ELSE down[t.node[x].right]
    IN  down[m]

Live == {m \in Nodes : t.node[m].key # 0}

-----------------------------------------------------------------------------
Init ==
    /\ t = [root |-> NULL, node |-> [m \in Nodes |-> FreeNode]]
    /\ pc = "idle"
    /\ n = NULL
    /\ del = NULL
    /\ child = NULL

\* The address of a new node does not matter: the node is named after its key
\* when that name is free.
new_node(k) == IF k \notin Live THEN k ELSE CHOOSE m \in Nodes : m \notin Live

Call(f, m) == pc' = f /\ n' = m
Return == pc' = "idle" /\ n' = NULL

rbtree_insert(k, v) ==
    /\ pc = "idle"
    /\ UNCHANGED <<del, child>>
    /\ IF lookup_node(k) # NULL
       THEN /\ t' = [t EXCEPT !.node[lookup_node(k)].value = v]
            /\ Return
       ELSE LET m == new_node(k)
                p == IF t.root = NULL THEN NULL ELSE Descent(k)
                made == [FreeNode EXCEPT !.key = k, !.value = v, !.color = "RED",
                                         !.parent = p]
            IN  /\ t' = IF p = NULL
                        THEN [t EXCEPT !.root = m, !.node[m] = made]
                        ELSE [t EXCEPT !.node[m] = made,
                                       !.node[p][IF k < t.node[p].key THEN "left"
                                                                      ELSE "right"] = m]
                /\ Call("insert_case1", m)

insert_case1 ==
    /\ pc = "insert_case1"
    /\ UNCHANGED <<del, child>>
    /\ IF parent(n) = NULL
       THEN t' = Paint(t, n, "BLACK") /\ Return
       ELSE t' = t /\ Call("insert_case2", n)

insert_case2 ==
    /\ pc = "insert_case2"
    /\ UNCHANGED <<t, del, child>>
    /\ IF node_color(parent(n)) = "BLACK" THEN Return ELSE Call("insert_case3", n)

insert_case3 ==
    /\ pc = "insert_case3"
    /\ UNCHANGED <<del, child>>
    /\ IF node_color(uncle(n)) = "RED"
       THEN /\ t' = Paint(Paint(Paint(t, parent(n), "BLACK"), uncle(n), "BLACK"),
                          grandparent(n), "RED")
            /\ Call("insert_case1", grandparent(n))
       ELSE t' = t /\ Call("insert_case4", n)

\* Mutant: the inner rotation is left out.
insert_case4_norotation ==
    /\ pc = "insert_case4"
    /\ UNCHANGED <<t, del, child>>
    /\ Call("insert_case5", n)

\* Mutant: starts over after the inner rotation.
insert_case4_restart ==
    /\ pc = "insert_case4"
    /\ UNCHANGED <<del, child>>
    /\ IF Side(n) # Side(parent(n))
       THEN /\ t' = rotate(t, parent(n), Side(parent(n)))
            /\ Call("insert_case1", parent(n))
       ELSE t' = t /\ Call("insert_case1", n)

insert_case4 ==
    /\ pc = "insert_case4"
    /\ UNCHANGED <<del, child>>
    /\ IF Side(n) # Side(parent(n))
       THEN /\ t' = rotate(t, parent(n), Side(parent(n)))
            /\ Call("insert_case5", parent(n))
       ELSE t' = t /\ Call("insert_case5", n)

insert_case5 ==
    /\ pc = "insert_case5"
    /\ UNCHANGED <<del, child>>
    /\ t' = rotate(Paint(Paint(t, parent(n), "BLACK"), grandparent(n), "RED"),
                   grandparent(n),
                   IF Side(n) = "left" /\ Side(parent(n)) = "left" THEN "right" ELSE "left")
    /\ Return

\* Mutant: the value of the predecessor is not copied.
rbtree_delete_keyonly(k) ==
    LET m == lookup_node(k)
        pred == maximum_node(t.node[m].left)
        d == IF t.node[m].left # NULL /\ t.node[m].right # NULL THEN pred ELSE m
        c == IF t.node[d].right = NULL THEN t.node[d].left ELSE t.node[d].right
        copied == [t EXCEPT !.node[m].key = t.node[d].key]
    IN  /\ pc = "idle"
        /\ m # NULL
        /\ del' = d
        /\ child' = c
        /\ IF node_color(d) = "BLACK"
           THEN t' = Paint(copied, d, node_color(c)) /\ Call("delete_case1", d)
           ELSE t' = copied /\ Call("unlink", d)

\* A node with two children takes over its predecessor, which is unlinked in
\* its place.
rbtree_delete(k) ==
    LET m == lookup_node(k)
        pred == maximum_node(t.node[m].left)
        d == IF t.node[m].left # NULL /\ t.node[m].right # NULL THEN pred ELSE m
        c == IF t.node[d].right = NULL THEN t.node[d].left ELSE t.node[d].right
        copied == [t EXCEPT !.node[m].key = t.node[d].key, !.node[m].value = t.node[d].value]
    IN  /\ pc = "idle"
        /\ m # NULL
        /\ del' = d
        /\ child' = c
        /\ IF node_color(d) = "BLACK"
           THEN t' = Paint(copied, d, node_color(c)) /\ Call("delete_case1", d)
           ELSE t' = copied /\ Call("unlink", d)

delete_case1 ==
    /\ pc = "delete_case1"
    /\ UNCHANGED <<t, del, child>>
    /\ Call(IF parent(n) = NULL THEN "unlink" ELSE "delete_case2", n)

delete_case2 ==
    /\ pc = "delete_case2"
    /\ UNCHANGED <<del, child>>
    /\ Call("delete_case3", n)
    /\ t' = IF node_color(sibling(n)) = "RED"
            THEN rotate(Paint(Paint(t, parent(n), "RED"), sibling(n), "BLACK"),
                        parent(n), Side(n))
            ELSE t

\* The sibling and its children are black.
BlackSibling ==
    /\ node_color(sibling(n)) = "BLACK"
    /\ node_color(t.node[sibling(n)].left) = "BLACK"
    /\ node_color(t.node[sibling(n)].right) = "BLACK"

\* Mutant: stops at the parent instead of going up from it.
delete_case3_once ==
    /\ pc = "delete_case3"
    /\ UNCHANGED <<del, child>>
    /\ IF node_color(parent(n)) = "BLACK" /\ BlackSibling
       THEN t' = Paint(t, sibling(n), "RED") /\ Call("unlink", n)
       ELSE t' = t /\ Call("delete_case4", n)

delete_case3 ==
    /\ pc = "delete_case3"
    /\ UNCHANGED <<del, child>>
    /\ IF node_color(parent(n)) = "BLACK" /\ BlackSibling
       THEN t' = Paint(t, sibling(n), "RED") /\ Call("delete_case1", parent(n))
       ELSE t' = t /\ Call("delete_case4", n)

delete_case4 ==
    /\ pc = "delete_case4"
    /\ UNCHANGED <<del, child>>
    /\ IF node_color(parent(n)) = "RED" /\ BlackSibling
       THEN t' = Paint(Paint(t, sibling(n), "RED"), parent(n), "BLACK") /\ Call("unlink", n)
       ELSE t' = t /\ Call("delete_case5", n)

delete_case5 ==
    LET s == Side(n)
        b == sibling(n)
        inner == t.node[b][s]
    IN  /\ pc = "delete_case5"
        /\ UNCHANGED <<del, child>>
        /\ Call("delete_case6", n)
        /\ t' = IF /\ node_color(b) = "BLACK"
                   /\ node_color(inner) = "RED"
                   /\ node_color(t.node[b][Opposite(s)]) = "BLACK"
                THEN rotate(Paint(Paint(t, b, "RED"), inner, "BLACK"), b, Opposite(s))
                ELSE t

delete_case6 ==
    LET s == Side(n)
        b == sibling(n)
        outer == t.node[b][Opposite(s)]
    IN  /\ pc = "delete_case6"
        /\ UNCHANGED <<del, child>>
        /\ t' = rotate(Paint(Paint(Paint(t, b, node_color(parent(n))), parent(n), "BLACK"),
                             outer, "BLACK"),
                       parent(n), s)
        /\ Call("unlink", n)

\* The end of rbtree_delete.
unlink ==
    LET cut == replace_node(t, del, child)
        whole == IF parent(del) = NULL /\ child # NULL THEN Paint(cut, child, "BLACK") ELSE cut
    IN  /\ pc = "unlink"
        /\ t' = [whole EXCEPT !.node[del] = FreeNode]
        /\ del' = NULL
        /\ child' = NULL
        /\ Return

Rebalance ==
    \/ insert_case1 \/ insert_case2 \/ insert_case3 \/ insert_case4 \/ insert_case5
    \/ delete_case1 \/ delete_case2 \/ delete_case3 \/ delete_case4 \/ delete_case5
    \/ delete_case6 \/ unlink

Next ==
    \/ \E k \in Keys, v \in Values : rbtree_insert(k, v)
    \/ \E k \in Keys : rbtree_delete(k)
    \/ Rebalance

Spec == Init /\ [][Next]_vars

-----------------------------------------------------------------------------
(* Properties *)

\* The black nodes on a path from m to a leaf, or -1 if paths disagree.
BlackHeight ==
    LET h[m \in Nodes \cup {NULL}] ==
          IF m = NULL THEN 1
          ELSE LET l == h[t.node[m].left]
                   r == h[t.node[m].right]
               IN  IF l = -1 \/ l # r THEN -1
                   ELSE l + IF node_color(m) = "BLACK" THEN 1 ELSE 0
    IN  h[t.root]

\* verify_properties, which the default build leaves out: between two calls
\* the root is black, a red node has black neighbours, and all paths have the
\* same number of black nodes.
verify_properties ==
    pc = "idle" =>
        /\ node_color(t.root) = "BLACK"
        /\ \A m \in Live : node_color(m) = "RED" =>
             /\ node_color(t.node[m].left) = "BLACK"
             /\ node_color(t.node[m].right) = "BLACK"
             /\ node_color(parent(m)) = "BLACK"
        /\ BlackHeight # -1

\* Child and parent pointers mirror each other at every step of a rotation
\* or unlinking: only the root has no parent, and every node hangs from its own.
ParentsMirror ==
    \A m \in Live :
        /\ parent(m) = NULL <=> m = t.root
        /\ parent(m) # NULL =>
             /\ parent(m) \in Live
             /\ t.node[parent(m)].left = m \/ t.node[parent(m)].right = m
        /\ \A s \in {"left", "right"} :
             t.node[m][s] # NULL => t.node[m][s] \in Live /\ parent(t.node[m][s]) = m

\* The assertions of grandparent, sibling, uncle, insert_case5 and
\* delete_case6 hold where these are called, and the sibling whose children
\* delete_case3 to delete_case6 read is never NULL.
AssertionsHold ==
    /\ pc \in {"insert_case3", "insert_case4", "insert_case5"} =>
         parent(n) # NULL /\ grandparent(n) # NULL
    /\ pc = "insert_case5" => Side(n) = Side(parent(n))
    /\ pc \in {"delete_case2", "delete_case3", "delete_case4", "delete_case5", "delete_case6"} =>
         parent(n) # NULL /\ sibling(n) # NULL
    /\ pc = "delete_case6" =>
         node_color(t.node[sibling(n)][Opposite(Side(n))]) = "RED"

\* The map that the nodes stand for.  The node being unlinked no longer counts.
Contents ==
    [k \in Keys |->
        IF \E m \in Live \ {del} : t.node[m].key = k
        THEN t.node[CHOOSE m \in Live \ {del} : t.node[m].key = k].value
        ELSE Absent]

\* Between two calls a lookup finds exactly what was inserted and not deleted:
\* no rotation puts a node where the descent does not come by.
LookupFinds == pc = "idle" => \A k \in Keys : rbtree_lookup(k) = Contents[k]

\* rbtree.cc implements a map with replacement.
Map == INSTANCE RBMap WITH map <- Contents
ImplementsMap == Map!Spec

\* The black nodes above m.
BlackAbove(m) ==
    LET up[x \in Nodes] ==
          IF parent(x) = NULL THEN 0
          ELSE up[parent(x)] + IF node_color(parent(x)) = "BLACK" THEN 1 ELSE 0
    IN  up[m]

\* How far a call is from its end: the functions follow each other, and the
\* two that start over do so with fewer black nodes above.
Remaining ==
    LET rank == CASE pc \in {"insert_case1", "delete_case1"} -> 6
                  [] pc \in {"insert_case2", "delete_case2"} -> 5
                  [] pc \in {"insert_case3", "delete_case3"} -> 4
                  [] pc \in {"insert_case4", "delete_case4"} -> 3
                  [] pc \in {"insert_case5", "delete_case5"} -> 2
                  [] pc = "delete_case6" -> 1
    IN  CASE pc = "idle" -> 0 [] pc = "unlink" -> 1 [] OTHER -> 2 + 7 * BlackAbove(n) + rank

\* Every call returns: the mutual recursion of insert_case1 to 5 and of
\* delete_case1 to 6 comes nearer to its end with each function, for every
\* shape the tree can have in the middle of it.
CallsReturn == [][pc # "idle" => Remaining' < Remaining]_vars
=============================================================================
