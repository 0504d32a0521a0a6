------------------------------ MODULE MCRBTree ------------------------------
(***************************************************************************)
(* RBTree for TLC.                                                         *)
(***************************************************************************)
EXTENDS RBTree

\* The state without addresses: a node is called by its key, the node that
\* rbtree_delete unlinks, whose key another node may have taken over, by -1,
\* and a node that has been freed by -2.  No function tells two states apart
\* that differ in addresses only.
Name(m) ==
    IF m = NULL THEN NULL
    ELSE IF t.node[m].key = 0 THEN -2 ELSE IF m = del THEN -1 ELSE t.node[m].key

ShapeView ==
    LET node == {<<Name(m), t.node[m].key, t.node[m].value, t.node[m].color,
                   Name(t.node[m].left), Name(t.node[m].right), Name(t.node[m].parent)>>
                    : m \in Live}
    IN  <<Name(t.root), node, pc, Name(n), Name(del), Name(child)>>
=============================================================================
