------------------------------ MODULE Quadtree ------------------------------
(***************************************************************************)
(* The quadtree of image-compressor/quadtree.c.                            *)
(*                                                                         *)
(* A node of a tree is named by its path from the root, the sequence of    *)
(* the pointers followed, and a tree is a function from the paths of its   *)
(* nodes to their contents: a child pointer is NULL when the longer path   *)
(* is not in the domain.  An image is a function from <<row, column>> to   *)
(* pixels, a pixel one from the three channels to their values.            *)
(*                                                                         *)
(* maketree recurses forever on a negative threshold, and divides by zero  *)
(* first; a threshold here is a natural number, so that a block of one     *)
(* pixel, whose score is 0, is always a leaf.                              *)
(***************************************************************************)
EXTENDS Integers, Sequences, FiniteSets, SequencesExt

Channels == {"red", "green", "blue"}
Quadrants == {"top_left", "top_right", "bottom_right", "bottom_left"}

Side(img) == CHOOSE n \in 0 .. Cardinality(DOMAIN img) : n * n = Cardinality(DOMAIN img)

(***************************************************************************)
(* The square a node stands for: its first row and column and its side.    *)
(* A child takes half the side, rounded down, so that the last row and the *)
(* last column of an odd square belong to no child.                        *)
(***************************************************************************)
Quarter(b, q) ==
    LET half == b.dist \div 2
    IN  [x |-> IF q \in {"bottom_left", "bottom_right"} THEN b.x + half ELSE b.x,
         y |-> IF q \in {"top_right", "bottom_right"} THEN b.y + half ELSE b.y,
         dist |-> half]

Block(width, p) ==
    LET at[n \in 0 .. Len(p)] == IF n = 0 THEN [x |-> 0, y |-> 0, dist |-> width]
                                 ELSE Quarter(at[n - 1], p[n])
    IN  at[Len(p)]

Cells(b) == (b.x .. b.x + b.dist - 1) \X (b.y .. b.y + b.dist - 1)

(* Mutant: the sum divided by the side instead of the area. *)
getmedByTheSide(img, b) ==
    LET Mean(c) == SumFunction([cell \in Cells(b) |-> img[cell][c]]) \div b.dist
    IN  [red |-> Mean("red"), green |-> Mean("green"), blue |-> Mean("blue")]

getmed(img, b) ==
    LET Mean(c) == SumFunction([cell \in Cells(b) |-> img[cell][c]]) \div (b.dist * b.dist)
    IN  [red |-> Mean("red"), green |-> Mean("green"), blue |-> Mean("blue")]

score(img, b) ==
    LET med == getmed(img, b)
        Square(d) == d * d
        Spread(pixel) == Square(med.red - pixel.red) + Square(med.green - pixel.green)
                         + Square(med.blue - pixel.blue)
    IN  SumFunction([cell \in Cells(b) |-> Spread(img[cell])]) \div (3 * b.dist * b.dist)

-----------------------------------------------------------------------------
(* The side of a square n levels down. *)
Halved(width, n) ==
    LET side[k \in 0 .. n] == IF k = 0 THEN width ELSE side[k - 1] \div 2
    IN  side[n]

(* A square of one pixel has no children. *)
Depth(width) == CHOOSE d \in 0 .. width : Halved(width, d) = 1

Paths(width) == UNION {Prefixes(p) : p \in [1 .. Depth(width) -> Quadrants]}

(* A node is made when every node above it was split. *)
maketree(img, prag) ==
    LET width == Side(img)
        split == {p \in Paths(width) : score(img, Block(width, p)) > prag}
        nodes == {p \in Paths(width) : \A a \in Prefixes(p) \ {p} : a \in split}
    IN  [p \in nodes |-> [mean |-> getmed(img, Block(width, p)),
                          area |-> Block(width, p).dist * Block(width, p).dist]]

IsLeaf(t, p) == Append(p, "top_right") \notin DOMAIN t

leaf_number(t) == Cardinality({p \in DOMAIN t : IsLeaf(t, p)})
node_number(t) == Cardinality(DOMAIN t)

-----------------------------------------------------------------------------
(* Mutant: create_vector enqueues the children of the lower half first. *)
VectorOrderFromBelow == <<"bottom_right", "bottom_left", "top_left", "top_right">>

(* The order in which the two loops over the queue enqueue the children. *)
IndexOrder == <<"top_left", "top_right", "bottom_right", "bottom_left">>
VectorOrder == <<"top_left", "top_right", "bottom_right", "bottom_left">>

(* A child that is not NULL is enqueued. *)
enq(t, queue, child) == IF child \in DOMAIN t THEN Append(queue, child) ELSE queue

(* The nodes in the order such a loop dequeues them. *)
Walk(t, order) ==
    LET Enqueued(queue, p) ==
            LET q1 == enq(t, queue, Append(p, order[1]))
                q2 == enq(t, q1, Append(p, order[2]))
                q3 == enq(t, q2, Append(p, order[3]))
            IN  enq(t, q3, Append(p, order[4]))
        after[n \in 0 .. node_number(t)] ==
            IF n = 0 THEN [queue |-> << << >> >>, dequeued |-> << >>]
            ELSE LET before == after[n - 1]
                     head == Head(before.queue)
                 IN  [queue |-> Enqueued(Tail(before.queue), head),
                      dequeued |-> Append(before.dequeued, head)]
    IN  after[node_number(t)].dequeued

(* Mutant: the root is not counted. *)
set_tree_indexFromTheChildren(t) ==
    LET walk == Walk(t, IndexOrder)
    IN  [p \in DOMAIN t |-> CHOOSE i \in DOMAIN walk : walk[i] = p]

set_tree_index(t) ==
    LET walk == Walk(t, IndexOrder)
    IN  [p \in DOMAIN t |-> (CHOOSE i \in DOMAIN walk : walk[i] = p) - 1]

(* Mutant: the indexes of two children taken for each other. *)
create_vectorCrossed(t, index) ==
    LET walk == Walk(t, VectorOrder)
        Crossed(q) == CASE q = "top_left" -> "bottom_right" [] q = "bottom_right" -> "top_left" [] OTHER -> q
    IN  [i \in 0 .. Len(walk) - 1 |->
            [node |-> t[walk[i + 1]],
             child |-> [q \in Quadrants |-> IF IsLeaf(t, walk[i + 1]) THEN -1
                                            ELSE index[Append(walk[i + 1], Crossed(q))]]]]

(* The file: two counts and one row for each node; rows count from 0. *)
create_vector(t, index) ==
    LET walk == Walk(t, VectorOrder)
    IN  [i \in 0 .. Len(walk) - 1 |->
            [node |-> t[walk[i + 1]],
             child |-> [q \in Quadrants |-> IF IsLeaf(t, walk[i + 1]) THEN -1
                                            ELSE index[Append(walk[i + 1], q)]]]]

Pack(t) == [nr_frunze |-> leaf_number(t), nr_noduri |-> node_number(t),
            vector |-> create_vector(t, set_tree_index(t))]

(* The row a path leads to, -1 when it runs off the tree. *)
Row(vector, p) ==
    LET at[n \in 0 .. Len(p)] == IF n = 0 THEN 0
                                 ELSE LET i == at[n - 1] IN IF i = -1 THEN -1 ELSE vector[i].child[p[n]]
    IN  at[Len(p)]

PackedSide(packed) ==
    CHOOSE n \in 0 .. packed.vector[0].node.area :
        n * n <= packed.vector[0].node.area /\ (n + 1) * (n + 1) > packed.vector[0].node.area

vector_to_tree(packed) ==
    LET vector == packed.vector
        nodes == {p \in Paths(PackedSide(packed)) : Row(vector, p) # -1}
    IN  [p \in nodes |-> vector[Row(vector, p)].node]

-----------------------------------------------------------------------------
Painting(t, width, cell) == {p \in DOMAIN t : IsLeaf(t, p) /\ cell \in Cells(Block(width, p))}

(* The pixels of a square that lie in no leaf. *)
Undrawn(t, width) ==
    {cell \in Cells(Block(width, << >>)) : Painting(t, width, cell) = {}}

(* They keep what the array held before. *)
makeimg(t, width, before) ==
    [cell \in Cells(Block(width, << >>)) |->
        LET painting == Painting(t, width, cell)
        IN  IF painting = {} THEN before[cell] ELSE t[CHOOSE p \in painting : TRUE].mean]

(* Mutant: only the children of the root are swapped. *)
RenamedAtTheRoot(t, swap) ==
    LET Rename(p) == [i \in DOMAIN p |-> IF i = 1 THEN swap[p[i]] ELSE p[i]]
    IN  [p \in {Rename(o) : o \in DOMAIN t} |-> t[Rename(p)]]

(* Swapping two pairs of children at every node renames every path. *)
Renamed(t, swap) ==
    LET Rename(p) == [i \in DOMAIN p |-> swap[p[i]]]
    IN  [p \in {Rename(o) : o \in DOMAIN t} |-> t[Rename(p)]]

SwapH == [top_left |-> "top_right", top_right |-> "top_left",
          bottom_left |-> "bottom_right", bottom_right |-> "bottom_left"]
SwapV == [top_left |-> "bottom_left", bottom_left |-> "top_left",
          top_right |-> "bottom_right", bottom_right |-> "top_right"]

mirror_h(t) == Renamed(t, SwapH)
mirror_v(t) == Renamed(t, SwapV)

(***************************************************************************)
(* Where one tree has ended the other is followed alone, against the leaf  *)
(* the first ended in.  The areas of the new nodes are never set nor read. *)
(***************************************************************************)
LastOnPath(t, p) == CHOOSE a \in Prefixes(p) \cap DOMAIN t : \A b \in Prefixes(p) \cap DOMAIN t : Len(b) <= Len(a)

(* Mutant: the combined tree ends where one of the two does. *)
combine_treesWhereBoth(t1, t2) ==
    [p \in DOMAIN t1 \cap DOMAIN t2 |->
        LET n1 == t1[p].mean
            n2 == t2[p].mean
        IN  [mean |-> [red |-> (n1.red + n2.red) \div 2, green |-> (n1.green + n2.green) \div 2,
                       blue |-> (n1.blue + n2.blue) \div 2]]]

combine_trees(t1, t2) ==
    [p \in DOMAIN t1 \cup DOMAIN t2 |->
        LET n1 == t1[LastOnPath(t1, p)].mean
            n2 == t2[LastOnPath(t2, p)].mean
        IN  [mean |-> [red |-> (n1.red + n2.red) \div 2, green |-> (n1.green + n2.green) \div 2,
                       blue |-> (n1.blue + n2.blue) \div 2]]]
=============================================================================
