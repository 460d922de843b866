--------------------------- MODULE ImageCompressor ---------------------------
(***************************************************************************)
(* The commands of image-compressor/quadtree.c on the files they read and  *)
(* write.  Every run of the program is one command; what remains between   *)
(* two runs is the content of the files.  Formats are abstracted to what   *)
(* they hold: an image file to its pixels, a compressed file to its two    *)
(* counts and its rows.                                                    *)
(*                                                                         *)
(* Image files are square, and the two images of an overlay equally large: *)
(* readinput reads width rows of width pixels, whatever the height, and    *)
(* overlay draws on the first image with the width of the second.          *)
(***************************************************************************)
EXTENDS Quadtree, Functions

CONSTANTS
    Pairs,       \* the pairs of images the first two image files may hold at first
    Garbage,     \* pixels that memory from malloc may hold
    Factors,     \* thresholds given on the command line
    NoFile,      \* a file not written yet
    Outputs,     \* bound: the image files the commands write to
    MaxCommands  \* bound: commands run one after the other

ImageFiles == {1, 2}
Compressed == 3

(* Colours are unsigned chars, in images and in the nodes of a file. *)
Colours == [Channels -> 0 .. 255]

(* The largest side whose area an int holds. *)
MaxSide == 46340

(* A square of pixels, at least one. *)
IsImage(img) ==
    /\ Side(img) \in Nat \ {0} /\ Side(img) <= MaxSide
    /\ img \in [(0 .. Side(img) - 1) \X (0 .. Side(img) - 1) -> Colours]

ASSUME PairsAreImages == \A pair \in Pairs :
    DOMAIN pair = ImageFiles /\ \A f \in ImageFiles : IsImage(pair[f])
ASSUME GarbageIsPixels == Garbage \subseteq Colours
ASSUME FactorsAreNatural == Factors \subseteq Nat
ASSUME OutputsAreImageFiles == Outputs \subseteq ImageFiles
ASSUME MaxCommandsIsNatural == MaxCommands \in Nat

VARIABLES
    image,     \* the two image files
    packed,    \* the compressed file
    made,      \* history: how the content of each file came about
    commands   \* number of commands run so far

vars == <<image, packed, made, commands>>

Given == [by |-> "camera"]

Rows == [node : [mean : Colours, area : Nat], child : [Quadrants -> Nat \cup {-1}]]

TypeOK ==
    /\ DOMAIN image = ImageFiles /\ \A f \in ImageFiles : IsImage(image[f])
    /\ packed # NoFile =>
           /\ packed.nr_frunze \in Nat /\ packed.nr_noduri \in Nat \ {0}
           /\ packed.vector \in [0 .. packed.nr_noduri - 1 -> Rows]
           /\ \A i \in DOMAIN packed.vector : \A q \in Quadrants :
                 packed.vector[i].child[q] < packed.nr_noduri
    /\ DOMAIN made = ImageFiles \cup {Compressed}
    /\ commands \in 0 .. MaxCommands

-----------------------------------------------------------------------------
Init ==
    /\ image \in Pairs
    /\ packed = NoFile
    /\ made = [f \in ImageFiles \cup {Compressed} |-> Given]
    /\ commands = 0

WriteImage(f, img, how) ==
    /\ image' = [image EXCEPT ![f] = img]
    /\ made' = [made EXCEPT ![f] = how]
    /\ UNCHANGED packed

compression(factor, in) ==
    /\ packed' = Pack(maketree(image[in], factor))
    /\ made' = [made EXCEPT ![Compressed] =
                  [by |-> "compression", factor |-> factor, of |-> image[in]]]
    /\ UNCHANGED image

(* What was not drawn is what malloc returned. *)
decompress(out) ==
    /\ packed # NoFile
    /\ LET tree == vector_to_tree(packed)
           width == PackedSide(packed)
       IN  \E junk \in [Undrawn(tree, width) -> Garbage] :
              WriteImage(out, makeimg(tree, width, junk),
                         [made[Compressed] EXCEPT !.by = "decompression"])

(* The tree is drawn over the image it was made from. *)
mirror(way, factor, in, out) ==
    LET tree == maketree(image[in], factor)
    IN  WriteImage(out,
                   makeimg(IF way = "h" THEN mirror_h(tree) ELSE mirror_v(tree),
                           Side(image[in]), image[in]),
                   [by |-> "mirror", way |-> way, factor |-> factor, of |-> image[in]])

overlay(factor, in1, in2, out) ==
    /\ Side(image[in1]) = Side(image[in2])
    /\ WriteImage(out,
                  makeimg(combine_trees(maketree(image[in1], factor), maketree(image[in2], factor)),
                          Side(image[in2]), image[in1]),
                  [by |-> "overlay", factor |-> factor, of |-> image[in1], on |-> image[in2]])

Command ==
    \/ \E factor \in Factors, in \in ImageFiles : compression(factor, in)
    \/ \E out \in Outputs : decompress(out)
    \/ \E way \in {"h", "v"}, factor \in Factors, in \in ImageFiles, out \in Outputs :
          mirror(way, factor, in, out)
    \/ \E factor \in Factors, in1, in2 \in ImageFiles, out \in Outputs :
          overlay(factor, in1, in2, out)

Next ==
    /\ commands < MaxCommands
    /\ commands' = commands + 1
    /\ Command

Spec == Init /\ [][Next]_vars

-----------------------------------------------------------------------------
(***************************************************************************)
(* What the commands promise, stated without trees: every pixel is         *)
(* replaced by the average of the largest square around it whose error the *)
(* factor allows.  The squares are those whose side divides the image's    *)
(* and whose corner is a multiple of their side; the image's side is a     *)
(* power of two.                                                           *)
(***************************************************************************)
PowerOfTwo(n) == \E k \in 0 .. n : n = 2 ^ k

Tile(side, i, j) ==
    (i * side .. i * side + side - 1) \X (j * side .. j * side + side - 1)

Squares(n) ==
    UNION {LET Fitting == {i \in 0 .. n - 1 : (i + 1) * 2 ^ k <= n}
           IN  {Tile(2 ^ k, i, j) : i \in Fitting, j \in Fitting} : k \in 0 .. n}

Average(img, square) ==
    LET Mean(c) == SumFunction([cell \in square |-> img[cell][c]]) \div Cardinality(square)
    IN  [red |-> Mean("red"), green |-> Mean("green"), blue |-> Mean("blue")]

MeanError(img, square, average) ==
    LET Off(cell, c) == img[cell][c] - average[c]
        Error(cell) == SumFunction([c \in Channels |-> Off(cell, c) * Off(cell, c)])
    IN  SumFunction([cell \in square |-> Error(cell)]) \div (3 * Cardinality(square))

Approximation(img, factor) ==
    LET averaged == {[square |-> s, mean |-> Average(img, s)] : s \in Squares(Side(img))}
        allowed == {a \in averaged : MeanError(img, a.square, a.mean) <= factor}
        Around(cell) == {a \in allowed : cell \in a.square}
    IN  [cell \in DOMAIN img |->
            (CHOOSE a \in Around(cell) : \A o \in Around(cell) : o.square \subseteq a.square).mean]

(***************************************************************************)
(* A compressed file can be read back: its counts are those of a tree      *)
(* whose inner nodes have four children, every row but the first is the    *)
(* child of exactly one row, and of an earlier one, so that following the  *)
(* rows ends.  It depends on set_tree_index and create_vector, two loops,  *)
(* meeting the nodes in the same order.                                    *)
(***************************************************************************)
PackedIsATree ==
    packed # NoFile =>
        LET vector == packed.vector
            Inner == {i \in DOMAIN vector : \E q \in Quadrants : vector[i].child[q] # -1}
        IN  /\ 4 * packed.nr_frunze = 3 * packed.nr_noduri + 1
            /\ packed.nr_frunze = packed.nr_noduri - Cardinality(Inner)
            /\ \A i \in Inner : IsInjective(vector[i].child)
            /\ \A j \in DOMAIN vector \ {0} :
                  \E i \in 0 .. j - 1 :
                      {p \in Inner : j \in Range(vector[p].child)} = {i}

(***************************************************************************)
(* Compressing and decompressing loses what the factor allows and nothing  *)
(* else, whatever other commands ran in between.                           *)
(***************************************************************************)
DecompressionApproximates ==
    \A f \in ImageFiles :
        made[f].by = "decompression" /\ PowerOfTwo(Side(made[f].of)) =>
            image[f] = Approximation(made[f].of, made[f].factor)

(***************************************************************************)
(* A mirrored file shows the approximation of the image reflected, left    *)
(* for right or top for bottom.                                            *)
(***************************************************************************)
MirrorReflects ==
    \A f \in ImageFiles :
        made[f].by = "mirror" /\ PowerOfTwo(Side(made[f].of)) =>
            LET last == Side(made[f].of) - 1
                plain == Approximation(made[f].of, made[f].factor)
            IN  image[f] = [cell \in DOMAIN plain |->
                               IF made[f].way = "h" THEN plain[<<cell[1], last - cell[2]>>]
                               ELSE plain[<<last - cell[1], cell[2]>>]]

(***************************************************************************)
(* An overlay is the average of the two approximations, pixel by pixel,    *)
(* however differently deep their trees are there.                         *)
(***************************************************************************)
OverlayAverages ==
    \A f \in ImageFiles :
        made[f].by = "overlay" /\ PowerOfTwo(Side(made[f].of)) =>
            LET under == Approximation(made[f].of, made[f].factor)
                over == Approximation(made[f].on, made[f].factor)
            IN  image[f] = [cell \in DOMAIN under |->
                               [c \in Channels |-> (under[cell][c] + over[cell][c]) \div 2]]

(***************************************************************************)
(* Compressing again what was decompressed never needs more nodes than the *)
(* first time: a generation of the image may lose more, never gain.        *)
(***************************************************************************)
RepackingNeverGrows ==
    \A f \in ImageFiles :
        made[f].by = "decompression" /\ PowerOfTwo(Side(made[f].of)) =>
            DOMAIN maketree(image[f], made[f].factor)
                \subseteq DOMAIN maketree(made[f].of, made[f].factor)
=============================================================================
