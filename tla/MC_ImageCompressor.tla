------------------------- MODULE MC_ImageCompressor -------------------------
(***************************************************************************)
(* Small images: every image of two by two pixels of three colours, images *)
(* of four by four whose quarters are flat or striped, so that their trees *)
(* have one, two or three levels, and images of three by three, whose last *)
(* row and column no child covers.                                         *)
(***************************************************************************)
EXTENDS ImageCompressor

Pixel(r, g, b) == [red |-> r, green |-> g, blue |-> b]
Black == Pixel(0, 0, 0)
Dark  == Pixel(1, 2, 0)
Light == Pixel(9, 0, 255)

Grid(n) == (0 .. n - 1) \X (0 .. n - 1)

Quarters == {[cell \in Grid(2) |-> Black],
             [cell \in Grid(2) |-> IF cell[1] = 0 THEN Black ELSE Dark],
             [cell \in Grid(2) |-> IF cell = <<0, 1>> THEN Light ELSE Dark]}

Twos == [Grid(2) -> {Black, Dark, Light}]
Fours == {[cell \in Grid(4) |-> quarter[cell[1] \div 2, cell[2] \div 2][cell[1] % 2, cell[2] % 2]] :
             quarter \in [Grid(2) -> Quarters]}
Threes == {[cell \in Grid(3) |-> IF cell[1] = 2 THEN Light ELSE IF cell[2] = 1 THEN Dark ELSE Black]}

(* What the second file holds, an image of the same side or a smaller one. *)
Other(img) ==
    CASE Side(img) = 2 -> [cell \in Grid(2) |-> IF cell = <<1, 0>> THEN Light ELSE Black]
      [] Side(img) = 3 -> [cell \in Grid(2) |-> Dark]
      [] Side(img) = 4 -> [cell \in Grid(4) |-> IF cell[1] < 2 /\ cell[1] < cell[2] THEN Light ELSE Dark]

MCPairs == {<<img, Other(img)>> : img \in Twos \cup Fours \cup Threes}
MCGarbage == {Black, Light}
=============================================================================
