--------------------------- MODULE MCStage2Video ----------------------------
(* BIOSes with up to three modes, each right or wrong in one respect; the  *)
(* number 9 is of no mode.  With three modes the list may also lie where   *)
(* the loader does not look, with other words in its place.                *)
EXTENDS Stage2Video

Right  == [lfb |-> TRUE, bpp |-> 32, res |-> <<1024, 768>>]
Blocks == {Right, [Right EXCEPT !.lfb = FALSE], [Right EXCEPT !.bpp = 24],
           [Right EXCEPT !.res = <<1280, 720>>],
           [Right EXCEPT !.res = <<1024, 600>>]}

Offered(n) == [i \in 1..n |-> i]
Elsewhere3 == {<<>>, <<9>>, <<2, 9, 3>>}

MCBioses ==
  UNION {[vbe : {TRUE}, offered : {Offered(n)}, found : {Offered(n)},
          modes : [1..n -> Blocks]] : n \in 0..3}
  \cup [vbe : {TRUE}, offered : {Offered(3)}, found : Elsewhere3,
        modes : [1..3 -> Blocks]]
  \cup [vbe : {FALSE}, offered : {<<>>}, found : {<<>>}, modes : {<<>>}]
=============================================================================
