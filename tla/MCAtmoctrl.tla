------------------------------- MODULE MCAtmoctrl -------------------------------
(***************************************************************************)
(* Atmoctrl with every type of device; the DotStar has 3 LEDs instead of   *)
(* 256.  The colours are black, white, a bright one and two dim ones whose *)
(* components differ: the darkest that a DotStar lights, and one it does   *)
(* not.                                                                    *)
(***************************************************************************)
EXTENDS Atmoctrl

MCBlack == [red |-> 0, green |-> 0, blue |-> 0]

MCColor ==
  { MCBlack,
    [red |-> 255, green |-> 255, blue |-> 255],
    [red |-> 255, green |-> 128, blue |-> 1],
    [red |-> 20, green |-> 4, blue |-> 1],
    [red |-> 3, green |-> 7, blue |-> 12] }

MCNumChannels == [AtmoLight |-> 4, KarateLight |-> 16, DotStar |-> 3]

===============================================================================
