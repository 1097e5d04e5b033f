-------------------------------- MODULE RVV --------------------------------
(***************************************************************************)
(* The machine the emitted vector loops run on, as far as they can tell    *)
(* one machine from another: the length of its vectors.                    *)
(***************************************************************************)
EXTENDS Integers

CONSTANTS
  VLMax,   \* elements of a register group: VLEN / SEW * LMUL
  XMod     \* 2^XLEN: bgeu compares the registers as numbers below it

ASSUME VLMaxAssumption == VLMax \in Nat \ {0}
ASSUME XModAssumption  == XMod \in Nat \ {0}

(* vsetvli: any length the RVV 1.0 specification allows for an application *)
(* vector length avl > 0.                                                  *)
VLChoices(avl) ==
  {k \in 1 .. VLMax : /\ k <= avl
                      /\ avl <= VLMax => k = avl
                      /\ avl < 2 * VLMax => 2 * k >= avl
                      /\ avl >= 2 * VLMax => k = VLMax}
=============================================================================
