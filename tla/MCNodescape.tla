---------------------------- MODULE MCNodescape ----------------------------
(* A small instance of Nodescape: one attribute more than the table has    *)
(* slots.                                                                  *)
EXTENDS Nodescape, TLC

CONSTANTS cpu, mem, fan

MCAttr == {cpu, mem, fan}
Symm == Permutations(Attr)
============================================================================
