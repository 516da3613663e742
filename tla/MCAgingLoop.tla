---------------------------- MODULE MCAgingLoop ----------------------------
(* Two attributes; a tick is half a select timeout. *)
EXTENDS AgingLoop
CONSTANTS cpu, mem
MCAttr == {cpu, mem}
============================================================================
