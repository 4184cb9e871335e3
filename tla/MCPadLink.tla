-------------------------------- MODULE MCPadLink --------------------------------
(* PadLink on small instances.                                                 *)
EXTENDS PadLink, TLC

MCReaderSymmetry == Permutations(Readers)
==================================================================================
