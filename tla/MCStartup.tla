-------------------------------- MODULE MCStartup --------------------------------
(* Startup with pads smaller than, as large as and larger than the default.    *)
EXTENDS Startup

MCPadSizes == {0, 1, 3}
MCKeys == {0, 2}
==================================================================================
