--------------------------- MODULE MCCommandLine ---------------------------
(* Instances of CommandLine for TLC. *)
EXTENDS CommandLine, TLC

MCNumber == ("-1" :> -1) @@ ("0" :> 0) @@ ("2" :> 2) @@ ("65536" :> 65536)
=============================================================================
