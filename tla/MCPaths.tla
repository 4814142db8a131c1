------------------------------ MODULE MCPaths ------------------------------
(* The databases of MCServer, for the server with its paths.               *)
EXTENDS MCServer, Paths
=============================================================================
