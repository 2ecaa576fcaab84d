-------------------------------- MODULE MCApi --------------------------------
(* The blocks of MCBackground for the indexer and the API side by side.       *)
EXTENDS Api, MCBackground
=============================================================================
