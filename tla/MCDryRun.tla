------------------------------ MODULE MCDryRun ------------------------------
(***************************************************************************)
(* Dry runs over four blocks in batches of three, with chunks of one, two  *)
(* or no limit, and a node that is one block behind.                       *)
(***************************************************************************)
EXTENDS DryRun

MCRanges == {<<1, 1>>, <<1, 4>>, <<3, 4>>, <<2, 1>>}

============================================================================
