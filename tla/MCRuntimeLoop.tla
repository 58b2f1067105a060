--------------------------- MODULE MCRuntimeLoop ----------------------------
(* RuntimeLoop for TLC, over the container's objects and, with wired, over *)
(* objects that offer every helper the loop looks for.                     *)
EXTENDS RuntimeLoop

VARIABLE wired

Wired == INSTANCE RuntimeLoop WITH Offers <- Helpers, RecordReturns <- TRUE

MCInit == Init /\ wired \in BOOLEAN

MCNext ==
  /\ wired' = wired
  /\ IF wired THEN Wired!Next ELSE Next

MCSpec == MCInit /\ [][MCNext]_<<vars, wired>>
=============================================================================
