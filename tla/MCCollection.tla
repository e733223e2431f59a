---------------------------- MODULE MCCollection ----------------------------
(* A file that names its controllers both ways, loaded by one goroutine.     *)
EXTENDS Collection

MCConfigs ==
    {[ztAPI |-> "a", ztAPIs |-> <<"b", "c">>, id |-> "id", credentials |-> "updb", maxDefault |-> 0]}

MCSpec == CollectionInit /\ [][CollectionNext]_collectionVars
=============================================================================
