-------------------------- MODULE MCDurableStorage --------------------------
(* One payload is enough, because indices tell entries apart. *)
EXTENDS DurableStorage

\* Power loss; failing calls and process death; process death with failing reads.
EachFault == {{"power"}, {"io", "kill"}, {"kill", "read"}}
ReadFaults == {{"kill", "read"}}

\* A fifth index makes a third segment, a sixth one record too many.
IndexBound ==
    [f \in FaultModels |->
       IF "read" \in f THEN 4 ELSE IF "power" \in f THEN 6 ELSE 5]
=============================================================================
