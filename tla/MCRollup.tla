------------------------------ MODULE MCRollup ------------------------------
(* Instances of Rollup for TLC.                                            *)
EXTENDS Rollup, TLC

OneChat   == {"a"}
TwoChats  == {"a", "b"}
OneSweep  == {"sweep"}
TwoSweeps == {"sweep", "next sweep"}
=============================================================================
