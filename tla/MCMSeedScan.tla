---------------------------- MODULE MCMSeedScan ----------------------------
(* The scanner with one file in each directory, for TLC.                   *)
EXTENDS MSeedScan

WithStateFile == {[StateFile |-> TRUE, InitCurrentState |-> b] : b \in BOOLEAN}

TwoFiles ==
  {[a |-> <<"good">>,         b |-> <<"refused", "good">>],
   [a |-> <<"good", "junk">>, b |-> <<"large">>]}
============================================================================
