--------------------------- MODULE MCAdvertisements ---------------------------
(* Instances of Advertisements for TLC.                                     *)
EXTENDS Advertisements
==============================================================================
