---------------------------- MODULE MCConfigStore ----------------------------
(* A small instance of ConfigStore for TLC.  Two commands save and one     *)
(* thread only loads.                                                      *)
EXTENDS ConfigStore
=============================================================================
