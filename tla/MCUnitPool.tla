----------------------------- MODULE MCUnitPool -----------------------------
(***************************************************************************)
(* UnitPool on four units and three workers, so that a worker always has a *)
(* unit left that it may wrongly ask, on a network or on a serial line.    *)
(***************************************************************************)
EXTENDS UnitPool

MCUnits == <<1, 4, 7, 9>>
=============================================================================
