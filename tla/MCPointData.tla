----------------------------- MODULE MCPointData -----------------------------
(***************************************************************************)
(* PointData for TLC: the curve has a window of one second, so that points *)
(* fall out of it.  A unit of to_string()'s last digit is 2 here, of the   *)
(* column's 8: the negative placement lies in the middle and is rounded    *)
(* twice away from 0 (to -4, then to -8), the next one down, and the last  *)
(* does not fit the column.                                                *)
(***************************************************************************)
EXTENDS PointData

Measurable == {-3, 9, 30}

(* A clock that is half a second slow, right, or half a second fast.      *)
DeviceSkews == {-1, 0, 1}
===============================================================================
