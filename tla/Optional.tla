------------------------------ MODULE Optional ------------------------------
(***************************************************************************)
(* Values that may be absent: Nil is the nil pointer of Go, a field of the *)
(* protobuf that is not set, and NULL.                                     *)
(***************************************************************************)
CONSTANT Nil

\* The getters of the protobuf: a field that is not set has its default.
Get(x, default) == IF x = Nil THEN default ELSE x
=============================================================================
