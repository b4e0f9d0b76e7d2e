--------------------------- MODULE MCRasterConverter --------------------------
(***************************************************************************)
(* Page headers for model checking RasterConverter: bilevel, 8 and 16 bit  *)
(* pixels, one whose line is no multiple of its pixels, and headers at and *)
(* beyond the limits.                                                      *)
(***************************************************************************)
EXTENDS RasterConverter

Gray == [sound |-> TRUE, width |-> 3, height |-> 2, bits |-> 8, line |-> 3, count |-> 0]

MCHeaders ==
  {Gray,
   [Gray EXCEPT !.width = 9, !.bits = 1, !.line = 2, !.height = 1, !.count = 1],
   [Gray EXCEPT !.width = 2, !.bits = 16, !.line = 4, !.height = 1, !.count = 2],
   [Gray EXCEPT !.width = 1, !.line = 1, !.height = 3, !.count = -1],
   [Gray EXCEPT !.width = 2, !.bits = 12],
   [Gray EXCEPT !.sound = FALSE, !.count = 2],
   [Gray EXCEPT !.width = 10], [Gray EXCEPT !.height = 4], [Gray EXCEPT !.height = 0],
   [Gray EXCEPT !.width = 5, !.line = 5], [Gray EXCEPT !.line = 2],
   [Gray EXCEPT !.width = 1, !.bits = 72, !.line = 9]}
=============================================================================
