---------------------------- MODULE MCFlashConfig ----------------------------
(* An instance of FlashConfig for TLC: a region of two bytes in a sector of    *)
(* three, and objects with a member missing or of another type, with a mode    *)
(* that does not exist, one that is longer than the region, and one as the     *)
(* firmware writes it.                                                         *)
EXTENDS FlashConfig

MCCalibrations == {<<0, 0>>, <<1, 1>>}

MCAlignments == {DefaultAlign, Columns(Rows(DefaultAlign))}

MCTexts ==
  {[length |-> 1, object |-> [kp |-> Json("int", 1),
                              mag_bias |-> Json("array", 1)]],
   [length |-> 2, object |-> [kp |-> Json("bool", TRUE),
                              use_ext_gyro |-> Json("int", 1),
                              flight_mode |-> Json("int", LastMode + 1)]],
   [length |-> 3, object |-> [kp |-> Json("real", 1)]],
   Written([Default EXCEPT !.use_ext_gyro = TRUE])}
=============================================================================
