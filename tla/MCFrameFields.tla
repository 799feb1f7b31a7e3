---------------------------- MODULE MCFrameFields ----------------------------
(***************************************************************************)
(* Two devices, temperatures on both sides of zero and of each other, two  *)
(* levels; two units whose counters go back and forth; a window of four    *)
(* intervals; and the periods of register_sensors(), 12 and 8 ticks, in    *)
(* units of 4 ticks, up to the first at which both GPU sensors run again:  *)
(* no sensor runs in the ticks left out.  Units and samples are told apart *)
(* by nothing, so permuting either changes no property.                    *)
(***************************************************************************)
EXTENDS FrameFields, TLC

MCTemps == {-10, -4, 50}

MCSymmetry == Permutations(Units) \union Permutations(Samples)
=============================================================================
