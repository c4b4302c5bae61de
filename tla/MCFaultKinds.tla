----------------------------- MODULE MCFaultKinds -----------------------------
(* A small instance of FaultKinds for TLC. *)
EXTENDS FaultKinds

CONSTANTS w1, w2, t1, c1, c2

(* io.Stress with two readers and both ramps, with one reader whose        *)
(* ramp-down is announced, and disk.Stress without ramps.                  *)
ReadStress  == [workers |-> {w1, w2}, up |-> 1, down |-> 1, files |-> 2,
                maxDisk |-> 0, emit |-> FALSE]
LoneReader  == [workers |-> {w1}, up |-> 0, down |-> 1, files |-> 1,
                maxDisk |-> 0, emit |-> TRUE]
WriteStress == [workers |-> {w1}, up |-> 0, down |-> 0, files |-> 1,
                maxDisk |-> 3, emit |-> FALSE]
MCRatedConfigs == {ReadStress, LoneReader, WriteStress}

(* One CPU and a half on two workers, three quarters each; half of one CPU *)
(* with both ramps.                                                        *)
MCCpuConfigs ==
  {[units |-> 6, up |-> 0, down |-> 0], [units |-> 2, up |-> 1, down |-> 1]}
=============================================================================
