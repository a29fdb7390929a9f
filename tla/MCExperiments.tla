---------------------------- MODULE MCExperiments ----------------------------
(* The instance of Experiments for TLC.                                    *)
EXTENDS Experiments

MCSweepValues == <<8>>
=============================================================================
