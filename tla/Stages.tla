------------------------------- MODULE Stages -------------------------------
(***************************************************************************)
(* The lifecycle of a loan application (src/common/constants/stage.ts):    *)
(* the numbered stages.  Labels and messages are left out, each is a       *)
(* constant table indexed by the stage, and so is how far the tracker of   *)
(* the screens is, a function of the stage and the rejection.              *)
(***************************************************************************)
EXTENDS Integers

CONSTANT FINAL_STAGE      \* Stage.Disbursed, 7 in the program

ASSUME FinalStageAssumption == FINAL_STAGE \in Nat /\ FINAL_STAGE > 1

FIRST_STAGE == 1

Stage == FIRST_STAGE .. FINAL_STAGE

nextStage(current) == current + 1
=============================================================================
