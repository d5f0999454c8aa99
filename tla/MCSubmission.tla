---------------------------- MODULE MCSubmission ----------------------------
(* Instances of Submission for TLC: symmetric model values.                 *)
EXTENDS Submission, TLC

SendersSymmetry == Permutations(Senders)
=============================================================================
