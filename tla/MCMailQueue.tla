---------------------------- MODULE MCMailQueue ----------------------------
(* Instances of MailQueue for TLC: workers are alike, and so are partitions. *)
EXTENDS MailQueue, TLC

McSymmetry == Permutations(Workers) \cup Permutations(Partitions)
=============================================================================
