------------------------- MODULE MCChannelPipeline -------------------------
(* Small instances of ChannelPipeline: one or two messages of a            *)
(* conversation and one or two workers.                                    *)
EXTENDS ChannelPipeline, TLC

OneMessage == 1..1
TwoMessages == 1..2

(* Every queue retries once, or only messages do.                          *)
RetryAll == [k \in Kinds |-> 2]
RetryMessage == [k \in Kinds |-> IF k = "message" THEN 2 ELSE 1]

WorkerSymmetry == Permutations(Workers)
=============================================================================
