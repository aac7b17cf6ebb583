---------------------------- MODULE MCAgentTurn -----------------------------
(* Instances of AgentTurn for TLC. *)
EXTENDS AgentTurn

CONSTANTS ocr, run, transfer

\* A parallel batch, and a serial call that a transfer follows.
MixedBatches == {<<ocr, ocr>>, <<run, transfer>>}

\* A transfer alone, after another call and before one.
TransferBatches == {<<transfer>>, <<run, transfer>>, <<transfer, run>>}
=============================================================================
