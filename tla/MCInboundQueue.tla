--------------------------- MODULE MCInboundQueue ---------------------------
(* Instances of InboundQueue for TLC. *)
EXTENDS InboundQueue

\* Everything a callback may turn out to be.
AllKinds == KindSet

\* Messages and /stop only, to keep a counterexample short.
StopKinds == {"turn", "stop"}
=============================================================================
