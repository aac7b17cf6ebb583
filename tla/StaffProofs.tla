----------------------------- MODULE StaffProofs ----------------------------
(* Theorems about the modules through which people work with the bot:        *)
(* AdvisorBridge, and, as MCRecords has them, TeamFiles, Boss, Skills and     *)
(* Reload.  For each there is one lemma for each part of the inductive        *)
(* invariant, whose assumptions are the parts it rests on.                    *)
EXTENDS MCRecords, FiniteSetTheorems, TLAPS

\* The variables keep their types.
LEMMA TypeStep ==
    ASSUME TypeOK, Next PROVE TypeOK'
<1> USE BridgeAssumption DEF TypeOK, Statuses, LegacyImages, sidecarVars,
   workerVars, msgVars, ghosts
<1>1. ASSUME NEW o \in Orders, Submit(o) \/ LeaseExpires(o) \/ Lease(o) PROVE
   TypeOK'
  BY <1>1 DEF Submit, LeaseExpires, Lease, Becomes
<1>2. ASSUME ResolveGroup PROVE TypeOK'
  BY <1>2 DEF ResolveGroup, Leave
<1>3. ASSUME Start PROVE TypeOK'
  BY <1>3 DEF Start, Leave, GoOn, WillReport, Becomes
<1>4. ASSUME BroadcastFallback PROVE TypeOK'
  BY <1>4 DEF BroadcastFallback, Announced, WillReport
<1>5. ASSUME BuildJobBlocks PROVE TypeOK'
  BY <1>5 DEF BuildJobBlocks, Leave
<1>6. ASSUME SendSummary PROVE TypeOK'
  BY <1>6 DEF SendSummary, Announced, WillReport
<1>7. ASSUME SendImage PROVE TypeOK'
  BY <1>7 DEF SendImage, WillReport
<1>8. ASSUME DispatchJob PROVE TypeOK'
  BY <1>8 DEF DispatchJob, WillReport
<1>9. ASSUME JobTurnEnds PROVE TypeOK'
  BY <1>9 DEF JobTurnEnds, WillReport
<1>10. ASSUME Complete PROVE TypeOK'
  BY <1>10 DEF Complete, Leave, Becomes
<1>11. ASSUME NEW m \in Msgs, Message(m) PROVE TypeOK'
  <2>1. ASSUME NEW o \in Orders, Receive(m, o) PROVE TypeOK'
    BY <2>1 DEF Receive, At
  <2>2. CASE ClaimRefused(m)
    BY <2>2 DEF ClaimRefused, At
  <2>3. CASE ClaimAccepted(m)
    BY <2>3 DEF ClaimAccepted, At, Accepted, Becomes
  <2>4. CASE ClaimFailsOpen(m)
    BY <2>4 DEF ClaimFailsOpen, At, Accepted, Becomes
  <2>5. CASE DispatchManual(m)
    BY <2>5 DEF DispatchManual, At
  <2>6. CASE DispatchManualRaises(m)
    BY <2>6 DEF DispatchManualRaises, At
  <2>7. CASE ManualTurnEnds(m)
    BY <2>7 DEF ManualTurnEnds, At
  <2>8. CASE StopManual(m)
    BY <2>8 DEF StopManual, At, Accepted, Becomes
  <2>9. CASE CompleteManual(m)
    BY <2>9 DEF CompleteManual, At, Becomes
  <2> QED BY <1>11, <2>1, <2>2, <2>3, <2>4, <2>5, <2>6, <2>7, <2>8, <2>9 DEF
     Message
<1>12. ASSUME Crash PROVE TypeOK'
  <2>1. /\ mpc' \in [Msgs -> {"new", "claim", "open", "claimed", "openTurn",
                            "claimedTurn", "succeeded", "failed", "gone"}]
        /\ \A m \in Msgs : mpc'[m] \in {"new", "gone"}
    BY <1>12 DEF Crash
  <2>2. killed' \subseteq Orders /\ crashes' \in 0..MaxCrashes
    BY <1>12 DEF Crash
  <2>3. wpc' = "poll" /\ wjob' = None /\ images' = 0 /\ status' = None
    BY <1>12 DEF Crash, Leave
  <2>4. found' \in BOOLEAN
    <3>1. found' = FALSE
      BY <1>12 DEF Crash
    <3> QED BY <3>1
  <2> QED BY <1>12, <2>1, <2>2, <2>3, <2>4 DEF Crash
<1> QED BY <1>1, <1>2, <1>3, <1>4, <1>5, <1>6, <1>7, <1>8, <1>9, <1>10, <1>11,
   <1>12 DEF Next, Worker

\* A job stays started until the worker's outcome is accepted.
LEMMA JobStep ==
    ASSUME TypeOK, JobInv, Next PROVE JobInv'
<1> USE DEF TypeOK, JobInv, sidecarVars, workerVars, msgVars, ghosts
<1>1. ASSUME NEW o \in Orders, Submit(o) \/ LeaseExpires(o) \/ Lease(o) PROVE
   JobInv'
  BY <1>1 DEF Submit, LeaseExpires, Lease, Becomes
<1>2. ASSUME ResolveGroup \/ Start \/ BuildJobBlocks PROVE JobInv'
  BY <1>2 DEF ResolveGroup, Start, BuildJobBlocks, GoOn, Leave, WillReport,
     Becomes
<1>3. ASSUME BroadcastFallback \/ SendSummary \/ SendImage PROVE JobInv'
  BY <1>3 DEF BroadcastFallback, SendSummary, SendImage, Announced, WillReport
<1>4. ASSUME DispatchJob \/ JobTurnEnds PROVE JobInv'
  BY <1>4 DEF DispatchJob, JobTurnEnds, WillReport
<1>5. ASSUME Complete PROVE JobInv'
  BY <1>5 DEF Complete, Leave, Becomes
<1>6. ASSUME NEW m \in Msgs, Message(m) PROVE JobInv'
  BY <1>6 DEF Message, Receive, ClaimRefused, ClaimAccepted, ClaimFailsOpen,
     DispatchManual, DispatchManualRaises, ManualTurnEnds, StopManual,
     CompleteManual, At, Accepted, Becomes
<1>7. ASSUME Crash PROVE JobInv'
  BY <1>7 DEF Crash, Leave
<1> QED BY <1>1, <1>2, <1>3, <1>4, <1>5, <1>6, <1>7 DEF Next, Worker

\* The first send of a job comes after its start, and is its first.
LEMMA TriedStep ==
    ASSUME TypeOK, JobInv, NeverRetriedBlindly, TriedInv, Next PROVE TriedInv'
<1> USE DEF TypeOK, JobInv, NeverRetriedBlindly, TriedInv, sidecarVars,
   workerVars, msgVars, ghosts
<1>1. ASSUME NEW o \in Orders, Submit(o) \/ LeaseExpires(o) \/ Lease(o) PROVE
   TriedInv'
  BY <1>1 DEF Submit, LeaseExpires, Lease, Becomes
<1>2. ASSUME ResolveGroup \/ Start \/ BuildJobBlocks PROVE TriedInv'
  BY <1>2 DEF ResolveGroup, Start, BuildJobBlocks, GoOn, Leave, WillReport,
     Becomes
<1>3. ASSUME BroadcastFallback \/ SendSummary \/ SendImage PROVE TriedInv'
  BY <1>3 DEF BroadcastFallback, SendSummary, SendImage, Announced, WillReport
<1>4. ASSUME DispatchJob \/ JobTurnEnds PROVE TriedInv'
  BY <1>4 DEF DispatchJob, JobTurnEnds, WillReport
<1>5. ASSUME Complete PROVE TriedInv'
  BY <1>5 DEF Complete, Leave, Becomes
<1>6. ASSUME NEW m \in Msgs, Message(m) PROVE TriedInv'
  BY <1>6 DEF Message, Receive, ClaimRefused, ClaimAccepted, ClaimFailsOpen,
     DispatchManual, DispatchManualRaises, ManualTurnEnds, StopManual,
     CompleteManual, At, Accepted, Becomes
<1>7. ASSUME Crash PROVE TriedInv'
  BY <1>7 DEF Crash, Leave
<1> QED BY <1>1, <1>2, <1>3, <1>4, <1>5, <1>6, <1>7 DEF Next, Worker

\* run_once reports success only of what was confirmed, and of a simulation
\* that it was one.
LEMMA StatusStep ==
    ASSUME TypeOK, StatusInv, Next PROVE StatusInv'
<1> USE DEF TypeOK, StatusInv, sidecarVars, workerVars, msgVars, ghosts
<1>1. ASSUME NEW o \in Orders, Submit(o) \/ LeaseExpires(o) \/ Lease(o) PROVE
   StatusInv'
  BY <1>1 DEF Submit, LeaseExpires, Lease, Becomes
<1>2. ASSUME ResolveGroup \/ Start \/ BuildJobBlocks PROVE StatusInv'
  BY <1>2 DEF ResolveGroup, Start, BuildJobBlocks, GoOn, Leave, WillReport,
     Becomes
<1>3. ASSUME BroadcastFallback \/ SendSummary \/ SendImage PROVE StatusInv'
  BY <1>3 DEF BroadcastFallback, SendSummary, SendImage, Announced, WillReport
<1>4. ASSUME DispatchJob \/ JobTurnEnds PROVE StatusInv'
  BY <1>4 DEF DispatchJob, JobTurnEnds, WillReport
<1>5. ASSUME Complete PROVE StatusInv'
  BY <1>5 DEF Complete, Leave, Becomes
<1>6. ASSUME NEW m \in Msgs, Message(m) PROVE StatusInv'
  BY <1>6 DEF Message, Receive, ClaimRefused, ClaimAccepted, ClaimFailsOpen,
     DispatchManual, DispatchManualRaises, ManualTurnEnds, StopManual,
     CompleteManual, At, Accepted, Becomes
<1>7. ASSUME Crash PROVE StatusInv'
  BY <1>7 DEF Crash, Leave
<1> QED BY <1>1, <1>2, <1>3, <1>4, <1>5, <1>6, <1>7 DEF Next, Worker

\* A claim is accepted when no other message holds one, and no job exists.
LEMMA ClaimStep ==
    ASSUME TypeOK, JobInv, ClaimInv, Next PROVE ClaimInv'
<1> USE DEF TypeOK, JobInv, ClaimInv, Holders, sidecarVars, workerVars,
   msgVars, ghosts
<1>1. ASSUME NEW o \in Orders, Submit(o) \/ LeaseExpires(o) \/ Lease(o) PROVE
   ClaimInv'
  BY <1>1 DEF Submit, LeaseExpires, Lease, Becomes
<1>2. ASSUME ResolveGroup \/ Start \/ BuildJobBlocks PROVE ClaimInv'
  BY <1>2 DEF ResolveGroup, Start, BuildJobBlocks, GoOn, Leave, WillReport,
     Becomes
<1>3. ASSUME BroadcastFallback \/ SendSummary \/ SendImage PROVE ClaimInv'
  BY <1>3 DEF BroadcastFallback, SendSummary, SendImage, Announced, WillReport
<1>4. ASSUME DispatchJob \/ JobTurnEnds PROVE ClaimInv'
  BY <1>4 DEF DispatchJob, JobTurnEnds, WillReport
<1>5. ASSUME Complete PROVE ClaimInv'
  BY <1>5 DEF Complete, Leave, Becomes
<1>6. ASSUME NEW m \in Msgs, Message(m) PROVE ClaimInv'
  <2>1. ASSUME NEW o \in Orders, Receive(m, o) PROVE ClaimInv'
    BY <2>1 DEF Receive, At
  <2>2. CASE ClaimRefused(m)
    BY <2>2 DEF ClaimRefused, At
  <2>3. CASE ClaimAccepted(m)
    BY <2>3 DEF ClaimAccepted, At, Accepted, Becomes
  <2>4. CASE ClaimFailsOpen(m)
    BY <2>4 DEF ClaimFailsOpen, At, Accepted, Becomes
  <2>5. CASE DispatchManual(m)
    BY <2>5 DEF DispatchManual, At
  <2>6. CASE DispatchManualRaises(m)
    BY <2>6 DEF DispatchManualRaises, At
  <2>7. CASE ManualTurnEnds(m)
    BY <2>7 DEF ManualTurnEnds, At
  <2>8. CASE StopManual(m)
    BY <2>8 DEF StopManual, At, Accepted, Becomes
  <2>9. CASE CompleteManual(m)
    BY <2>9 DEF CompleteManual, At, Becomes
  <2> QED BY <1>6, <2>1, <2>2, <2>3, <2>4, <2>5, <2>6, <2>7, <2>8, <2>9 DEF
     Message
<1>7. ASSUME Crash PROVE ClaimInv'
  BY <1>7 DEF Crash, Leave
<1> QED BY <1>1, <1>2, <1>3, <1>4, <1>5, <1>6, <1>7 DEF Next, Worker

\* A turn begins after the job is started or the order claimed, and once.
LEMMA TurnStep ==
    ASSUME TypeOK, JobInv, ClaimInv, TurnInv, Next PROVE TurnInv'
<1> USE DEF TypeOK, JobInv, ClaimInv, TurnInv, Holders, sidecarVars,
   workerVars, msgVars, ghosts
<1>1. ASSUME NEW o \in Orders, Submit(o) \/ LeaseExpires(o) \/ Lease(o) PROVE
   TurnInv'
  BY <1>1 DEF Submit, LeaseExpires, Lease, Becomes
<1>2. ASSUME ResolveGroup \/ Start \/ BuildJobBlocks PROVE TurnInv'
  BY <1>2 DEF ResolveGroup, Start, BuildJobBlocks, GoOn, Leave, WillReport,
     Becomes
<1>3. ASSUME BroadcastFallback \/ SendSummary \/ SendImage PROVE TurnInv'
  BY <1>3 DEF BroadcastFallback, SendSummary, SendImage, Announced, WillReport
<1>4. ASSUME DispatchJob \/ JobTurnEnds PROVE TurnInv'
  BY <1>4 DEF DispatchJob, JobTurnEnds, WillReport
<1>5. ASSUME Complete PROVE TurnInv'
  BY <1>5 DEF Complete, Leave, Becomes
<1>6. ASSUME NEW m \in Msgs, Message(m) PROVE TurnInv'
  <2>1. ASSUME NEW o \in Orders, Receive(m, o) PROVE TurnInv'
    BY <2>1 DEF Receive, At
  <2>2. CASE ClaimRefused(m)
    BY <2>2 DEF ClaimRefused, At
  <2>3. CASE ClaimAccepted(m)
    BY <2>3 DEF ClaimAccepted, At, Accepted, Becomes
  <2>4. CASE ClaimFailsOpen(m)
    BY <2>4 DEF ClaimFailsOpen, At, Accepted, Becomes
  <2>5. CASE DispatchManual(m)
    BY <2>5 DEF DispatchManual, At
  <2>6. CASE DispatchManualRaises(m)
    BY <2>6 DEF DispatchManualRaises, At
  <2>7. CASE ManualTurnEnds(m)
    BY <2>7 DEF ManualTurnEnds, At
  <2>8. CASE StopManual(m)
    BY <2>8 DEF StopManual, At, Accepted, Becomes
  <2>9. CASE CompleteManual(m)
    BY <2>9 DEF CompleteManual, At, Becomes
  <2> QED BY <1>6, <2>1, <2>2, <2>3, <2>4, <2>5, <2>6, <2>7, <2>8, <2>9 DEF
     Message
<1>7. ASSUME Crash PROVE TurnInv'
  BY <1>7 DEF Crash, Leave
<1> QED BY <1>1, <1>2, <1>3, <1>4, <1>5, <1>6, <1>7 DEF Next, Worker

\* A started job never goes back to the queue.
LEMMA NoRetryStep ==
    ASSUME TypeOK, JobInv, NeverRetriedBlindly, Next PROVE NeverRetriedBlindly'
<1> USE DEF TypeOK, JobInv, NeverRetriedBlindly, sidecarVars, workerVars,
   msgVars, ghosts
<1>1. ASSUME NEW o \in Orders, Submit(o) \/ LeaseExpires(o) \/ Lease(o) PROVE
   NeverRetriedBlindly'
  BY <1>1 DEF Submit, LeaseExpires, Lease, Becomes
<1>2. ASSUME ResolveGroup \/ Start \/ BuildJobBlocks PROVE
   NeverRetriedBlindly'
  BY <1>2 DEF ResolveGroup, Start, BuildJobBlocks, GoOn, Leave, WillReport,
     Becomes
<1>3. ASSUME BroadcastFallback \/ SendSummary \/ SendImage PROVE
   NeverRetriedBlindly'
  BY <1>3 DEF BroadcastFallback, SendSummary, SendImage, Announced, WillReport
<1>4. ASSUME DispatchJob \/ JobTurnEnds PROVE NeverRetriedBlindly'
  BY <1>4 DEF DispatchJob, JobTurnEnds, WillReport
<1>5. ASSUME Complete PROVE NeverRetriedBlindly'
  BY <1>5 DEF Complete, Leave, Becomes
<1>6. ASSUME NEW m \in Msgs, Message(m) PROVE NeverRetriedBlindly'
  BY <1>6 DEF Message, Receive, ClaimRefused, ClaimAccepted, ClaimFailsOpen,
     DispatchManual, DispatchManualRaises, ManualTurnEnds, StopManual,
     CompleteManual, At, Accepted, Becomes
<1>7. ASSUME Crash PROVE NeverRetriedBlindly'
  BY <1>7 DEF Crash, Leave
<1> QED BY <1>1, <1>2, <1>3, <1>4, <1>5, <1>6, <1>7 DEF Next, Worker

\* Only the first send of a job may announce it.
LEMMA AnnouncedStep ==
    ASSUME TypeOK, TriedInv, AnnouncedOnce, Next PROVE AnnouncedOnce'
<1> USE DEF TypeOK, TriedInv, AnnouncedOnce, sidecarVars, workerVars, msgVars,
   ghosts
<1>1. ASSUME NEW o \in Orders, Submit(o) \/ LeaseExpires(o) \/ Lease(o) PROVE
   AnnouncedOnce'
  BY <1>1 DEF Submit, LeaseExpires, Lease, Becomes
<1>2. ASSUME ResolveGroup \/ Start \/ BuildJobBlocks PROVE AnnouncedOnce'
  BY <1>2 DEF ResolveGroup, Start, BuildJobBlocks, GoOn, Leave, WillReport,
     Becomes
<1>3. ASSUME BroadcastFallback \/ SendSummary \/ SendImage PROVE
   AnnouncedOnce'
  BY <1>3 DEF BroadcastFallback, SendSummary, SendImage, Announced, WillReport
<1>4. ASSUME DispatchJob \/ JobTurnEnds PROVE AnnouncedOnce'
  BY <1>4 DEF DispatchJob, JobTurnEnds, WillReport
<1>5. ASSUME Complete PROVE AnnouncedOnce'
  BY <1>5 DEF Complete, Leave, Becomes
<1>6. ASSUME NEW m \in Msgs, Message(m) PROVE AnnouncedOnce'
  BY <1>6 DEF Message, Receive, ClaimRefused, ClaimAccepted, ClaimFailsOpen,
     DispatchManual, DispatchManualRaises, ManualTurnEnds, StopManual,
     CompleteManual, At, Accepted, Becomes
<1>7. ASSUME Crash PROVE AnnouncedOnce'
  BY <1>7 DEF Crash, Leave
<1> QED BY <1>1, <1>2, <1>3, <1>4, <1>5, <1>6, <1>7 DEF Next, Worker

\* The second turn on an order needs a claim that failed open.
LEMMA OneTurnStep ==
    ASSUME TypeOK, TurnInv, ClaimInv, OneTurnPerOrder, Next PROVE OneTurnPerOrder'
<1> USE DEF TypeOK, TurnInv, ClaimInv, OneTurnPerOrder, Holders, sidecarVars,
   workerVars, msgVars, ghosts
<1>1. ASSUME NEW o \in Orders, Submit(o) \/ LeaseExpires(o) \/ Lease(o) PROVE
   OneTurnPerOrder'
  BY <1>1 DEF Submit, LeaseExpires, Lease, Becomes
<1>2. ASSUME ResolveGroup \/ Start \/ BuildJobBlocks PROVE OneTurnPerOrder'
  BY <1>2 DEF ResolveGroup, Start, BuildJobBlocks, GoOn, Leave, WillReport,
     Becomes
<1>3. ASSUME BroadcastFallback \/ SendSummary \/ SendImage PROVE
   OneTurnPerOrder'
  BY <1>3 DEF BroadcastFallback, SendSummary, SendImage, Announced, WillReport
<1>4. ASSUME DispatchJob \/ JobTurnEnds PROVE OneTurnPerOrder'
  BY <1>4 DEF DispatchJob, JobTurnEnds, WillReport
<1>5. ASSUME Complete PROVE OneTurnPerOrder'
  BY <1>5 DEF Complete, Leave, Becomes
<1>6. ASSUME NEW m \in Msgs, Message(m) PROVE OneTurnPerOrder'
  BY <1>6 DEF Message, Receive, ClaimRefused, ClaimAccepted, ClaimFailsOpen,
     DispatchManual, DispatchManualRaises, ManualTurnEnds, StopManual,
     CompleteManual, At, Accepted, Becomes
<1>7. ASSUME Crash PROVE OneTurnPerOrder'
  BY <1>7 DEF Crash, Leave
<1> QED BY <1>1, <1>2, <1>3, <1>4, <1>5, <1>6, <1>7 DEF Next, Worker

\* An outcome is accepted for a job that has none, from its worker.
LEMMA SuccessStep ==
    ASSUME TypeOK, JobInv, StatusInv, ClaimInv, SuccessIsConfirmed, Next PROVE SuccessIsConfirmed'
<1> USE DEF TypeOK, JobInv, StatusInv, ClaimInv, SuccessIsConfirmed, Holders,
   sidecarVars, workerVars, msgVars, ghosts
<1>1. ASSUME NEW o \in Orders, Submit(o) \/ LeaseExpires(o) \/ Lease(o) PROVE
   SuccessIsConfirmed'
  BY <1>1 DEF Submit, LeaseExpires, Lease, Becomes
<1>2. ASSUME ResolveGroup \/ Start \/ BuildJobBlocks PROVE SuccessIsConfirmed'
  BY <1>2 DEF ResolveGroup, Start, BuildJobBlocks, GoOn, Leave, WillReport,
     Becomes
<1>3. ASSUME BroadcastFallback \/ SendSummary \/ SendImage PROVE
   SuccessIsConfirmed'
  BY <1>3 DEF BroadcastFallback, SendSummary, SendImage, Announced, WillReport
<1>4. ASSUME DispatchJob \/ JobTurnEnds PROVE SuccessIsConfirmed'
  BY <1>4 DEF DispatchJob, JobTurnEnds, WillReport
<1>5. ASSUME Complete PROVE SuccessIsConfirmed'
  <2> SUFFICES ASSUME NEW o \in Orders, report'[o] = "succeeded", o \in posted'
               PROVE  o \in confirmed
    BY <1>5 DEF Complete
  <2>1. CASE o = wjob
    <3>1. report[wjob] = None
      BY <1>5 DEF Complete
    <3>2. report'[wjob] = status
      BY <1>5, <2>1, <3>1, BridgeAssumption DEF Complete, Statuses
    <3> QED BY <1>5, <2>1, <3>2 DEF Complete
  <2>2. CASE o # wjob
    BY <1>5, <2>2 DEF Complete
  <2> QED BY <2>1, <2>2
<1>6. ASSUME NEW m \in Msgs, Message(m) PROVE SuccessIsConfirmed'
  BY <1>6 DEF Message, Receive, ClaimRefused, ClaimAccepted, ClaimFailsOpen,
     DispatchManual, DispatchManualRaises, ManualTurnEnds, StopManual,
     CompleteManual, At, Accepted, Becomes
<1>7. ASSUME Crash PROVE SuccessIsConfirmed'
  BY <1>7 DEF Crash, Leave
<1> QED BY <1>1, <1>2, <1>3, <1>4, <1>5, <1>6, <1>7 DEF Next, Worker

\* The worker knows a simulation before it sends.
LEMMA SilentStep ==
    ASSUME TypeOK, JobInv, StatusInv, ClaimInv, SimulationsAreSilent, Next PROVE SimulationsAreSilent'
<1> USE DEF TypeOK, JobInv, StatusInv, ClaimInv, SimulationsAreSilent,
   Holders, sidecarVars, workerVars, msgVars, ghosts
<1>1. ASSUME NEW o \in Orders, Submit(o) \/ LeaseExpires(o) \/ Lease(o) PROVE
   SimulationsAreSilent'
  BY <1>1 DEF Submit, LeaseExpires, Lease, Becomes
<1>2. ASSUME ResolveGroup \/ Start \/ BuildJobBlocks PROVE
   SimulationsAreSilent'
  BY <1>2 DEF ResolveGroup, Start, BuildJobBlocks, GoOn, Leave, WillReport,
     Becomes
<1>3. ASSUME BroadcastFallback \/ SendSummary \/ SendImage PROVE
   SimulationsAreSilent'
  BY <1>3 DEF BroadcastFallback, SendSummary, SendImage, Announced, WillReport
<1>4. ASSUME DispatchJob \/ JobTurnEnds PROVE SimulationsAreSilent'
  BY <1>4 DEF DispatchJob, JobTurnEnds, WillReport
<1>5. ASSUME Complete PROVE SimulationsAreSilent'
  BY <1>5 DEF Complete, Leave, Becomes
<1>6. ASSUME NEW m \in Msgs, Message(m) PROVE SimulationsAreSilent'
  BY <1>6 DEF Message, Receive, ClaimRefused, ClaimAccepted, ClaimFailsOpen,
     DispatchManual, DispatchManualRaises, ManualTurnEnds, StopManual,
     CompleteManual, At, Accepted, Becomes
<1>7. ASSUME Crash PROVE SimulationsAreSilent'
  BY <1>7 DEF Crash, Leave
<1> QED BY <1>1, <1>2, <1>3, <1>4, <1>5, <1>6, <1>7 DEF Next, Worker

\* Once a send was attempted, every path out of run_once posts an outcome.
LEMMA ReportedStep ==
    ASSUME TypeOK, JobInv, TriedInv, NeverRetriedBlindly, AttemptsAreReported, Next PROVE AttemptsAreReported'
<1> USE BridgeAssumption DEF TypeOK, JobInv, TriedInv, NeverRetriedBlindly,
   AttemptsAreReported, sidecarVars, workerVars, msgVars, ghosts
<1>1. ASSUME NEW o \in Orders, Submit(o) \/ LeaseExpires(o) \/ Lease(o) PROVE
   AttemptsAreReported'
  BY <1>1 DEF Submit, LeaseExpires, Lease, Becomes
<1>2. ASSUME ResolveGroup PROVE AttemptsAreReported'
  BY <1>2 DEF ResolveGroup, Leave
<1>3. ASSUME Start PROVE AttemptsAreReported'
  BY <1>3 DEF Start, Leave, GoOn, WillReport, Becomes
<1>4. ASSUME BuildJobBlocks PROVE AttemptsAreReported'
  BY <1>4 DEF BuildJobBlocks, Leave
<1>5. ASSUME BroadcastFallback \/ SendSummary \/ SendImage PROVE
   AttemptsAreReported'
  BY <1>5 DEF BroadcastFallback, SendSummary, SendImage, Announced, WillReport
<1>6. ASSUME DispatchJob \/ JobTurnEnds PROVE AttemptsAreReported'
  BY <1>6 DEF DispatchJob, JobTurnEnds, WillReport
<1>7. ASSUME Complete PROVE AttemptsAreReported'
  BY <1>7 DEF Complete, Leave, Becomes
<1>8. ASSUME NEW m \in Msgs, Message(m) PROVE AttemptsAreReported'
  BY <1>8 DEF Message, Receive, ClaimRefused, ClaimAccepted, ClaimFailsOpen,
     DispatchManual, DispatchManualRaises, ManualTurnEnds, StopManual,
     CompleteManual, At, Accepted, Becomes
<1>9. ASSUME Crash PROVE AttemptsAreReported'
  BY <1>9 DEF Crash, Leave
<1> QED BY <1>1, <1>2, <1>3, <1>4, <1>5, <1>6, <1>7, <1>8, <1>9 DEF Next,
   Worker
-----------------------------------------------------------------------------
(* The theorems *)

\* The inductive invariant.
THEOREM BridgeInvariant == Spec => []IInv
<1>1. ASSUME Init PROVE IInv
  <2>1. TypeOK
    <3>1. found \in BOOLEAN
      BY <1>1 DEF Init
    <3>2. images \in 0..LegacyImages /\ crashes \in 0..MaxCrashes
      BY <1>1, BridgeAssumption DEF Init, LegacyImages
    <3> QED BY <1>1, <3>1, <3>2, BridgeAssumption DEF Init, TypeOK
  <2>2. JobInv /\ TriedInv /\ StatusInv /\ ClaimInv /\ TurnInv
    BY <1>1 DEF Init, JobInv, TriedInv, StatusInv, Holders, ClaimInv, TurnInv
  <2>3. /\ NeverRetriedBlindly /\ AnnouncedOnce /\ OneTurnPerOrder
        /\ SuccessIsConfirmed /\ SimulationsAreSilent /\ AttemptsAreReported
    BY <1>1
    DEF Init, NeverRetriedBlindly, AnnouncedOnce, OneTurnPerOrder,
        SuccessIsConfirmed, SimulationsAreSilent, AttemptsAreReported
  <2> QED BY <2>1, <2>2, <2>3 DEF IInv
<1>2. ASSUME IInv, [Next]_vars PROVE IInv'
  <2>1. CASE Next
    BY <1>2, <2>1, TypeStep, JobStep, TriedStep, StatusStep, ClaimStep, TurnStep,
       NoRetryStep, AnnouncedStep, OneTurnStep, SuccessStep, SilentStep, ReportedStep
    DEF IInv
  <2>2. CASE UNCHANGED vars
    BY <1>2, <2>2
    DEF vars, sidecarVars, workerVars, msgVars, ghosts, IInv, TypeOK, JobInv,
        TriedInv, StatusInv, ClaimInv, TurnInv, NeverRetriedBlindly, AnnouncedOnce,
        OneTurnPerOrder, SuccessIsConfirmed, SimulationsAreSilent,
        AttemptsAreReported
  <2> QED BY <1>2, <2>1, <2>2
<1> QED BY <1>1, <1>2, PTL DEF Spec

\* "The job therefore fails closed and must never be retried blindly": no lost
\* answer, expired lease or kill puts a job back whose send was attempted.
THEOREM NeverRetried == Spec => []NeverRetriedBlindly
BY BridgeInvariant, PTL DEF IInv

\* No job is announced twice.
THEOREM AnnouncedAtMostOnce == Spec => []AnnouncedOnce
BY BridgeInvariant, PTL DEF IInv

\* The entrances share a dedup lock that only a failed claim opens.
THEOREM OneTurn == Spec => []OneTurnPerOrder
BY BridgeInvariant, PTL DEF IInv

\* Success is reported of a job only if WeCom confirmed the last word on it.
THEOREM SuccessConfirmed == Spec => []SuccessIsConfirmed
BY BridgeInvariant, PTL DEF IInv

\* A job whose send was attempted is not left without an outcome but by a kill.
THEOREM AttemptsReported == Spec => []AttemptsAreReported
BY BridgeInvariant, PTL DEF IInv

\* What the store and the sidecar are told agrees with what was sent.
THEOREM BridgeIsSound == Spec => []BridgeSound
<1>1. IInv => BridgeSound
  BY DEF IInv, BridgeSound
<1> QED BY <1>1, BridgeInvariant, PTL

\* A send that was attempted is neither repeated nor forgotten.
THEOREM AttemptsFinal == Spec => []AttemptsAreFinal
<1>1. IInv => AttemptsAreFinal
  BY DEF IInv, AttemptsAreFinal
<1> QED BY <1>1, BridgeInvariant, PTL

-----------------------------------------------------------------------------
(* The role files *)

RoleFiles == [v : Nat \ {0}, name : TfNames, ok : BOOLEAN]

FilesTyped ==
    /\ dir \in [TfNames -> RoleFiles \cup {NoFile}] /\ version \in Nat
    /\ seen \in [TfNames -> SUBSET Nat]
    /\ load = [left |-> load.left, got |-> load.got, on |-> load.on]
    /\ load.on \in BOOLEAN /\ load.left \subseteq TfNames

\* The boss files a role under its own name, a person need not.
Filed ==
    /\ draft # NoDraft =>
          draft.stem \in TfNames /\ draft.is \in RoleFiles /\ Accepts(draft.stem, draft.is)
    /\ ~handMade => \A s \in TfNames : dir[s] # NoFile => Accepts(s, dir[s])

\* During a load: what is on disk has been seen, and so has what was read.
Watched ==
    load.on =>
       /\ \A n \in TfNames : OnDisk(n) \subseteq seen[n]
       /\ \A n \in DOMAIN load.got :
             (load.got[n] = Shipped /\ n \in TfBuiltin)
             \/ (n \in TfNames /\ load.got[n] \in seen[n])

\* If nobody meddles, what was listed and what was read is still there.
Undisturbed ==
    load.on /\ ~handMade /\ ~vanished =>
       /\ \A s \in load.left : dir[s] # NoFile
       /\ \A n \in DOMAIN load.got : n \in TfBuiltin \/ dir[n] # NoFile

TeamInv == FilesTyped /\ Filed /\ Watched /\ Undisturbed

LEMMA TeamStarts == TfInit => TeamInv
BY TfAssumption DEF TfInit, TeamInv, FilesTyped, Filed, Watched, Undisturbed, NoScan

LEMMA WhatIsOnDisk ==
    ASSUME FilesTyped, Filed, ~handMade, NEW n \in TfNames
    PROVE OnDisk(n) = IF dir[n] = NoFile THEN {} ELSE {dir[n].v}
<1>1. \A s \in TfNames : dir[s].ok /\ dir[s].name = n <=> s = n /\ dir[n] # NoFile
  <2> SUFFICES ASSUME NEW s \in TfNames
               PROVE dir[s].ok /\ dir[s].name = n <=> s = n /\ dir[n] # NoFile
    OBVIOUS
  <2>1. CASE dir[s] = NoFile
    BY <2>1, TeamAssumption DEF NoFile
  <2>2. CASE dir[s] # NoFile
    BY <2>2 DEF Filed, Accepts
  <2> QED BY <2>1, <2>2
<1>2. CASE dir[n] = NoFile
  BY <1>1, <1>2 DEF OnDisk
<1>3. CASE dir[n] # NoFile
  BY <1>1, <1>3 DEF OnDisk
<1> QED BY <1>2, <1>3

\* Writing a file.
LEMMA PutStep ==
    ASSUME TeamInv, NEW stem \in TfNames, NEW file \in RoleFiles, Put(stem, file),
           (handMade' = handMade /\ Accepts(stem, file)) \/ handMade',
           draft' = draft \/ draft' = NoDraft, version' \in Nat,
           UNCHANGED <<load, roles, vanished>>
    PROVE TeamInv'
<1> USE DEF TeamInv
<1>1. /\ dir' \in [TfNames -> RoleFiles \cup {NoFile}] /\ dir'[stem] = file
      /\ \A s \in TfNames : s # stem => dir'[s] = dir[s]
  BY DEF Put, FilesTyped
<1>2. /\ seen' \in [TfNames -> SUBSET Nat]
      /\ \A n \in TfNames : seen[n] \subseteq seen'[n]
      /\ file.ok => file.v \in seen'[file.name]
  BY DEF Put, FilesTyped, RoleFiles
<1>3. file # NoFile
  BY DEF NoFile, RoleFiles
<1>4. FilesTyped'
  BY <1>1, <1>2 DEF FilesTyped
<1>5. Filed'
  BY <1>1 DEF Filed
<1>6. Watched'
  <2> SUFFICES ASSUME load.on PROVE Watched'
    BY DEF Watched
  <2>1. ASSUME NEW n \in TfNames, NEW v \in OnDisk(n)' PROVE v \in seen'[n]
    <3>1. PICK s \in TfNames : dir'[s].ok /\ dir'[s].name = n /\ v = dir'[s].v
      BY <2>1 DEF OnDisk
    <3>2. CASE s = stem
      BY <1>1, <1>2, <3>1, <3>2
    <3>3. CASE s # stem
      <4>1. v \in OnDisk(n)
        BY <1>1, <3>1, <3>3 DEF OnDisk
      <4> QED BY <4>1, <1>2 DEF Watched
    <3> QED BY <3>2, <3>3
  <2>2. \A n \in DOMAIN load.got :
             (load.got[n] = Shipped /\ n \in TfBuiltin)
             \/ (n \in TfNames /\ load.got[n] \in seen'[n])
    BY <1>2 DEF Watched
  <2> QED BY <2>1, <2>2 DEF Watched
<1>7. Undisturbed'
  <2>1. handMade => handMade'
    OBVIOUS
  <2>2. \A s \in TfNames : dir[s] # NoFile => dir'[s] # NoFile
    BY <1>1, <1>3
  <2>3. \A n : dir[n] # NoFile /\ n \in TfNames => dir'[n] # NoFile
    BY <2>2
  <2> QED BY <2>1, <2>3 DEF Undisturbed, FilesTyped, Watched
<1> QED BY <1>4, <1>5, <1>6, <1>7

LEMMA TeamStep ==
    ASSUME TeamInv, TfNext PROVE TeamInv'
<1> USE DEF TeamInv
<1>1. ASSUME NEW stem \in TfNames, NEW n \in TfNames, NEW ok \in BOOLEAN, WriteRole(stem, n, ok)
      PROVE TeamInv'
  <2>1. draft' = [stem |-> stem, is |-> File(version + 1, n, ok)] /\ version' = version + 1
        /\ Accepts(stem, File(version + 1, n, ok))
        /\ UNCHANGED <<dir, load, roles, loaded, handMade, vanished, seen>>
    BY <1>1 DEF WriteRole, OpensTemp, tfBot
  <2>2. File(version + 1, n, ok) \in RoleFiles /\ version' \in Nat
    BY <2>1 DEF File, RoleFiles, FilesTyped
  <2>3. FilesTyped'
    BY <2>1, <2>2 DEF FilesTyped
  <2>4. Filed'
    BY <2>1, <2>2 DEF Filed, Accepts
  <2> QED BY <2>1, <2>3, <2>4 DEF Watched, Undisturbed, OnDisk
<1>2. CASE ReplaceTarget
  BY <1>2, PutStep DEF ReplaceTarget, tfBot, Filed, FilesTyped
<1>3. CASE BossDies
  BY <1>3 DEF BossDies, tfBot, FilesTyped, Filed, Watched, Undisturbed, OnDisk
<1>4. ASSUME NEW stem \in TfNames, DeleteRole(stem) PROVE TeamInv'
  <2>1. /\ dir' = [dir EXCEPT ![stem] = NoFile] /\ vanished'
        /\ UNCHANGED <<draft, version, handMade, load, roles, loaded, seen>>
    BY <1>4 DEF DeleteRole, tfBot
  <2>2. \A s \in TfNames : dir'[s] = NoFile \/ dir'[s] = dir[s]
    BY <2>1 DEF FilesTyped
  <2>3. FilesTyped' /\ Filed' /\ Undisturbed'
    BY <2>1, <2>2 DEF FilesTyped, Filed, Undisturbed, Accepts
  <2>4. ASSUME NEW n \in TfNames PROVE OnDisk(n)' \subseteq OnDisk(n)
    <3> SUFFICES ASSUME NEW s \in TfNames, dir'[s].ok, dir'[s].name = n
                 PROVE dir[s].ok /\ dir[s].name = n /\ dir'[s].v = dir[s].v
      BY DEF OnDisk
    <3>1. dir'[s] # NoFile
      BY TeamAssumption DEF NoFile
    <3> QED BY <3>1, <2>2
  <2> QED BY <2>1, <2>3, <2>4 DEF Watched
<1>5. ASSUME NEW stem \in TfNames, NEW n \in TfNames, NEW ok \in BOOLEAN, EditByHand(stem, n, ok)
      PROVE TeamInv'
  <2>1. /\ Put(stem, File(version + 1, n, ok)) /\ handMade' /\ version' = version + 1
        /\ UNCHANGED <<draft, vanished, load, roles, loaded>>
    BY <1>5 DEF EditByHand, tfBot
  <2>2. File(version + 1, n, ok) \in RoleFiles /\ version' \in Nat
    BY <2>1 DEF File, RoleFiles, FilesTyped
  <2> QED BY <2>1, <2>2, PutStep
<1>6. CASE ListDir
  <2>1. /\ load' = [left |-> {s \in TfNames : dir[s] # NoFile}, got |-> Builtins, on |-> TRUE]
        /\ seen' = [n \in TfNames |-> OnDisk(n)]
        /\ UNCHANGED <<dir, draft, version, handMade, roles, loaded>>
    BY <1>6 DEF ListDir
  <2>2. \A n \in TfNames : OnDisk(n) \subseteq Nat
    BY DEF OnDisk, FilesTyped, RoleFiles, NoFile
  <2>3. FilesTyped' /\ Filed'
    BY <2>1, <2>2 DEF FilesTyped, Filed
  <2>4. Undisturbed'
    BY <2>1 DEF Undisturbed, Builtins
  <2>5. Watched'
    BY <2>1 DEF Watched, Builtins, OnDisk
  <2> QED BY <2>3, <2>4, <2>5
<1>7. ASSUME NEW s \in TfNames, ReadNext(s) PROVE TeamInv'
  <2>1. load.on /\ s \in load.left /\ UNCHANGED <<dir, draft, version, handMade, vanished, seen>>
    BY <1>7 DEF ReadNext, tfDisk
  <2>2. CASE Fails
    <3>1. load' = NoScan
      BY <2>2 DEF Fails
    <3> QED BY <2>1, <3>1 DEF NoScan, FilesTyped, Filed, Watched, Undisturbed
  <2>3. CASE ~(dir[s] = NoFile \/ ~dir[s].ok)
    <3> DEFINE m == dir[s].name
    <3>1. m \in TfNames /\ dir[s] # NoFile /\ dir[s].ok
      BY <2>3 DEF FilesTyped, RoleFiles
    <3> DEFINE got == [n \in DOMAIN load.got \cup {m} |-> IF n = m THEN dir[s].v ELSE load.got[n]]
    <3>2. load' = [load EXCEPT !.left = load.left \ {s}, !.got = got] /\ roles' = roles
      BY <1>7, <2>3 DEF ReadNext
    <3>3. load = [left |-> load.left, got |-> load.got, on |-> load.on]
      BY DEF FilesTyped
    <3>4. DOMAIN got = DOMAIN load.got \cup {m} /\ got[m] = dir[s].v
          /\ \A n \in DOMAIN load.got : n # m => got[n] = load.got[n]
      OBVIOUS
    <3> HIDE DEF got
    <3>5. /\ load'.left = load.left \ {s} /\ load'.on
          /\ DOMAIN load'.got = DOMAIN load.got \cup {m}
          /\ load'.got[m] = dir[s].v
          /\ \A n \in DOMAIN load.got : n # m => load'.got[n] = load.got[n]
          /\ load' = [left |-> load'.left, got |-> load'.got, on |-> load'.on]
          /\ roles' = roles
      BY <2>1, <3>4, <3>2, <3>3
    <3> HIDE DEF m
    <3>6. dir[s].v \in OnDisk(m)
      BY <3>1 DEF OnDisk, m
    <3>7. FilesTyped' /\ Filed'
      BY <2>1, <3>5 DEF FilesTyped, Filed
    <3>8. Watched'
      BY <2>1, <3>1, <3>5, <3>6 DEF Watched, OnDisk
    <3>9. ~handMade => m = s
      BY <3>1 DEF Filed, Accepts, m
    <3>10. Undisturbed'
      BY <2>1, <3>1, <3>5, <3>9 DEF Undisturbed
    <3> QED BY <3>7, <3>8, <3>10
  <2> QED BY <1>7, <2>2, <2>3 DEF ReadNext
<1>8. CASE Swap
  <2>1. load' = NoScan /\ UNCHANGED <<dir, draft, version, handMade, vanished, seen>>
    BY <1>8 DEF Swap, tfDisk
  <2> QED BY <2>1 DEF NoScan, FilesTyped, Filed, Watched, Undisturbed
<1> QED BY <1>1, <1>2, <1>3, <1>4, <1>5, <1>6, <1>7, <1>8 DEF TfNext

\* What the boss's tools say.
LEMMA TeamTools == TeamInv => ToolsAgree
<1> SUFFICES ASSUME TeamInv, ~handMade, NEW n \in DOMAIN ListRoles
             PROVE /\ ReadRole(n) \in {Shipped} \cup OnDisk(n)
                   /\ ListRoles[n] = "user" => dir[n] # NoFile
                   /\ ListRoles[n] = "builtin" <=> ReadRole(n) = Shipped
  BY DEF ToolsAgree
<1>1. n \in TfNames /\ (n \in TfBuiltin \/ OnDisk(n) # {})
  BY TfAssumption DEF ListRoles
<1>2. OnDisk(n) = IF dir[n] = NoFile THEN {} ELSE {dir[n].v}
  BY <1>1, WhatIsOnDisk DEF TeamInv
<1>3. dir[n] # NoFile => dir[n].v # Shipped
  BY <1>1 DEF TeamInv, FilesTyped, RoleFiles, Shipped
<1>4. ListRoles[n] = IF OnDisk(n) = {} THEN "builtin"
                     ELSE IF n \in TfBuiltin THEN "user_override" ELSE "user"
  BY DEF ListRoles
<1>5. CASE dir[n] # NoFile
  BY <1>2, <1>3, <1>4, <1>5 DEF ReadRole
<1>6. CASE dir[n] = NoFile
  BY <1>1, <1>2, <1>4, <1>6 DEF ReadRole
<1> QED BY <1>5, <1>6

\* What a step of the bot's load does to the roles in force.
LEMMA TeamLoads ==
    ASSUME TeamInv, TeamInv', [TfNext]_tfVars
    PROVE /\ loaded' = "failed" /\ loaded # "failed" => handMade \/ vanished
          /\ roles' # roles =>
                \A n \in DOMAIN roles' : (roles'[n] = Shipped /\ n \in TfBuiltin) \/ roles'[n] \in seen[n]
          /\ load.on /\ ~load'.on /\ loaded' = "ok" =>
                handMade \/ vanished \/ DOMAIN roles' \subseteq DOMAIN ListRoles
<1>1. CASE UNCHANGED <<load, roles, loaded>>
  BY <1>1
<1>2. CASE ListDir
  BY <1>2 DEF ListDir
<1>3. ASSUME NEW s \in TfNames, ReadNext(s)
      PROVE roles' = roles /\ (loaded' = loaded \/ (loaded' = "failed" /\ (handMade \/ vanished)))
            /\ (~load'.on => loaded' = "failed")
  <2>1. CASE ~(dir[s] = NoFile \/ ~dir[s].ok)
    BY <1>3, <2>1 DEF ReadNext, TeamInv, FilesTyped
  <2>2. CASE dir[s] = NoFile \/ ~dir[s].ok
    <3>1. roles' = roles /\ loaded' = "failed"
      BY <1>3, <2>2 DEF ReadNext, Fails
    <3>2. ~handMade /\ ~vanished => dir[s] # NoFile /\ Accepts(s, dir[s])
      BY <1>3 DEF ReadNext, TeamInv, Undisturbed, Filed
    <3> QED BY <3>1, <3>2, <2>2 DEF Accepts
  <2> QED BY <2>1, <2>2
<1>4. CASE Swap
  <2>1. load.on /\ roles' = load.got /\ loaded' = "ok"
    BY <1>4 DEF Swap, SwapsWhole
  <2>2. \A n \in DOMAIN roles' : (roles'[n] = Shipped /\ n \in TfBuiltin) \/ roles'[n] \in seen[n]
    BY <2>1 DEF TeamInv, Watched
  <2>3. ASSUME ~handMade, ~vanished, NEW n \in DOMAIN roles' PROVE n \in DOMAIN ListRoles
    <3>1. n \in TfBuiltin \/ (n \in TfNames /\ dir[n] # NoFile)
      BY <2>1, <2>3 DEF TeamInv, Watched, Undisturbed
    <3>2. n \in TfBuiltin \/ (n \in TfNames /\ OnDisk(n) # {})
      BY <3>1, <2>3, WhatIsOnDisk DEF TeamInv
    <3> QED BY <3>2 DEF ListRoles
  <2> QED BY <2>1, <2>2, <2>3
<1> QED
  BY <1>1, <1>2, <1>3, <1>4
  DEF TfNext, ReplaceTarget, BossDies, DeleteRole, WriteRole, EditByHand, tfVars, tfBot

\* What the boss writes loads, under its name, and what is in force was on disk
\* (team_tools.py, roles/registry.py).
THEOREM TeamFilesStaySound == RcSpec => TeamFilesSound
<1>1. RcInit => TeamInv
  BY TeamStarts DEF RcInit
<1>2. RcNext \/ UNCHANGED RcVars => [TfNext]_tfVars
  BY DEF RcNext, RcVars
<1>3. TeamInv /\ [RcNext]_RcVars => TeamInv'
  <2> SUFFICES ASSUME TeamInv, RcNext \/ UNCHANGED RcVars PROVE TeamInv'
    OBVIOUS
  <2>1. CASE TfNext
    BY <2>1, TeamStep
  <2>2. CASE UNCHANGED tfVars
    BY <2>2 DEF tfVars, tfDisk, tfBot, TeamInv, FilesTyped, Filed, Watched, Undisturbed, OnDisk
  <2> QED BY <1>2, <2>1, <2>2
<1>4. TeamInv => ToolsAgree
  BY TeamTools
<1>5. TeamInv /\ TeamInv' /\ [RcNext]_RcVars =>
        /\ [loaded' = "failed" /\ loaded # "failed" => handMade \/ vanished]_tfVars
        /\ [roles' # roles =>
              \A n \in DOMAIN roles' : (roles'[n] = Shipped /\ n \in TfBuiltin) \/ roles'[n] \in seen[n]]_tfVars
        /\ [load.on /\ ~load'.on /\ loaded' = "ok" =>
              handMade \/ vanished \/ DOMAIN roles' \subseteq DOMAIN ListRoles]_tfVars
  BY <1>2, TeamLoads
<1> QED
  BY <1>1, <1>3, <1>4, <1>5, PTL
  DEF RcSpec, TeamFilesSound, BossFilesLoad, RolesWereOnDisk, InForceIsListed

-----------------------------------------------------------------------------
(* The boss's screen *)

BossVars == <<bsAll>>

Told == [is : {"changed", "submitted"}, text : BsTexts]

ScreenTyped ==
    /\ box \in BsTexts /\ events \in Seq(Told)
    /\ popup.cmds \in Seq(BsTexts)
    /\ popup # Chat!Hidden => popup.at \in DOMAIN popup.cmds

WorkerTyped ==
    /\ worker \in [at : {"none", "new", "turn", "compact"}, msg : Nat]
    /\ worker.at # "none" => worker.msg # 0
    /\ began \in Nat /\ busy \in BOOLEAN /\ history \in Seq(Nat)

\* The latest text that the box told of is this one; it told of none.
LastTold(e, text) ==
    \A i \in 1..Len(e) :
       e[i].is = "changed" /\ (\A j \in 1..Len(e) : j > i => e[j].is # "changed")
       => e[i].text = text

Quiet(e) == \A i \in 1..Len(e) : e[i].is # "changed"

\* The latest text that the box told of is the one in it; without one under way,
\* the popup on the screen is that text's.
BoxIsTold ==
    /\ LastTold(events, box)
    /\ Quiet(events) => popup = Chat!Hidden \/ popup.cmds = BsMatches[box]

\* A turn's own message can be taken back out of the history; its widget is
\* mounted unless the screen was cleared.
TurnUnderWay ==
    /\ worker.at = "turn" =>
          /\ Len(history) > 0 /\ (history[1] = Chat!Summary => Len(history) > 2)
          /\ pending = "mounted" \/ worker.msg \in wiped
    /\ front = Chat!Ended => worker = Chat!NoWorker

BossInv == ScreenTyped /\ WorkerTyped /\ BoxIsTold /\ TurnUnderWay /\ Chat!BossSound

LEMMA BossStarts == Chat!BsInit => BossInv
<1> SUFFICES ASSUME Chat!BsInit PROVE BossInv
  OBVIOUS
<1> USE DEF Chat!BsInit, Chat!Hidden, Chat!NoWorker, Chat!Ended
<1>1. ScreenTyped
  BY BossAssumption DEF ScreenTyped
<1>2. WorkerTyped
  <2>1. worker = [at |-> "none", msg |-> 0] /\ began = 0 /\ busy = FALSE /\ history = << >>
    OBVIOUS
  <2>2. worker \in [at : {"none", "new", "turn", "compact"}, msg : Nat]
    BY <2>1
  <2>3. worker.at = "none" /\ history \in Seq(Nat)
    BY <2>1
  <2> HIDE DEF Chat!BsInit
  <2> QED BY <2>1, <2>2, <2>3 DEF WorkerTyped
<1>3. BoxIsTold
  BY DEF BoxIsTold, LastTold, Quiet
<1>4. TurnUnderWay
  BY DEF TurnUnderWay
<1>5. Chat!TurnsAreAnswered
  BY DEF Chat!TurnsAreAnswered
<1>6. Chat!HistoryIsWhole
  BY DEF Chat!HistoryIsWhole
<1>7. Chat!PopupFits
  BY DEF Chat!PopupFits
<1> QED BY <1>1, <1>2, <1>3, <1>4, <1>5, <1>6, <1>7 DEF BossInv, Chat!BossSound

LEMMA ToldAppend ==
    ASSUME NEW e \in Seq(Told), NEW x \in Told, NEW text
    PROVE /\ Append(e, x) \in Seq(Told)
          /\ x.is = "changed" /\ x.text = text =>
                LastTold(Append(e, x), text) /\ ~Quiet(Append(e, x))
          /\ x.is # "changed" =>
                /\ LastTold(e, text) => LastTold(Append(e, x), text)
                /\ Quiet(Append(e, x)) => Quiet(e)
<1> DEFINE f == Append(e, x)
<1>1. f \in Seq(Told) /\ Len(f) = Len(e) + 1 /\ Len(e) \in Nat /\ f[Len(e) + 1] = x
      /\ \A i \in 1..Len(e) : f[i] = e[i]
  OBVIOUS
<1> HIDE DEF f
<1>2. x.is = "changed" /\ x.text = text => LastTold(f, text) /\ ~Quiet(f)
  BY <1>1 DEF LastTold, Quiet
<1>3. x.is # "changed" /\ LastTold(e, text) => LastTold(f, text)
  BY <1>1 DEF LastTold
<1>4. Quiet(f) => Quiet(e)
  BY <1>1 DEF Quiet
<1> QED BY <1>1, <1>2, <1>3, <1>4 DEF f

LEMMA ToldTail ==
    ASSUME NEW e \in Seq(Told), e # << >>, NEW text, LastTold(e, text)
    PROVE /\ Tail(e) \in Seq(Told) /\ Head(e) \in Told
          /\ LastTold(Tail(e), text)
          /\ Quiet(Tail(e)) => Quiet(e) \/ Head(e).text = text
<1> DEFINE f == Tail(e)
<1>1. f \in Seq(Told) /\ Len(f) = Len(e) - 1 /\ Len(e) \in Nat /\ Len(e) > 0 /\ e[1] \in Told
      /\ Head(e) = e[1] /\ \A i \in 1..Len(f) : f[i] = e[i + 1]
  OBVIOUS
<1> HIDE DEF f
<1>2. \A j \in 1..Len(e) : j > 1 => j - 1 \in 1..Len(f) /\ e[j] = f[j - 1]
  BY <1>1
<1>3. LastTold(f, text)
  <2> SUFFICES ASSUME NEW i \in 1..Len(f), f[i].is = "changed",
                      \A j \in 1..Len(f) : j > i => f[j].is # "changed"
               PROVE f[i].text = text
    BY DEF LastTold
  <2>1. i + 1 \in 1..Len(e) /\ e[i + 1] = f[i]
    BY <1>1
  <2>2. \A j \in 1..Len(e) : j > i + 1 => e[j].is # "changed"
    <3> SUFFICES ASSUME NEW j \in 1..Len(e), j > i + 1 PROVE e[j].is # "changed"
      OBVIOUS
    <3>1. j - 1 \in 1..Len(f) /\ j - 1 > i /\ e[j] = f[j - 1]
      BY <1>1, <1>2
    <3> QED BY <3>1
  <2> QED BY <2>1, <2>2 DEF LastTold
<1>4. Quiet(f) => Quiet(e) \/ e[1].text = text
  <2> SUFFICES ASSUME Quiet(f), e[1].is = "changed" PROVE e[1].text = text
    <3>1. ASSUME Quiet(f), e[1].is # "changed", NEW j \in 1..Len(e) PROVE e[j].is # "changed"
      <4>1. CASE j = 1
        BY <4>1, <3>1
      <4>2. CASE j > 1
        BY <4>2, <3>1, <1>2 DEF Quiet
      <4> QED BY <4>1, <4>2
    <3> QED BY <3>1 DEF Quiet
  <2>1. 1 \in 1..Len(e) /\ \A j \in 1..Len(e) : j > 1 => e[j].is # "changed"
    BY <1>1, <1>2 DEF Quiet
  <2> QED BY <2>1 DEF LastTold
<1> QED BY <1>1, <1>3, <1>4 DEF f

\* What the box and its popup do.
LEMMA ScreenStep ==
    ASSUME ScreenTyped, WorkerTyped, BoxIsTold, Chat!BsNext
    PROVE ScreenTyped' /\ BoxIsTold'
<1> USE DEF ScreenTyped, BoxIsTold
<1>1. Chat!Hidden.cmds = << >> /\ Chat!Nothing \in BsTexts /\ BsMatches \in [BsTexts -> Seq(BsTexts)]
  BY BossAssumption DEF Chat!Hidden
<1>2. ASSUME NEW text \in BsTexts, NEW others \in Seq(Told), Chat!SetBox(text, others),
             LastTold(others, box),
             popup' = Chat!Hidden \/ (popup' = popup /\ text # box)
      PROVE ScreenTyped' /\ BoxIsTold'
  <2> DEFINE x == Chat!Event("changed", text)
  <2>1. x \in Told /\ x.is = "changed" /\ x.text = text
    BY DEF Chat!Event, Told
  <2> HIDE DEF x
  <2>2. Append(others, x) \in Seq(Told) /\ LastTold(Append(others, x), text)
        /\ ~Quiet(Append(others, x))
    BY <2>1, ToldAppend
  <2>3. CASE text = box
    <3>1. box' = box /\ events' = others /\ popup' = Chat!Hidden
      BY <2>3, <1>2 DEF Chat!SetBox
    <3>2. LastTold(others, box)
      BY <1>2
    <3> QED BY <3>1, <3>2, <2>3, <1>1
  <2>4. CASE text # box
    <3>1. box' = text /\ events' = Append(others, x)
      BY <2>4, <1>2 DEF Chat!SetBox, x
    <3>2. popup'.cmds \in Seq(BsTexts) /\ (popup' # Chat!Hidden => popup'.at \in DOMAIN popup'.cmds)
      <4>1. CASE popup' = Chat!Hidden
        BY <4>1, <1>1
      <4>2. CASE popup' = popup
        BY <4>2
      <4> QED BY <4>1, <4>2, <1>2
    <3>3. box' \in BsTexts /\ events' \in Seq(Told)
      BY <3>1, <2>2
    <3>4. ScreenTyped'
      BY <3>2, <3>3
    <3> QED BY <3>1, <3>4, <2>2
  <2> QED BY <2>3, <2>4
<1>3. CASE UNCHANGED <<box, events, popup>>
  BY <1>3 DEF LastTold, Quiet
<1>4. CASE Chat!PressEnter
  <2> DEFINE x == Chat!Event("submitted", box)
  <2>1. x \in Told /\ x.is # "changed"
    BY DEF Chat!Event, Told
  <2>2. events' = Append(events, x) /\ UNCHANGED <<box, popup>>
    BY <1>4 DEF Chat!PressEnter
  <2> HIDE DEF x
  <2> QED BY <2>1, <2>2, ToldAppend
<1>5. CASE Chat!PressEscape
  BY <1>5, <1>1 DEF Chat!PressEscape
<1>6. CASE Chat!OnChanged
  <2>1. /\ events # << >> /\ Head(events).is = "changed" /\ events' = Tail(events) /\ box' = box
        /\ popup' = IF BsMatches[Head(events).text] = << >> THEN Chat!Hidden
                    ELSE [cmds |-> BsMatches[Head(events).text], at |-> 1]
    BY <1>6 DEF Chat!OnChanged
  <2>2. /\ Tail(events) \in Seq(Told) /\ Head(events) \in Told
        /\ LastTold(Tail(events), box)
        /\ Quiet(Tail(events)) => Quiet(events) \/ Head(events).text = box
    BY <2>1, ToldTail
  <2>3. Head(events) = events[1] /\ Len(events) \in Nat /\ Len(events) > 0
    BY <2>1
  <2>4. ~Quiet(events) /\ Head(events).text \in BsTexts
    BY <2>1, <2>2, <2>3 DEF Quiet, Told
  <2>5. BsMatches[Head(events).text] \in Seq(BsTexts)
    BY <2>4, <1>1
  <2>6. ScreenTyped'
    BY <2>1, <2>2, <2>5, <1>1
  <2>7. BoxIsTold'
    BY <2>1, <2>2, <2>4, <2>5, <1>1
  <2> QED BY <2>6, <2>7
<1>7. ASSUME NEW text, Chat!Submitted(text) PROVE ScreenTyped' /\ BoxIsTold'
  <2>1. events # << >> /\ Chat!SetBox(Chat!Nothing, Tail(events)) /\ popup' = Chat!Hidden
    BY <1>7 DEF Chat!Submitted
  <2>2. Tail(events) \in Seq(Told) /\ LastTold(Tail(events), box)
    BY <2>1, ToldTail
  <2> QED BY <2>1, <2>2, <1>1, <1>2
<1>8. ASSUME NEW text \in BsTexts, Chat!Type(text) PROVE ScreenTyped' /\ BoxIsTold'
  BY <1>8, <1>2 DEF Chat!Type
<1>9. ASSUME NEW d \in {-1, 1}, Chat!Move(d) PROVE ScreenTyped' /\ BoxIsTold'
  <2>1. /\ popup.at + d \in DOMAIN popup.cmds /\ popup # Chat!Hidden
        /\ popup' = [popup EXCEPT !.at = @ + d] /\ UNCHANGED <<box, events>>
    BY <1>9 DEF Chat!Move
  <2> QED BY <2>1, <1>1
<1>10. ASSUME NEW i \in 1..4, Chat!AcceptCommand(i) PROVE ScreenTyped' /\ BoxIsTold'
  BY <1>10, <1>2 DEF Chat!AcceptCommand
<1> QED
  BY <1>3, <1>4, <1>5, <1>6, <1>7, <1>8, <1>9, <1>10
  DEF Chat!BsNext, Chat!OnNoMessage, Chat!OnClear, Chat!OnQuit, Chat!Quit, Chat!OnMessage,
      Chat!ReadLine, Chat!BeginTurn, Chat!FinishCompaction, Chat!FinishTurn, Chat!bsInput

\* What the worker does to the history and the marks.
LEMMA WorkerStep ==
    ASSUME WorkerTyped, TurnUnderWay, Chat!TurnsAreAnswered, Chat!HistoryIsWhole, Chat!BsNext
    PROVE WorkerTyped' /\ TurnUnderWay' /\ Chat!TurnsAreAnswered' /\ Chat!HistoryIsWhole'
<1> DEFINE Goal == WorkerTyped /\ TurnUnderWay /\ Chat!TurnsAreAnswered /\ Chat!HistoryIsWhole
<1> USE DEF WorkerTyped, TurnUnderWay, Chat!TurnsAreAnswered, Chat!HistoryIsWhole,
        Chat!NoWorker, Chat!Ended, Chat!Summary
<1>1. CASE UNCHANGED <<front, busy, worker, pending, history, shown, began, wiped, lost>>
  BY <1>1
<1>2. CASE Chat!OnClear
  BY <1>2 DEF Chat!OnClear, Chat!Submitted
<1>3. CASE Chat!Quit
  BY <1>3 DEF Chat!Quit
<1>4. CASE Chat!OnMessage
  <2>1. front # Chat!Ended /\ UNCHANGED <<front, pending, history, shown, wiped>>
    BY <1>4 DEF Chat!OnMessage, Chat!Submitted
  <2>2. CASE UNCHANGED <<busy, worker, began, lost>>
    BY <2>1, <2>2
  <2>3. CASE ~busy /\ Chat!StartWorker
    BY <2>1, <2>3 DEF Chat!StartWorker
  <2> QED BY <1>4, <2>2, <2>3 DEF Chat!OnMessage, Chat!Idle
<1>5. CASE Chat!ReadLine
  BY <1>5 DEF Chat!ReadLine, Chat!StartWorker
<1>6. CASE Chat!BeginTurn
  BY <1>6 DEF Chat!BeginTurn
<1>7. ASSUME NEW fails \in BOOLEAN, Chat!FinishTurn(fails) PROVE Goal'
  <2>1. /\ worker.at = "turn" /\ worker' \in {Chat!NoWorker, [worker EXCEPT !.at = "compact"]}
        /\ history' = IF fails THEN SubSeq(history, 1, Len(history) - 1) ELSE history
        /\ shown' = IF pending = "mounted" THEN shown \cup {worker.msg} ELSE shown
        /\ busy' = FALSE /\ UNCHANGED <<front, began, wiped, lost>>
    BY <1>7 DEF Chat!FinishTurn, Chat!Front
  <2>2. Len(history) \in Nat /\ Len(history) > 0
    BY <2>1
  <2>3. /\ history' \in Seq(Nat)
        /\ \A i \in DOMAIN history' : history'[i] = history[i] /\ i \in DOMAIN history
        /\ Len(history') >= Len(history) - 1
    BY <2>1, <2>2
  <2>4. Chat!HistoryIsWhole'
    <3> SUFFICES ASSUME NEW i \in DOMAIN history', history'[i] = Chat!Summary
                 PROVE i = 1 /\ Len(history') > 1
      OBVIOUS
    <3>1. i = 1 /\ history[1] = Chat!Summary
      BY <2>3
    <3> QED BY <3>1, <2>1, <2>2, <2>3
  <2>5. /\ worker' \in [at : {"none", "new", "turn", "compact"}, msg : Nat]
        /\ worker'.at # "none" => worker'.msg = worker.msg
        /\ worker'.at \in {"none", "compact"}
    BY <2>1
  <2>7. WorkerTyped'
    BY <2>1, <2>3, <2>5
  <2>6. TurnUnderWay' /\ Chat!TurnsAreAnswered'
    BY <2>1, <2>5
  <2> QED BY <2>4, <2>6, <2>7
<1>8. CASE Chat!FinishCompaction
  <2>1. /\ worker.at = "compact" /\ worker' = Chat!NoWorker
        /\ UNCHANGED <<front, busy, pending, shown, began, wiped, lost>>
        /\ \/ history' = history
           \/ Len(history) > 1 /\ history' = <<Chat!Summary, history[Len(history)]>>
    BY <1>8 DEF Chat!FinishCompaction, Chat!Last
  <2>2. history' \in Seq(Nat) /\ Chat!HistoryIsWhole'
    <3>1. CASE history' = history
      BY <3>1
    <3>2. CASE Len(history) > 1 /\ history' = <<Chat!Summary, history[Len(history)]>>
      <4>1. Len(history) \in DOMAIN history /\ history[Len(history)] \in Nat \ {0}
        BY <3>2
      <4> QED BY <3>2, <4>1
    <3> QED BY <2>1, <3>1, <3>2
  <2> QED BY <2>1, <2>2
<1> QED
  BY <1>1, <1>2, <1>3, <1>4, <1>5, <1>6, <1>7, <1>8
  DEF Chat!BsNext, Chat!OnNoMessage, Chat!OnQuit, Chat!PressEnter, Chat!PressEscape,
      Chat!OnChanged, Chat!Type, Chat!Move, Chat!AcceptCommand, Chat!Room, Chat!bsTurn

\* Turns are answered, the history keeps its messages and the popup fits the box
\* (boss.py, boss_tui.py).
THEOREM ScreenStaysSound == RcSpec => []Chat!BossSound
<1>1. BossInv /\ UNCHANGED BossVars => BossInv'
  BY DEF BossInv, BossVars, bsAll, ScreenTyped, WorkerTyped, BoxIsTold, LastTold, Quiet, TurnUnderWay,
     Chat!BossSound, Chat!TurnsAreAnswered, Chat!HistoryIsWhole, Chat!PopupFits
<1>2. BossInv /\ Chat!BsNext => BossInv'
  <2> SUFFICES ASSUME BossInv, Chat!BsNext PROVE BossInv'
    OBVIOUS
  <2>1. ScreenTyped' /\ BoxIsTold'
    BY ScreenStep DEF BossInv
  <2>2. WorkerTyped' /\ TurnUnderWay' /\ Chat!TurnsAreAnswered' /\ Chat!HistoryIsWhole'
    BY WorkerStep DEF BossInv, Chat!BossSound
  <2>3. ASSUME ScreenTyped, BoxIsTold PROVE Chat!PopupFits
    <3>1. events = << >> => Quiet(events)
      BY DEF Quiet
    <3> QED BY <3>1, <2>3 DEF ScreenTyped, BoxIsTold, Chat!PopupFits
  <2>4. Chat!PopupFits'
    <3>1. events' = << >> => Quiet(events')
      BY DEF Quiet
    <3> QED BY <3>1, <2>1 DEF ScreenTyped, BoxIsTold, Chat!PopupFits
  <2> QED BY <2>1, <2>2, <2>4 DEF BossInv, Chat!BossSound
<1>3. BossInv /\ [RcNext]_RcVars => BossInv'
  <2> SUFFICES ASSUME BossInv, RcNext \/ UNCHANGED RcVars PROVE BossInv'
    BY DEF RcVars
  <2>1. CASE UNCHANGED RcVars
    BY <2>1, <1>1 DEF RcVars, BossVars
  <2>2. CASE RcNext
    <3>1. Chat!BsNext \/ UNCHANGED BossVars
      BY <2>2 DEF RcNext, BossVars
    <3> QED BY <3>1, <1>1, <1>2
  <2> QED BY <2>1, <2>2
<1>4. RcInit => BossInv
  BY BossStarts DEF RcInit
<1>5. BossInv => Chat!BossSound
  BY DEF BossInv
<1> QED BY <1>3, <1>4, <1>5, PTL DEF RcSpec

\* The boss, its screen and the role files that it writes (BossSound of the run).
THEOREM BossStaysSound == RcSpec => BossSound
BY ScreenStaysSound, TeamFilesStaySound DEF BossSound

-----------------------------------------------------------------------------
(* Skills *)

LEMMA SkillsCount == \A S : Skill!Cardinality(S) = Cardinality(S)
BY DEF Skill!Cardinality, Cardinality

LEMMA NamesAreFinite == IsFiniteSet(Skill!SkNames)
<1>1. SkOrder \in Surjection(DOMAIN SkOrder, Skill!SkNames)
  BY SkillsAssumption DEF Surjection, Skill!SkNames
<1>2. IsFiniteSet(DOMAIN SkOrder)
  <2>1. DOMAIN SkOrder = 1..Len(SkOrder) /\ Len(SkOrder) \in Nat
    BY SkillsAssumption
  <2> QED BY <2>1, FS_Interval
<1> QED BY <1>1, <1>2, FS_Surjection

\* What is kept of the directories while they are read.
ScanTyped ==
    /\ dirs = [n \in Skill!SkNames |-> dirs[n]]
    /\ loading = [left |-> loading.left, got |-> loading.got, on |-> loading.on]
    /\ loading.on \in BOOLEAN /\ loading.left \subseteq Skill!SkNames
    /\ DOMAIN loading.got \subseteq Skill!SkNames /\ DOMAIN skills \subseteq Skill!SkNames
    /\ listed = [n \in Skill!SkNames |-> listed[n]]
    /\ \A n \in Skill!SkNames : IsFiniteSet(listed[n])

\* A directory read or to be read has been seen; one that was passed over has been
\* seen to hold nothing of use.
ScanWatched ==
    loading.on =>
       /\ \A n \in Skill!SkNames : dirs[n] \in listed[n]
       /\ \A n \in DOMAIN loading.got :
             loading.got[n] \in listed[n] /\ Skill!Usable(loading.got[n])
       /\ \A n \in Skill!SkNames \ (loading.left \cup DOMAIN loading.got) :
             \E d \in listed[n] : ~Skill!Usable(d)

\* The words of the user stay in the latest message until the answer is forced.
WordsKept ==
    /\ said = [user |-> said.user, note |-> said.note] /\ transfers \in Nat
    /\ skRole # Skill!NoTurn => said.user = asked \/ transfers = SkTransferCap

SkillInv == ScanTyped /\ ScanWatched /\ WordsKept

LEMMA SkillStarts == Skill!SkInit => SkillInv
<1> SUFFICES ASSUME Skill!SkInit PROVE SkillInv
  OBVIOUS
<1> USE DEF Skill!SkInit, Skill!NoScan
<1>1. ScanTyped
  BY FS_EmptySet DEF ScanTyped, Skill!Unwatched
<1>2. ScanWatched /\ WordsKept
  BY DEF ScanWatched, WordsKept
<1> QED BY <1>1, <1>2 DEF SkillInv

LEMMA ScanStep ==
    ASSUME ScanTyped, ScanWatched, Skill!SkNext PROVE ScanTyped' /\ ScanWatched'
<1> DEFINE Goal == ScanTyped /\ ScanWatched
<1>1. CASE UNCHANGED <<dirs, loading, skills, listed>>
  BY <1>1 DEF ScanTyped, ScanWatched
<1>2. ASSUME NEW n \in Skill!SkNames, Skill!Edit(n) PROVE Goal'
  <2>1. PICK d : /\ dirs' = [dirs EXCEPT ![n] = d]
                 /\ listed' = IF loading.on THEN [listed EXCEPT ![n] = @ \cup {d}] ELSE listed
    BY <1>2 DEF Skill!Edit
  <2>2. UNCHANGED <<loading, skills>>
    BY <1>2 DEF Skill!Edit, Skill!skBot
  <2>3. /\ dirs' = [m \in Skill!SkNames |-> dirs'[m]] /\ dirs'[n] = d
        /\ \A m \in Skill!SkNames : m # n => dirs'[m] = dirs[m]
    BY <2>1 DEF ScanTyped
  <2>4. /\ listed' = [m \in Skill!SkNames |-> listed'[m]]
        /\ \A m \in Skill!SkNames : listed[m] \subseteq listed'[m]
        /\ loading.on => d \in listed'[n]
        /\ \A m \in Skill!SkNames : listed'[m] = listed[m] \/ listed'[m] = listed[m] \cup {d}
    BY <2>1 DEF ScanTyped
  <2>5. ASSUME NEW m \in Skill!SkNames PROVE IsFiniteSet(listed'[m])
    <3>1. IsFiniteSet(listed[m])
      BY DEF ScanTyped
    <3>2. IsFiniteSet(listed[m] \cup {d})
      BY <3>1, FS_AddElement
    <3> QED BY <2>4, <3>1, <3>2
  <2>6. ScanTyped'
    BY <2>2, <2>3, <2>4, <2>5 DEF ScanTyped
  <2>7. ScanWatched'
    BY <2>2, <2>3, <2>4 DEF ScanTyped, ScanWatched
  <2> QED BY <2>6, <2>7
<1>3. CASE Skill!ListSkills
  <2>1. /\ loading' = [left |-> {n \in Skill!SkNames : dirs[n] # Skill!NoSkill},
                       got |-> << >>, on |-> TRUE]
        /\ listed' = [n \in Skill!SkNames |-> {dirs[n]}]
        /\ UNCHANGED <<dirs, skills>>
    BY <1>3 DEF Skill!ListSkills, Skill!NoScan, Skill!skDisk
  <2>5. \A n \in Skill!SkNames : IsFiniteSet(listed'[n])
    BY <2>1, FS_Singleton
  <2>6. /\ loading'.left \subseteq Skill!SkNames /\ DOMAIN loading'.got = {} /\ loading'.on
        /\ loading' = [left |-> loading'.left, got |-> loading'.got, on |-> loading'.on]
    BY <2>1
  <2>2. ScanTyped'
    BY <2>1, <2>5, <2>6 DEF ScanTyped
  <2>3. ~Skill!Usable(Skill!NoSkill)
    BY DEF Skill!Usable, Skill!NoSkill
  <2>4. ScanWatched'
    BY <2>1, <2>3 DEF ScanWatched
  <2> QED BY <2>2, <2>4
<1>4. CASE Skill!ReadSkill
  <2>1. /\ loading.on /\ UNCHANGED <<dirs, skills>>
        /\ listed' = IF loading'.on THEN listed ELSE Skill!Unwatched
    BY <1>4 DEF Skill!ReadSkill, Skill!skDisk
  <2>2. PICK n \in loading.left :
             \/ Skill!Usable(dirs[n]) /\ Skill!Parsed(n)
             \/ ~Skill!Usable(dirs[n]) /\ Skill!Skipped(n)
             \/ Skill!LoadFails
    BY <1>4 DEF Skill!ReadSkill, Skill!Usable
  <2>3. n \in Skill!SkNames /\ dirs[n] \in listed[n]
    BY <2>1, <2>2 DEF ScanTyped, ScanWatched
  <2>4. CASE Skill!Usable(dirs[n]) /\ Skill!Parsed(n)
    <3> DEFINE got == [m \in DOMAIN loading.got \cup {n} |-> IF m = n THEN dirs[n] ELSE loading.got[m]]
    <3>1. loading' = [loading EXCEPT !.left = loading.left \ {n}, !.got = got]
      BY <2>4 DEF Skill!Parsed
    <3>2. DOMAIN got = DOMAIN loading.got \cup {n} /\ got[n] = dirs[n]
          /\ \A m \in DOMAIN loading.got : m # n => got[m] = loading.got[m]
      OBVIOUS
    <3> HIDE DEF got
    <3>3. loading' = [left |-> loading.left \ {n}, got |-> got, on |-> loading.on]
      BY <3>1 DEF ScanTyped
    <3>4. listed' = listed
      BY <2>1, <3>3
    <3>5. ScanTyped'
      BY <2>1, <2>3, <3>2, <3>3, <3>4 DEF ScanTyped
    <3>6. ScanWatched'
      BY <2>1, <2>3, <2>4, <3>2, <3>3, <3>4 DEF ScanWatched
    <3> QED BY <3>5, <3>6
  <2>5. CASE ~Skill!Usable(dirs[n]) /\ Skill!Skipped(n)
    <3>1. loading' = [left |-> loading.left \ {n}, got |-> loading.got, on |-> loading.on]
      BY <2>5 DEF Skill!Skipped, ScanTyped
    <3>2. listed' = listed
      BY <2>1, <3>1
    <3>3. ScanTyped'
      BY <2>1, <3>1, <3>2 DEF ScanTyped
    <3>4. ScanWatched'
      BY <2>1, <2>3, <2>5, <3>1, <3>2 DEF ScanWatched
    <3> QED BY <3>3, <3>4
  <2>6. CASE Skill!LoadFails
    <3>1. loading' = Skill!NoScan
      BY <2>6 DEF Skill!LoadFails
    <3> QED BY <2>1, <3>1, FS_EmptySet DEF ScanTyped, ScanWatched, Skill!NoScan, Skill!Unwatched
  <2> QED BY <2>2, <2>4, <2>5, <2>6
<1>5. CASE Skill!SwapSkills
  <2>1. /\ loading' = Skill!NoScan /\ skills' = loading.got /\ listed' = Skill!Unwatched
        /\ UNCHANGED dirs
    BY <1>5 DEF Skill!SwapSkills, Skill!skDisk
  <2> QED BY <2>1, FS_EmptySet DEF ScanTyped, ScanWatched, Skill!NoScan, Skill!Unwatched
<1> QED
  BY <1>1, <1>2, <1>3, <1>4, <1>5
  DEF Skill!SkNext, Skill!ToolCall, Skill!UseSkill, Skill!ReadSkillFile, Skill!RunCommand,
      Skill!InTurn, Skill!ForceAnswer, Skill!EndTurn, Skill!BeginTurn, Skill!HandOver,
      Skill!skDisk, Skill!skBot

LEMMA WordsStep ==
    ASSUME WordsKept, Skill!SkNext PROVE WordsKept'
<1> USE SkillsAssumption DEF WordsKept
<1>1. CASE UNCHANGED <<skRole, said, transfers, asked>>
  BY <1>1
<1>2. ASSUME NEW words, NEW note, Skill!BeginTurn(words, note) PROVE WordsKept'
  BY <1>2 DEF Skill!BeginTurn
<1>3. ASSUME NEW r, NEW note, Skill!HandOver(r, note) PROVE WordsKept'
  BY <1>3 DEF Skill!HandOver
<1>4. CASE Skill!ForceAnswer
  BY <1>4 DEF Skill!ForceAnswer
<1>5. CASE Skill!EndTurn
  BY <1>5 DEF Skill!EndTurn
<1> QED
  BY <1>1, <1>2, <1>3, <1>4, <1>5
  DEF Skill!SkNext, Skill!ToolCall, Skill!UseSkill, Skill!ReadSkillFile, Skill!RunCommand,
      Skill!InTurn, Skill!Edit, Skill!ListSkills, Skill!ReadSkill, Skill!SwapSkills, Skill!skTurn

\* What a load puts in force, and when it ends without.
SoundLoad ==
    /\ skLoaded' = "ok" /\ loading.on /\ ~loading'.on =>
          \A n \in Skill!SkNames :
             /\ n \in DOMAIN skills' => skills'[n] \in listed[n] /\ Skill!Usable(skills'[n])
             /\ Skill!Cardinality(listed[n]) = 1 => (n \in DOMAIN skills' <=> n \in Skill!Listed)
    /\ loading.on /\ ~loading'.on /\ loading.left # {} =>
          /\ skills' = skills
          /\ \E n \in Skill!SkNames : \E d \in listed[n] : d.is \in {"unreadable", "absent"}

LEMMA LoadIsSound ==
    ASSUME ScanTyped, ScanWatched, Skill!SkNext
    PROVE SoundLoad
<1> SUFFICES ASSUME loading.on, ~loading'.on
             PROVE /\ skLoaded' = "ok" =>
                         \A n \in Skill!SkNames :
                            /\ n \in DOMAIN skills' =>
                                  skills'[n] \in listed[n] /\ Skill!Usable(skills'[n])
                            /\ Skill!Cardinality(listed[n]) = 1 =>
                                  (n \in DOMAIN skills' <=> n \in Skill!Listed)
                   /\ loading.left # {} =>
                         /\ skills' = skills
                         /\ \E n \in Skill!SkNames : \E d \in listed[n] :
                               d.is \in {"unreadable", "absent"}
  BY DEF SoundLoad
<1>1. Skill!ReadSkill \/ Skill!SwapSkills
  BY DEF Skill!SkNext, Skill!ToolCall, Skill!UseSkill, Skill!ReadSkillFile, Skill!RunCommand,
      Skill!InTurn, Skill!ForceAnswer, Skill!EndTurn, Skill!BeginTurn, Skill!HandOver, Skill!Edit,
      Skill!ListSkills, Skill!skBot
<1>2. CASE Skill!ReadSkill
  <2>1. PICK n \in loading.left :
             \/ Skill!Parsed(n)
             \/ Skill!Skipped(n)
             \/ dirs[n].is \in {"unreadable", "absent"} /\ Skill!LoadFails
    BY <1>2 DEF Skill!ReadSkill
  <2>2. ~Skill!Parsed(n) /\ ~Skill!Skipped(n)
    BY DEF Skill!Parsed, Skill!Skipped, ScanTyped
  <2>3. dirs[n].is \in {"unreadable", "absent"} /\ skLoaded' # "ok"
    BY <2>1, <2>2 DEF Skill!LoadFails
  <2>4. n \in Skill!SkNames /\ dirs[n] \in listed[n]
    BY <2>1 DEF ScanTyped, ScanWatched
  <2>5. skills' = skills
    BY <1>2 DEF Skill!ReadSkill
  <2> QED BY <2>3, <2>4, <2>5
<1>3. CASE Skill!SwapSkills
  <2>1. loading.left = {} /\ skills' = loading.got
    BY <1>3 DEF Skill!SwapSkills
  <2>2. ASSUME NEW n \in Skill!SkNames, Skill!Cardinality(listed[n]) = 1
        PROVE n \in DOMAIN skills' <=> n \in Skill!Listed
    <3>1. IsFiniteSet(listed[n]) /\ dirs[n] \in listed[n]
      BY DEF ScanTyped, ScanWatched
    <3>2. listed[n] = {dirs[n]}
      BY <2>2, <3>1, SkillsCount, FS_Singleton
    <3>3. CASE n \in DOMAIN loading.got
      BY <2>1, <3>2, <3>3 DEF ScanWatched, Skill!Listed
    <3>4. CASE n \notin DOMAIN loading.got
      BY <2>1, <3>2, <3>4 DEF ScanWatched, Skill!Listed
    <3> QED BY <3>3, <3>4
  <2> QED BY <2>1, <2>2 DEF ScanWatched
<1> QED BY <1>1, <1>2, <1>3

LEMMA OneResolved ==
    ASSUME ScanTyped, NEW wanted, NEW n \in Skill!Resolved(wanted)
    PROVE Skill!Resolved(wanted) = {n} /\ (wanted \in DOMAIN skills => n = wanted)
<1>1. CASE wanted \in DOMAIN skills
  BY <1>1 DEF Skill!Resolved
<1>2. CASE wanted \notin DOMAIN skills
  <2>1. Skill!Cardinality(Skill!Alike(wanted)) = 1 /\ Skill!Resolved(wanted) = Skill!Alike(wanted)
    BY <1>2 DEF Skill!Resolved
  <2>2. IsFiniteSet(Skill!Alike(wanted))
    BY NamesAreFinite, FS_Subset DEF ScanTyped, Skill!Alike
  <2> QED BY <1>2, <2>1, <2>2, SkillsCount, FS_Singleton
<1> QED BY <1>1, <1>2

\* What a call of a tool is answered.
ServedCall ==
    /\ last'.got \in Skill!SkNames =>
          /\ last'.got \in SkWhite[skRole] /\ last'.got \in DOMAIN skills
          /\ last'.for \in DOMAIN skills => last'.got = last'.for
    /\ last'.got = "locked" =>
          \/ Skill!Resolved(last'.for) \cap asked = {}
          \/ transfers = SkTransferCap

LEMMA CallIsServed ==
    ASSUME ScanTyped, WordsKept, Skill!SkNext
    PROVE ServedCall
<1> USE DEF ServedCall
<1>1. CASE last' = Skill!NoCall
  <2>1. last'.got = Skill!NoName
    BY <1>1 DEF Skill!NoCall
  <2>2. Skill!NoName # "locked"
    BY Zenon DEF Skill!NoName
  <2> QED BY <2>1, <2>2, SkillsAssumption
<1>2. ASSUME NEW n, n \in DOMAIN skills, ~Skill!Unlocked(n), skRole # Skill!NoTurn
      PROVE n \notin asked \/ transfers = SkTransferCap
  BY <1>2 DEF Skill!Unlocked, WordsKept
<1>3. ASSUME NEW wanted, Skill!UseSkill(wanted) PROVE ServedCall
  <2>1. CASE Skill!Call("skill", wanted, "error", 0)
    BY <2>1, SkillsAssumption DEF Skill!Call
  <2>2. ASSUME NEW n \in Skill!Resolved(wanted) \cap Skill!Allowed,
               Skill!Call("skill", wanted, n, skills[n].v)
        PROVE ServedCall
    <3>1. last'.got = n /\ last'.for = wanted
      BY <2>2 DEF Skill!Call
    <3>2. n \in SkWhite[skRole] /\ n \in DOMAIN skills /\ n \in Skill!SkNames
      BY DEF Skill!Allowed, ScanTyped
    <3>3. wanted \in DOMAIN skills => n = wanted
      BY OneResolved
    <3>4. n # "locked"
      BY <3>2, SkillsAssumption
    <3> QED BY <3>1, <3>2, <3>3, <3>4
  <2>3. ASSUME NEW n \in Skill!Resolved(wanted) \cap Skill!Allowed, ~Skill!Unlocked(n),
               Skill!Call("skill", wanted, "locked", 0)
        PROVE ServedCall
    <3>1. last'.got = "locked" /\ last'.for = wanted
      BY <2>3 DEF Skill!Call
    <3>2. Skill!Resolved(wanted) = {n}
      BY <2>3, OneResolved
    <3>3. n \notin asked \/ transfers = SkTransferCap
      BY <1>2, <1>3, <2>3 DEF Skill!Allowed, Skill!UseSkill, Skill!InTurn
    <3> QED BY <3>1, <3>2, <3>3, SkillsAssumption
  <2> QED BY <1>3, <2>1, <2>2, <2>3 DEF Skill!UseSkill
<1>4. ASSUME NEW wanted, Skill!ReadSkillFile(wanted) PROVE ServedCall
  <2>1. PICK n \in Skill!Resolved(wanted) \cap Skill!Allowed :
             last'.for = wanted /\ (last'.got = "error" \/ last'.got = n)
    BY <1>4 DEF Skill!ReadSkillFile, Skill!Call
  <2> QED BY <2>1, OneResolved, SkillsAssumption DEF Skill!Allowed, ScanTyped
<1>5. ASSUME NEW refs, Skill!RunCommand(refs) PROVE ServedCall
  <2>1. PICK n \in Skill!Mentioned(refs) :
             /\ last'.for = n
             /\ last'.got = IF Skill!Unlocked(n) THEN "run" ELSE "locked"
    BY <1>5 DEF Skill!RunCommand, Skill!Call
  <2>2. n \in DOMAIN skills /\ Skill!Resolved(n) = {n}
    BY <2>1 DEF Skill!Mentioned, Skill!Resolved
  <2>3. ~Skill!Unlocked(n) => n \notin asked \/ transfers = SkTransferCap
    BY <1>2, <1>5, <2>2 DEF Skill!RunCommand, Skill!InTurn
  <2> QED BY <2>1, <2>2, <2>3, SkillsAssumption
<1> QED BY <1>1, <1>3, <1>4, <1>5 DEF Skill!SkNext, Skill!ToolCall

\* A load puts in force what was sound in its directory, and a tool serves the skill
\* that was asked for to those who may use it (SkillRegistry.load, skill_tools.py).
THEOREM SkillsStaySound == RcSpec => SkillsSound
<1>1. RcInit => SkillInv
  BY SkillStarts DEF RcInit
<1>2. RcNext \/ UNCHANGED RcVars => Skill!SkNext \/ UNCHANGED Skill!skVars
  BY DEF RcNext, RcVars, skAll, Skill!skVars, Skill!skDisk, Skill!skBot, Skill!skTurn
<1>3. SkillInv /\ [RcNext]_RcVars => SkillInv'
  <2> SUFFICES ASSUME SkillInv, RcNext \/ UNCHANGED RcVars PROVE SkillInv'
    OBVIOUS
  <2>1. CASE Skill!SkNext
    BY <2>1, ScanStep, WordsStep DEF SkillInv
  <2>2. CASE UNCHANGED Skill!skVars
    BY <2>2 DEF Skill!skVars, Skill!skDisk, Skill!skBot, Skill!skTurn, SkillInv, ScanTyped,
       ScanWatched, WordsKept
  <2> QED BY <1>2, <2>1, <2>2
<1>4. SkillInv /\ [RcNext]_RcVars =>
        [SoundLoad]_Skill!skVars /\ [last' # last => ServedCall]_Skill!skVars
  BY <1>2, LoadIsSound, CallIsServed DEF SkillInv
<1> QED
  BY <1>1, <1>3, <1>4, PTL
  DEF RcSpec, SkillsSound, Skill!SkillsSound, Skill!LoadsAreSound, Skill!RequestsAreServed,
      SoundLoad, ServedCall

-----------------------------------------------------------------------------
(* Hot reload *)

ReloadInv == agents = [s \in RlSessions |-> agents[s]] /\ Reloading!RolesAgree

LEMMA AgentForAgrees ==
    ASSUME ReloadInv, NEW s \in RlSessions, NEW r, Reloading!AgentFor(s, r),
           UNCHANGED <<registry, enum, cutShort>>
    PROVE ReloadInv'
<1>1. CASE agents' = agents
  BY <1>1 DEF ReloadInv, Reloading!RolesAgree
<1>2. CASE agents' # agents
  <2> DEFINE got == [x \in DOMAIN agents[s] \cup {r} |-> IF x = r THEN registry[r] ELSE agents[s][x]]
  <2>1. agents' = [agents EXCEPT ![s] = got]
    BY <1>2 DEF Reloading!AgentFor
  <2>2. DOMAIN got = DOMAIN agents[s] \cup {r} /\ got[r] = registry[r]
        /\ \A x \in DOMAIN agents[s] : x # r => got[x] = agents[s][x]
    OBVIOUS
  <2> HIDE DEF got
  <2>3. agents' = [t \in RlSessions |-> agents'[t]] /\ agents'[s] = got
        /\ \A t \in RlSessions : t # s => agents'[t] = agents[t]
    BY <2>1 DEF ReloadInv
  <2>4. Reloading!RolesAgree'
    <3> SUFFICES ASSUME ~cutShort
                 PROVE /\ enum = DOMAIN registry
                       /\ \A t \in RlSessions : \A x \in DOMAIN agents'[t] \cap DOMAIN registry :
                             agents'[t][x] = registry[x]
      BY DEF Reloading!RolesAgree
    <3>1. enum = DOMAIN registry /\ \A t \in RlSessions :
             \A x \in DOMAIN agents[t] \cap DOMAIN registry : agents[t][x] = registry[x]
      BY DEF ReloadInv, Reloading!RolesAgree
    <3>2. ASSUME NEW t \in RlSessions, NEW x \in DOMAIN agents'[t] \cap DOMAIN registry
          PROVE agents'[t][x] = registry[x]
      BY <3>1, <3>2, <2>2, <2>3
    <3> QED BY <3>1, <3>2
  <2> QED BY <2>3, <2>4 DEF ReloadInv
<1> QED BY <1>1, <1>2

LEMMA ReloadStep ==
    ASSUME ReloadInv, Reloading!RlNext PROVE ReloadInv'
<1> USE DEF ReloadInv, Reloading!RolesAgree
<1>1. CASE UNCHANGED <<agents, registry, enum, cutShort>>
  BY <1>1
<1>2. CASE Reloading!SkillsFail
  <2>1. cutShort' /\ agents' = agents
    BY <1>2 DEF Reloading!SkillsFail, Reloading!rlSess
  <2> QED BY <2>1
<1>3. CASE Reloading!ReloadAll
  <2>1. /\ registry' = diskRoles /\ enum' = DOMAIN diskRoles
        /\ agents' = [s \in RlSessions |->
                        [r \in DOMAIN agents[s] |->
                           IF r \in DOMAIN diskRoles THEN diskRoles[r] ELSE agents[s][r]]]
    BY <1>3 DEF Reloading!ReloadAll, Reloading!SwapRoles, Reloading!SwapEmployees,
       Reloading!SwapAgents
  <2> QED BY <2>1
<1>4. CASE Reloading!RestartProcess
  <2>1. /\ registry' = diskRoles /\ enum' = DOMAIN diskRoles
        /\ agents' = [s \in RlSessions |-> << >>]
    BY <1>4 DEF Reloading!RestartProcess
  <2> QED BY <2>1
<1>5. ASSUME NEW s \in RlSessions, Reloading!RunTurn(s) \/ Reloading!HandOverTo(s) PROVE ReloadInv'
  BY <1>5, AgentForAgrees
  DEF Reloading!RunTurn, Reloading!HandOverTo, Reloading!rlLive
<1>6. ASSUME NEW s \in RlSessions, Reloading!DropAgents(s) PROVE ReloadInv'
  <2>1. agents' = [agents EXCEPT ![s] = << >>] /\ UNCHANGED <<registry, enum, cutShort>>
    BY <1>6 DEF Reloading!DropAgents, Reloading!rlLive
  <2> QED BY <2>1
<1>7. ASSUME NEW s \in RlSessions, Reloading!RequestTransfer(s) PROVE ReloadInv'
  BY <1>7 DEF Reloading!RequestTransfer, Reloading!rlLive
<1> QED
  BY <1>1, <1>2, <1>3, <1>4, <1>5, <1>6, <1>7
  DEF Reloading!RlNext, Reloading!RlReload, Reloading!EditConfig, Reloading!EditRole,
      Reloading!BreakFile, Reloading!Edited, Reloading!AbortReload, Reloading!ReloadRaises,
      Reloading!RolesFail,
      Reloading!rlLive, Reloading!rlSess

\* What a reload does to the settings and reports of them.
Accounted ==
    IF rlReport'.failed \in {"config", "raised"}
    THEN UNCHANGED <<Reloading!rlLive, Reloading!rlSess>>
    ELSE /\ Reloading!Changed \subseteq rlReport'.applied \cup rlReport'.restart
         /\ \A f \in rlReport'.applied : settings'[f] = diskConf[f]
         /\ \A f \in Reloading!Fields \ rlReport'.applied : settings'[f] = settings[f]

LEMMA ReloadReports ==
    ASSUME Reloading!RlReload PROVE Accounted
<1>1. CASE Reloading!AbortReload \/ Reloading!ReloadRaises
  BY <1>1 DEF Accounted, Reloading!AbortReload, Reloading!ReloadRaises, Reloading!Clean
<1>2. ASSUME NEW outcome, outcome \notin {"config", "raised"}, Reloading!ReloadSettings(outcome)
      PROVE Accounted
  <2> DEFINE untaken == Reloading!RestartOnly \ {"vision"}
  <2>1. /\ rlReport'.failed = outcome
        /\ rlReport'.applied = Reloading!Changed \ untaken
        /\ rlReport'.restart = Reloading!Changed \cap Reloading!RestartOnly
    BY <1>2 DEF Reloading!ReloadSettings
  <2>2. \A f \in Reloading!Fields : settings'[f] = IF f \in untaken THEN settings[f] ELSE diskConf[f]
    BY <1>2 DEF Reloading!ReloadSettings, Reloading!NewSettings
  <2>3. untaken \subseteq Reloading!RestartOnly
    OBVIOUS
  <2> HIDE DEF untaken
  <2> QED BY <1>2, <2>1, <2>2, <2>3 DEF Accounted, Reloading!Changed
<1> QED
  BY <1>1, <1>2
  DEF Reloading!RlReload, Reloading!RolesFail, Reloading!SkillsFail, Reloading!ReloadAll

\* Agents, registry and employees agree whenever no reload was cut short, and each
\* reload applies or reports what had changed (Reloader.reload).
THEOREM ReloadStaysSound == RcSpec => ReloadSound
<1>1. RcInit => ReloadInv
  BY DEF RcInit, Reloading!RlInit, ReloadInv, Reloading!RolesAgree
<1>2. ReloadInv /\ [RcNext]_RcVars => ReloadInv'
  <2> SUFFICES ASSUME ReloadInv, RcNext \/ UNCHANGED RcVars PROVE ReloadInv'
    OBVIOUS
  <2>1. Reloading!RlNext \/ UNCHANGED <<agents, registry, enum, cutShort>>
    BY DEF RcNext, RcVars, rlAll
  <2> QED BY <2>1, ReloadStep DEF ReloadInv, Reloading!RolesAgree
<1>3. ReloadInv => Reloading!RolesAgree
  BY DEF ReloadInv
<1>4. [Reloading!RlReload => Accounted]_Reloading!rlVars
  BY ReloadReports
<1> QED BY <1>1, <1>2, <1>3, <1>4, PTL DEF RcSpec, ReloadSound, Reloading!ReloadAccounts, Accounted
=============================================================================
