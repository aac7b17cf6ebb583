----------------------------- MODULE AdvisorBridge -----------------------------
(***************************************************************************)
(* The bridge between the service advisor's sidecar and its bot            *)
(* (advisor_bridge.py).  An order reaches the bot by one of two entrances: *)
(* the worker loop leases it from the sidecar as a job (run_once), or an   *)
(* advisor mentions the bot in a group (handle_incoming).  Orders are      *)
(* deduplicated by the sidecar, over HTTP calls whose answers may be lost. *)
(*                                                                         *)
(* A call is one step of the model with three outcomes: it is processed and*)
(* answered, processed and its answer lost, or never processed; the caller *)
(* sees an exception in the last two.  The process may be killed between   *)
(* any two steps.  The sidecar and WeCom are not part of the repository:   *)
(* the states of a job are what the bridge's calls take for granted (a     *)
(* lease runs out, a job that has started is not leased again, a claim is  *)
(* accepted when nobody has the order).                                    *)
(***************************************************************************)
EXTENDS Naturals, FiniteSets

CONSTANTS Orders,        \* orders (electronic work orders)
          Simulations,   \* the orders whose job is a simulation
          Msgs,          \* group messages that ask for an order
          MaxCrashes,    \* bound: kills and restarts of the process
          None

LegacyImages == 3

\* Outcomes that are reported to the sidecar.
Statuses == {"simulated", "succeeded", "uncertain", "failed"}

ASSUME BridgeAssumption == /\ Simulations \subseteq Orders
                           /\ MaxCrashes \in Nat
                           /\ None \notin Orders \cup Statuses

VARIABLES
    \* the sidecar: the state of each order and the outcome it was told
    job, report,
    \* run_once: where it is, its job, whether a group was found for it, the
    \* images it still has to send, the status it is about to report
    wpc, wjob, found, images, status,
    \* handle_incoming: where each message is, the order it names
    mpc, order,
    \* ghosts: announcements WeCom accepted, turns the agents began, and the
    \* orders for which a send was attempted, a send of the last word was
    \* confirmed, a claim failed open, an outcome was posted, or a run_once
    \* was killed
    told, turns, tried, confirmed, open, posted, killed,
    crashes

sidecarVars == <<job, report>>
workerVars == <<wpc, wjob, found, images, status>>
msgVars == <<mpc, order>>
ghosts == <<told, turns, tried, confirmed, open, posted, killed>>
vars == <<sidecarVars, workerVars, msgVars, ghosts, crashes>>

TypeOK ==
    /\ job \in [Orders -> {"free", "queued", "leased", "started", "manual", "done"}]
    /\ report \in [Orders -> Statuses \cup {None}]
    /\ wpc \in {"poll", "resolve", "start", "broadcast", "build", "summary",
                "dispatch", "turn", "complete"}
    /\ wjob \in Orders \cup {None} /\ (wjob = None <=> wpc = "poll")
    /\ found \in BOOLEAN /\ images \in 0..LegacyImages
    /\ status \in Statuses \cup {None} /\ (wpc = "complete" => status # None)
    /\ mpc \in [Msgs -> {"new", "claim", "open", "claimed", "openTurn",
                         "claimedTurn", "succeeded", "failed", "gone"}]
    /\ order \in [Msgs -> Orders \cup {None}]
    /\ \A m \in Msgs : mpc[m] \notin {"new", "gone"} => order[m] # None
    /\ told \in [Orders -> Nat] /\ turns \in [Orders -> Nat]
    /\ tried \subseteq Orders /\ confirmed \subseteq Orders /\ open \subseteq Orders
    /\ posted \subseteq Orders /\ killed \subseteq Orders
    /\ crashes \in 0..MaxCrashes

Init ==
    /\ job = [o \in Orders |-> "free"] /\ report = [o \in Orders |-> None]
    /\ wpc = "poll" /\ wjob = None /\ found = FALSE /\ images = 0 /\ status = None
    /\ mpc = [m \in Msgs |-> "new"] /\ order = [m \in Msgs |-> None]
    /\ told = [o \in Orders |-> 0] /\ turns = [o \in Orders |-> 0]
    /\ tried = {} /\ confirmed = {} /\ open = {} /\ posted = {} /\ killed = {}
    /\ crashes = 0

-----------------------------------------------------------------------------
(* The sidecar, on its own *)

Becomes(o, state) == job' = [job EXCEPT ![o] = state]

\* The electronic work order of an order nobody has is handed in.
Submit(o) ==
    /\ job[o] = "free"
    /\ Becomes(o, "queued")
    /\ report' = [report EXCEPT ![o] = None]
    /\ UNCHANGED <<workerVars, msgVars, ghosts, crashes>>

\* leaseSeconds have gone by and the job has not been started.
LeaseExpires(o) ==
    /\ job[o] = "leased"
    /\ Becomes(o, "queued")
    /\ UNCHANGED <<report, workerVars, msgVars, ghosts, crashes>>

-----------------------------------------------------------------------------
(* AdvisorDirectBridge.run_once and run_forever *)

\* run_once returns or raises; run_forever sleeps and calls it again.
Leave == wpc' = "poll" /\ wjob' = None

WillReport(s) == wpc' = "complete" /\ status' = s

\* client.lease; the answer may not arrive, and the job is leased to nobody.
Lease(o) ==
    /\ wpc = "poll" /\ job[o] = "queued"
    /\ Becomes(o, "leased")
    /\ \/ wpc' = "resolve" /\ wjob' = o
       \/ UNCHANGED <<wpc, wjob>>
    /\ UNCHANGED <<report, found, images, status, msgVars, ghosts, crashes>>

\* client.resolve_group
ResolveGroup ==
    /\ wpc = "resolve"
    /\ \/ wpc' = "start" /\ found' \in BOOLEAN /\ UNCHANGED wjob
       \/ Leave /\ UNCHANGED found
    /\ UNCHANGED <<sidecarVars, images, status, msgVars, ghosts, crashes>>

\* What run_once does once client.start has returned.
GoOn ==
    IF wjob \in Simulations THEN WillReport("simulated")
    ELSE /\ wpc' = IF found THEN "build" ELSE "broadcast"
         /\ UNCHANGED status

\* Mutant: an exception of client.start is swallowed.
StartSwallows ==
    /\ wpc = "start"
    /\ GoOn /\ UNCHANGED wjob
    /\ IF job[wjob] = "leased" THEN Becomes(wjob, "started") \/ UNCHANGED job
       ELSE UNCHANGED job
    /\ UNCHANGED <<report, found, images, msgVars, ghosts, crashes>>

\* client.start; only the holder of a lease that has not expired may start.
Start ==
    /\ wpc = "start"
    /\ \/ /\ job[wjob] = "leased" /\ Becomes(wjob, "started")
          /\ \/ GoOn /\ UNCHANGED wjob
             \/ Leave /\ UNCHANGED status
       \/ Leave /\ UNCHANGED <<job, status>>
    /\ UNCHANGED <<report, found, images, msgVars, ghosts, crashes>>

\* WeCom accepts a message that announces the job, or may have.
Announced(accepted) ==
    /\ tried' = tried \cup {wjob}
    /\ told' = [told EXCEPT ![wjob] = IF accepted THEN @ + 1 ELSE @]

\* client.broadcast_fallback: the sidecar announces the job to the store.
BroadcastFallback ==
    /\ wpc = "broadcast"
    /\ \/ /\ Announced(TRUE) /\ WillReport("succeeded")
          /\ confirmed' = confirmed \cup {wjob}
       \/ \E accepted \in BOOLEAN :
             Announced(accepted) /\ WillReport("uncertain") /\ UNCHANGED confirmed
    /\ UNCHANGED <<sidecarVars, wjob, found, images, msgVars, turns, open,
                   posted, killed, crashes>>

\* workspace_for and build_job_blocks; a malformed job raises here, between
\* client.start and the try.
BuildJobBlocks ==
    /\ wpc = "build"
    /\ \/ wpc' = "summary" /\ images' \in {0, LegacyImages} /\ UNCHANGED wjob
       \/ Leave /\ UNCHANGED images
    /\ UNCHANGED <<sidecarVars, found, status, msgVars, ghosts, crashes>>

\* adapter.send_proactive_markdown with the summary of the job.
SendSummary ==
    /\ wpc = "summary"
    /\ \/ Announced(TRUE) /\ wpc' = "dispatch" /\ UNCHANGED status
       \/ \E accepted \in BOOLEAN : Announced(accepted) /\ WillReport("uncertain")
    /\ UNCHANGED <<sidecarVars, wjob, found, images, msgVars, turns, confirmed,
                   open, posted, killed, crashes>>

\* adapter.send_proactive_media with the next image.
SendImage ==
    /\ wpc = "dispatch" /\ images > 0
    /\ \/ images' = images - 1 /\ UNCHANGED <<wpc, status>>
       \/ WillReport("uncertain") /\ UNCHANGED images
    /\ UNCHANGED <<sidecarVars, wjob, found, msgVars, ghosts, crashes>>

\* dispatcher.handle; it raises only if it has no session for the turn.
DispatchJob ==
    /\ wpc = "dispatch" /\ images = 0
    /\ \/ /\ wpc' = "turn" /\ UNCHANGED status
          /\ turns' = [turns EXCEPT ![wjob] = @ + 1]
       \/ WillReport("uncertain") /\ UNCHANGED turns
    /\ UNCHANGED <<sidecarVars, wjob, found, images, msgVars, told, tried,
                   confirmed, open, posted, killed, crashes>>

\* dispatcher.handle returns.  AdvisorProactiveStream.finish has set sent, or
\* has raised, which the dispatcher swallowed.
JobTurnEnds ==
    /\ wpc = "turn"
    /\ \/ WillReport("succeeded") /\ confirmed' = confirmed \cup {wjob}
       \/ WillReport("uncertain") /\ UNCHANGED confirmed
    /\ UNCHANGED <<sidecarVars, wjob, found, images, msgVars, told, turns, tried,
                   open, posted, killed, crashes>>

\* client.complete; whatever becomes of the call, run_once is over.
Complete ==
    /\ wpc = "complete" /\ Leave
    /\ posted' = posted \cup {wjob}
    /\ \/ /\ job[wjob] = "started" /\ Becomes(wjob, "done")
          /\ report' = [report EXCEPT ![wjob] = status]
       \/ UNCHANGED sidecarVars
    /\ UNCHANGED <<found, images, status, msgVars, told, turns, tried, confirmed,
                   open, killed, crashes>>

-----------------------------------------------------------------------------
(* AdvisorDirectBridge.handle_incoming *)

At(m, pc) == mpc' = [mpc EXCEPT ![m] = pc]

\* A group message names an order; client.bind_group may fail, which is only
\* logged.
Receive(m, o) ==
    /\ mpc[m] = "new" /\ At(m, "claim")
    /\ order' = [order EXCEPT ![m] = o]
    /\ UNCHANGED <<sidecarVars, workerVars, ghosts, crashes>>

\* The sidecar accepts the claim.
Accepted(o) == job[o] = "free" /\ Becomes(o, "manual")

\* Mutant: the answer's "accepted" is not looked at.
ClaimRefusedUnread(m) ==
    /\ mpc[m] = "claim" /\ At(m, "claimed")
    /\ job[order[m]] # "free"
    /\ UNCHANGED <<sidecarVars, workerVars, order, ghosts, crashes>>

\* client.claim_manual is refused; stream.finish says so.
ClaimRefused(m) ==
    /\ mpc[m] = "claim" /\ At(m, "gone")
    /\ job[order[m]] # "free"
    /\ UNCHANGED <<sidecarVars, workerVars, order, ghosts, crashes>>

\* client.claim_manual is accepted.
ClaimAccepted(m) ==
    /\ mpc[m] = "claim" /\ At(m, "claimed")
    /\ Accepted(order[m])
    /\ UNCHANGED <<report, workerVars, order, ghosts, crashes>>

\* client.claim_manual raises: the message is handled all the same.
ClaimFailsOpen(m) ==
    /\ mpc[m] = "claim" /\ At(m, "open")
    /\ Accepted(order[m]) \/ UNCHANGED job
    /\ open' = open \cup {order[m]}
    /\ UNCHANGED <<report, workerVars, order, told, turns, tried, confirmed,
                   posted, killed, crashes>>

\* dispatcher.handle gets a session and runs the turn ...
DispatchManual(m) ==
    /\ \/ mpc[m] = "claimed" /\ At(m, "claimedTurn")
       \/ mpc[m] = "open" /\ At(m, "openTurn")
    /\ turns' = [turns EXCEPT ![order[m]] = @ + 1]
    /\ UNCHANGED <<sidecarVars, workerVars, order, told, tried, confirmed, open,
                   posted, killed, crashes>>

\* ... or raises.
DispatchManualRaises(m) ==
    /\ \/ mpc[m] = "claimed" /\ At(m, "failed")
       \/ mpc[m] = "open" /\ At(m, "gone")
    /\ UNCHANGED <<sidecarVars, workerVars, order, ghosts, crashes>>

\* dispatcher.handle returns, also from a turn that failed.
ManualTurnEnds(m) ==
    /\ \/ mpc[m] = "claimedTurn" /\ At(m, "succeeded")
       \/ mpc[m] = "openTurn" /\ At(m, "gone")
    /\ UNCHANGED <<sidecarVars, workerVars, order, ghosts, crashes>>

\* /stop cancels the task: CancelledError passes the except clauses, and
\* nothing is reported of a claim, which may even be accepted after it.
StopManual(m) ==
    /\ mpc[m] \notin {"new", "gone"} /\ At(m, "gone")
    /\ \/ UNCHANGED job
       \/ mpc[m] = "claim" /\ Accepted(order[m])
    /\ UNCHANGED <<report, workerVars, order, ghosts, crashes>>

\* client.complete_manual; an order whose turn was reported failed is free
\* again, or not, as the sidecar pleases.
CompleteManual(m) ==
    /\ mpc[m] \in {"succeeded", "failed"} /\ At(m, "gone")
    /\ \/ /\ job[order[m]] = "manual"
          /\ \/ Becomes(order[m], "done")
             \/ mpc[m] = "failed" /\ Becomes(order[m], "free")
          /\ report' = [report EXCEPT ![order[m]] = mpc[m]]
       \/ UNCHANGED sidecarVars
    /\ UNCHANGED <<workerVars, order, ghosts, crashes>>

-----------------------------------------------------------------------------
\* The process is killed and started again: run_once and the messages under
\* way are lost, the sidecar's state is not.
Crash ==
    /\ crashes < MaxCrashes /\ crashes' = crashes + 1
    /\ killed' = killed \cup ({wjob} \ {None})
    /\ Leave /\ found' = FALSE /\ images' = 0 /\ status' = None
    /\ mpc' = [m \in Msgs |-> IF mpc[m] = "new" THEN "new" ELSE "gone"]
    /\ UNCHANGED <<sidecarVars, order, told, turns, tried, confirmed, open, posted>>

Worker ==
    \/ ResolveGroup \/ Start \/ BroadcastFallback \/ BuildJobBlocks
    \/ SendSummary \/ SendImage \/ DispatchJob \/ JobTurnEnds \/ Complete

Message(m) ==
    \/ \E o \in Orders : Receive(m, o)
    \/ ClaimRefused(m) \/ ClaimAccepted(m) \/ ClaimFailsOpen(m)
    \/ DispatchManual(m) \/ DispatchManualRaises(m) \/ ManualTurnEnds(m)
    \/ StopManual(m) \/ CompleteManual(m)

Next ==
    \/ \E o \in Orders : Submit(o) \/ LeaseExpires(o) \/ Lease(o)
    \/ Worker
    \/ \E m \in Msgs : Message(m)
    \/ Crash

Spec == Init /\ [][Next]_vars

-----------------------------------------------------------------------------
(* Properties *)

\* "The job therefore fails closed and must never be retried blindly": from
\* the moment a send was attempted, no worker can be given the job again,
\* whichever answers are lost, leases run out and processes die.
NeverRetriedBlindly == \A o \in tried : job[o] \in {"started", "done"}

\* A job is announced at most once, in its group or in the store's.
AnnouncedOnce == \A o \in Orders : told[o] <= 1

\* The two entrances share one dedup lock: unless a claim failed open, the
\* agents work on an order at most once, whether it came as a job, in
\* messages, or both.
OneTurnPerOrder == \A o \in Orders \ open : turns[o] <= 1

\* A job is reported as succeeded only if WeCom confirmed the last word on
\* it: the agents' reply or the broadcast to the store.  (A message's order is
\* reported by complete_manual without such a check.)
SuccessIsConfirmed ==
    \A o \in Orders : (report[o] = "succeeded" /\ o \in posted) => o \in confirmed

\* "Simulation complete; no WeCom message was sent": nothing is sent for a
\* simulation, and its job is never reported as anything else.
SimulationsAreSilent ==
    \A o \in Simulations :
        o \notin tried /\ (o \in posted => report[o] \in {None, "simulated"})

\* A job whose send was attempted is handed to a human: unless the process is
\* killed, run_once does not leave it before it has posted an outcome, also
\* when the send, an image, the broadcast or the turn fails.
AttemptsAreReported ==
    \A o \in tried : wjob = o \/ o \in posted \/ o \in killed

\* What the store and the sidecar are told agrees with what was sent, whatever
\* answers are lost and whoever else has the order.
BridgeSound ==
    TypeOK /\ AnnouncedOnce /\ OneTurnPerOrder /\ SuccessIsConfirmed /\ SimulationsAreSilent

\* A send that was attempted is final: never repeated, and never forgotten.
AttemptsAreFinal == NeverRetriedBlindly /\ AttemptsAreReported

\* The inductive invariant.  A job is leased, or leased no more, until it is
\* started, and stays started, with no outcome, until one is accepted.
JobInv ==
    /\ wpc \in {"resolve", "start"} => job[wjob] \in {"queued", "leased"}
    /\ wpc \in {"broadcast", "build", "summary", "dispatch", "turn", "complete"}
          => job[wjob] = "started"
    /\ \A o \in posted : job[o] \in {"started", "done"}
    /\ \A o \in Orders : job[o] \in {"queued", "leased", "started"} => report[o] = None

\* Nothing was sent for a job before its first send, or for one never tried.
TriedInv ==
    /\ wpc \in {"broadcast", "build", "summary"} => wjob \notin tried
    /\ \A o \in Orders \ tried : told[o] = 0

\* What run_once is about to report.
StatusInv ==
    /\ wpc = "complete" /\ status = "succeeded" => wjob \in confirmed
    /\ wpc = "complete" /\ wjob \in Simulations => status = "simulated"
    /\ wpc \in {"broadcast", "build", "summary", "dispatch", "turn"}
          => wjob \notin Simulations

\* Messages that hold a claim.
Holders == {"claimed", "claimedTurn", "succeeded", "failed"}

\* An order is claimed by one message at a time; a message that goes on
\* without a claim is one whose claim failed open.
ClaimInv ==
    /\ \A m \in Msgs : mpc[m] \in Holders => job[order[m]] = "manual"
    /\ \A m \in Msgs : mpc[m] \in {"open", "openTurn"} => order[m] \in open
    /\ \A m, n \in Msgs :
          mpc[m] \in Holders /\ mpc[n] \in Holders /\ order[m] = order[n] => m = n

\* No turn has begun on an order that may still get one.
TurnInv ==
    \A o \in Orders \ open :
        /\ job[o] \in {"free", "queued", "leased"} => turns[o] = 0
        /\ wjob = o /\ wpc \in {"broadcast", "build", "summary", "dispatch"}
              => turns[o] = 0
        /\ \A m \in Msgs : mpc[m] \in {"claimed", "failed"} /\ order[m] = o
              => turns[o] = 0

IInv ==
    /\ TypeOK
    /\ JobInv /\ TriedInv /\ StatusInv /\ ClaimInv /\ TurnInv
    /\ NeverRetriedBlindly /\ AnnouncedOnce /\ OneTurnPerOrder
    /\ SuccessIsConfirmed /\ SimulationsAreSilent /\ AttemptsAreReported

=============================================================================
