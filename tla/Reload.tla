------------------------------- MODULE Reload -------------------------------
(***************************************************************************)
(* Hot reload: reload.py over config.reload_settings and the registries'   *)
(* reload_in_place, against the live sessions of one dispatcher.           *)
(*                                                                         *)
(* A reload runs in a signal handler of the event loop, in one piece, and  *)
(* so at any await of a turn; what can fail is each of the files it reads. *)
(* Contents are version numbers.  A field stands for the settings that are *)
(* treated alike (Fields).  Skills are swapped like roles and are kept     *)
(* only as something that may fail to load between the roles and the rest. *)
(***************************************************************************)
EXTENDS Integers, FiniteSets, Functions

CONSTANTS RlRoles, RlDefault, RlSessions,
          RlMaxVersion, RlMaxEdits    \* bounds, for model checking

Fields == {"top",      \* mode, bots, workspace_root, mcp
           "client",   \* llm.api_key(s), base_url, ...: baked into the clients
           "vision",   \* llm.vision.api_key(s), base_url: likewise
           "safe",     \* read whenever used: private_chat, llm.chat, team.md...
           "knob",     \* pushed into the provider: use_streaming, max_retries...
           "image"}    \* the image cache is made anew with them

RestartOnly == {"top", "client", "vision"}

VARIABLES
    diskConf, diskRoles,     \* config.yaml and team.md (or BadFile, Unread), the
                             \* role files by name
    badRole, badSkill,       \* a role file is malformed; a skill unreadable
    settings, inForce,       \* the live Settings; what the components use
    registry, enum,          \* RoleRegistry; employees of transfer_to_employee
    role, agents,            \* by session: current_role, its live agents' roles
    handing,                 \* by session: target of a hand-over at its await
    report,                  \* of the last reload
    cutShort,                \* ghost: the last swap of roles failed half-way
    edits

rlDisk == <<diskConf, diskRoles, badRole, badSkill, edits>>
rlLive == <<settings, inForce, registry, enum>>
rlSess == <<role, agents, handing>>
rlVars == <<rlDisk, rlLive, rlSess, report, cutShort>>

BadFile == <<>>     \* config.yaml cannot be parsed
Unread  == <<0>>    \* it can, but the settings cannot be built: team.md cannot be
                    \* read, a section is no mapping
Loads   == diskConf \notin {BadFile, Unread}
NoRole  == ""
Clean   == [applied |-> {}, restart |-> {}, failed |-> "no"]

RlInit ==
    /\ diskConf = [f \in Fields |-> 0]
    /\ diskRoles = [r \in RlRoles |-> 0]
    /\ badRole = FALSE /\ badSkill = FALSE /\ edits = 0
    /\ settings = diskConf /\ inForce = diskConf
    /\ registry = diskRoles /\ enum = RlRoles
    /\ role = [s \in RlSessions |-> RlDefault]
    /\ agents = [s \in RlSessions |-> << >>]
    /\ handing = [s \in RlSessions |-> NoRole]
    /\ report = Clean /\ cutShort = FALSE

-----------------------------------------------------------------------------
(* The maintainer edits the files *)

Edited ==
    /\ edits < RlMaxEdits
    /\ edits' = edits + 1
    /\ UNCHANGED <<rlLive, rlSess, report, cutShort>>

EditConfig ==
    /\ Edited
    /\ IF ~Loads THEN diskConf' = [f \in Fields |-> 0]
       ELSE \/ diskConf' \in {BadFile, Unread}
            \/ \E f \in Fields : diskConf' = [diskConf EXCEPT ![f] = 1 - @]
    /\ UNCHANGED <<diskRoles, badRole, badSkill>>

EditRole ==
    /\ Edited
    /\ \E r \in RlRoles :
          diskRoles' \in IF r \in DOMAIN diskRoles
                         THEN {RestrictDomain(diskRoles, LAMBDA x : x # r)}
                              \cup {[diskRoles EXCEPT ![r] = v] : v \in 0..RlMaxVersion}
                         ELSE {[x \in DOMAIN diskRoles \cup {r} |->
                                   IF x = r THEN 0 ELSE diskRoles[x]]}
    /\ UNCHANGED <<diskConf, badRole, badSkill>>

BreakFile ==
    /\ Edited
    /\ \/ badRole' = ~badRole /\ UNCHANGED badSkill
       \/ badSkill' = ~badSkill /\ UNCHANGED badRole
    /\ UNCHANGED <<diskConf, diskRoles>>

-----------------------------------------------------------------------------
(* Reloader.reload *)

Changed == {f \in Fields : settings[f] # diskConf[f]}

\* reload_settings copies what differs, except what needs a restart and is
\* reported so.  But the copy of llm's own fields finds that llm.vision, one
\* of them, still differs when its credentials do, and copies it whole.
NewSettings ==
    [f \in Fields |-> IF f \in RestartOnly \ {"vision"} THEN settings[f] ELSE diskConf[f]]

ReloadSettings(outcome) ==
    /\ settings' = NewSettings
    /\ report' = [applied |-> Changed \ (RestartOnly \ {"vision"}),
                  restart |-> Changed \cap RestartOnly, failed |-> outcome]

\* What is read when it is used follows the settings at once; the image cache is
\* made anew and the provider is given its knobs, each by a step of its own.
PutInForce(fs) == inForce' = [f \in Fields |-> IF f \in fs THEN diskConf[f] ELSE inForce[f]]

\* RoleRegistry.reload_in_place and TransferToEmployeeTool.update_employees.
SwapRoles     == registry' = diskRoles
SwapEmployees == enum' = DOMAIN diskRoles

\* Mutant: a parse error is noted and the rest is reloaded all the same.
AbortIgnored ==
    /\ diskConf = BadFile
    /\ report' = [Clean EXCEPT !.failed = "config"]
    /\ registry' = diskRoles /\ enum' = DOMAIN diskRoles
    /\ UNCHANGED <<rlDisk, settings, inForce, rlSess, cutShort>>

\* config.yaml cannot be parsed: nothing is touched.
AbortReload ==
    /\ diskConf = BadFile
    /\ report' = [Clean EXCEPT !.failed = "config"]
    /\ UNCHANGED <<rlDisk, rlLive, rlSess, cutShort>>

\* The settings cannot be built from it: reload raises before anything is
\* touched, and the signal handler logs that ("hot reload failed"), no report.
ReloadRaises ==
    /\ diskConf = Unread
    /\ report' = [Clean EXCEPT !.failed = "raised"]
    /\ UNCHANGED <<rlDisk, rlLive, rlSess, cutShort>>

\* A malformed role: the dispatcher keeps its registry, its agents and knobs.
\* (The image cache comes after the dispatchers, whatever they did.)
RolesFail ==
    /\ Loads /\ badRole
    /\ ReloadSettings("roles")
    /\ PutInForce({"safe", "image"})
    /\ UNCHANGED <<rlDisk, registry, enum, rlSess, cutShort>>

\* The roles are swapped; then a skill cannot be read.
SkillsFail ==
    /\ Loads /\ ~badRole /\ badSkill
    /\ ReloadSettings("skills")
    /\ PutInForce({"safe", "image"})
    /\ SwapRoles
    /\ cutShort' = TRUE
    /\ UNCHANGED <<rlDisk, enum, rlSess>>

\* Mutant: sessions that hand over are not walked.
SwapIdleOnly ==
    agents' = [s \in RlSessions |->
                 IF handing[s] # NoRole THEN agents[s]
                 ELSE [r \in DOMAIN agents[s] |->
                          IF r \in DOMAIN diskRoles THEN diskRoles[r] ELSE agents[s][r]]]

\* Live agents get their role in its new version; one whose role is gone keeps
\* the old one.
SwapAgents ==
    agents' = [s \in RlSessions |->
                 [r \in DOMAIN agents[s] |->
                    IF r \in DOMAIN diskRoles THEN diskRoles[r] ELSE agents[s][r]]]

ReloadAll ==
    /\ Loads /\ ~badRole /\ ~badSkill
    /\ ReloadSettings("no")
    /\ PutInForce(Fields \ RestartOnly)
    /\ SwapRoles /\ SwapEmployees /\ SwapAgents
    /\ cutShort' = FALSE
    /\ UNCHANGED <<rlDisk, role, handing>>

\* The process is started again, on files that load.  (Sessions come back from
\* disk with the role they had.)
RestartProcess ==
    /\ Loads /\ ~badRole
    /\ settings' = diskConf /\ inForce' = diskConf
    /\ registry' = diskRoles /\ enum' = DOMAIN diskRoles
    /\ agents' = [s \in RlSessions |-> << >>]
    /\ handing' = [s \in RlSessions |-> NoRole]
    /\ report' = Clean /\ cutShort' = FALSE
    /\ UNCHANGED <<rlDisk, role>>

-----------------------------------------------------------------------------
(* The sessions *)

\* _agent_for: the live agent, or a new one with the role as registered.  (For
\* an unknown role it raises KeyError, and the turn answers with an error.)
Known(s, r) == r \in DOMAIN agents[s] \/ r \in DOMAIN registry

AgentFor(s, r) ==
    agents' = IF r \in DOMAIN agents[s] \/ r \notin DOMAIN registry THEN agents
              ELSE [agents EXCEPT ![s] = [x \in DOMAIN @ \cup {r} |->
                                            IF x = r THEN registry[r] ELSE @[x]]]

RunTurn(s) ==
    /\ handing[s] = NoRole /\ Known(s, role[s])
    /\ AgentFor(s, role[s])
    /\ UNCHANGED <<rlDisk, rlLive, role, handing, report, cutShort>>

\* transfer_to_employee, from a live agent, to an employee that the dispatcher
\* finds registered; then comes the await of the status message.
RequestTransfer(s) ==
    /\ handing[s] = NoRole /\ role[s] \in DOMAIN agents[s]
    /\ \E r \in (enum \cap DOMAIN registry) \ {role[s]} :
          handing' = [handing EXCEPT ![s] = r]
    /\ UNCHANGED <<rlDisk, rlLive, role, agents, report, cutShort>>

\* After the await the role is switched, registered or not.
HandOverTo(s) ==
    /\ handing[s] # NoRole
    /\ role' = [role EXCEPT ![s] = handing[s]]
    /\ handing' = [handing EXCEPT ![s] = NoRole]
    /\ AgentFor(s, handing[s])
    /\ UNCHANGED <<rlDisk, rlLive, report, cutShort>>

\* /new, or the session is evicted: the agents are gone, the role stays.
DropAgents(s) ==
    /\ handing[s] = NoRole
    /\ agents' = [agents EXCEPT ![s] = << >>]
    /\ UNCHANGED <<rlDisk, rlLive, role, handing, report, cutShort>>

RlReload == AbortReload \/ ReloadRaises \/ RolesFail \/ SkillsFail \/ ReloadAll

RlNext ==
    \/ EditConfig \/ EditRole \/ BreakFile
    \/ RlReload \/ RestartProcess
    \/ \E s \in RlSessions :
          RunTurn(s) \/ RequestTransfer(s) \/ HandOverTo(s) \/ DropAgents(s)

RlSpec == RlInit /\ [][RlNext]_rlVars

-----------------------------------------------------------------------------
(* Properties *)

\* Agents, registry and the employees offered for a transfer agree, whatever
\* turns and hand-overs were under way when the roles were swapped: a live
\* agent runs its role as registered, unless the role is gone.  Only a reload
\* cut short behind the swap leaves them apart, and the next one mends it.
RolesAgree ==
    ~cutShort =>
        /\ enum = DOMAIN registry
        /\ \A s \in RlSessions : \A r \in DOMAIN agents[s] \cap DOMAIN registry :
              agents[s][r] = registry[r]

\* A reload that is aborted or raises changes nothing; another one drops no change silently:
\* what differed is applied or reported as needing a restart.
ReloadAccounts ==
    [][RlReload =>
          IF report'.failed \in {"config", "raised"} THEN UNCHANGED <<rlLive, rlSess>>
          ELSE /\ Changed \subseteq report'.applied \cup report'.restart
               /\ \A f \in report'.applied : settings'[f] = diskConf[f]
               /\ \A f \in Fields \ report'.applied : settings'[f] = settings[f]]_rlVars

\* Claimed of reload_settings ("compared but NOT applied"; llm.vision's api_key
\* and base_url "are restart-only"): the live settings keep the values that the
\* process was started with, and so each reload reports the difference again.
RestartOnlyKept == \A f \in RestartOnly : settings[f] = inForce[f]
=============================================================================
