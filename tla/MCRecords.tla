------------------------------ MODULE MCRecords -----------------------------
(* Instances for TLC of what the bot and the programs around it keep: the    *)
(* notebook, histories, pictures, skills, logs, role files, settings, the    *)
(* panel's sessions, orders from the advisor, the boss's screen, the bots of  *)
(* solo mode.  They share no state, so their runs are one run: part says     *)
(* which of them is checked, and the others stay as they began.              *)
EXTENDS AdvisorBridge, AdminPanel, TeamFiles

\* The parameters of the parts that RecordsProofs and HistoryProofs are about; the
\* modules of the parts say what they are.
CONSTANTS
    NbAgents, NbKeys, NbValues, NbSize, NbMaxBytes, NbMaxDays, NbMaxOps,
    CpSizes, CpBudget, CpKeepTurns, CpMaxTurns, CpMaxRounds,
    ImPaths, ImCalls, ImWeight, ImMaxEntries, ImMaxBytes, ImUndecodable,
    ClTasks, ClSessions, ClDir, ClSessionOf, ClParts, ClMaxAttempts, ClDigits, ClMaxCalls,
    ClMaxTime,
    AsWriters, AsName, AsCertRuns,
    OrMaxBytes, OrBackups, OrMaxLines, OrMaxFaults,
    SkOrder, SkFold, SkRoles, SkWhite, SkTransferCap, SkTexts, SkMaxEdits,
    RlRoles, RlDefault, RlSessions, RlMaxVersion, RlMaxEdits,
    BsTexts, BsMatches, BsMaxTurns, BsMaxEvents,
    SoBots, SoSids, SoRoles, SoMaxTurns

VARIABLES
    part,
    blocks, index, nbGap, day, nbShown, nbSeen, inTurn, preSeen, nbTold, preTold,
    unheard, swallowed, preSwallowed, torn, nbOps,
    hist, req, reqLen, cpPre, phase, rounds, kept, cpTurns, cpNext,
    imVersion, written, resize, uris, uriBytes, descs, descBytes, call, hasty,
    dirs, loading, skills, skLoaded, tool, skRole, said, transfers, asked, last, skEdits, listed,
    http, debug, seqNo, ctx, logged, logFiles, time, made, count,
    files, data, writers, pair, certRun, serving, promised, overlapped, cut,
    diskConf, diskRoles, badRole, badSkill, settings, inForce, registry, enum, role, agents,
    handing, rlReport, cutShort, edits,
    out, backup, sweep, next, aged, gap, faults, hit,
    front, box, events, popup, busy, worker, pending, history, shown, began, wiped, lost,
    roleOf, soPhase, mcp, mem, soDisk, waiting, by, owed, erased

-----------------------------------------------------------------------------
(* The parts *)

\* Two agents, a short and a long value, a quota that four long blocks exceed.
SizeOf == [v \in {"short", "long"} |-> IF v = "short" THEN 1 ELSE 2]
Notes == INSTANCE Notebook WITH gap <- nbGap, shown <- nbShown, seen <- nbSeen, told <- nbTold

Compaction == INSTANCE Compactor

\* A picture that fits, is replaced by one that does not, and by one that does.
WeightOf == <<"fits", "oversized", "fits">>
Images == INSTANCE ImageText WITH version <- imVersion

\* Two skills whose names differ in case only; a role that may use both, and
\* one that may use one of them.
NamesFolded == [a |-> "a", A |-> "a"]
WhiteLists == [r1 |-> {"a", "A"}, r2 |-> {"a"}]
NamesSorted == <<"A", "a">>
Skill == INSTANCE Skills WITH
    load <- loading, loaded <- skLoaded, role <- skRole, text <- said, edits <- skEdits, seen <- listed

\* Two tasks with a session each, whose directory is one.
SharedDir == [s1 |-> "d", s2 |-> "d"]
CallsFor == [t1 |-> {"s1"}, t2 |-> {"s2"}]
Messages == [s1 |-> {"text", "picture"}, s2 |-> {"lost"}]
Logs == INSTANCE CallLogs WITH call <- logged, files <- logFiles, now <- time

\* Two runs of add-user for two users, and two of init-certs.
UserOf == [w1 |-> "a", w2 |-> "b"]
Setup == INSTANCE AdminSetup

Reloading == INSTANCE Reload WITH report <- rlReport

Rotator == INSTANCE OutRotator

\* What may be in the input box, and the commands it is a prefix of.
Offers ==
    [text \in BsTexts |->
       CASE text = "/" -> <<"/quit", "/clear">>
         [] text \in {"/c", "/clear"} -> <<"/clear">>
         [] text = "/quit" -> <<"/quit">>
         [] OTHER -> << >>]
Chat == INSTANCE Boss WITH cut <- lost

\* Two bots in one group.
Bots == INSTANCE Solo WITH phase <- soPhase, disk <- soDisk, pending <- waiting

-----------------------------------------------------------------------------
(* The parameters *)

ASSUME SetupAssumption ==
    \* The mark of a file that is half written is no list of users.
    \A w \in AsWriters : AsName[w] # "torn"

ASSUME NotesAssumption == NbSize \in [NbValues -> Nat] /\ NbMaxBytes \in Nat

\* KEEP_LAST_USER_TURNS.
ASSUME CompactorAssumption == CpKeepTurns \in Nat \ {0}

ASSUME ImagesAssumption == ImMaxEntries \in Nat /\ ImMaxBytes \in Nat

ASSUME LogsAssumption == ClSessionOf \in [ClTasks -> SUBSET ClSessions]

\* start: with no backups to keep, the rotation is off.
ASSUME RotatorAssumption == OrMaxBytes \in Nat /\ OrBackups \in Nat \ {0} /\ OrMaxLines \in Nat

\* What a tool answers besides a skill's name is no skill's name.
ASSUME SkillsAssumption ==
    /\ SkOrder \in Seq(Skill!SkNames) /\ SkTransferCap \in Nat
    /\ {"error", "locked", "run", Skill!NoName} \cap Skill!SkNames = {}

ASSUME TeamAssumption == NoName \notin TfNames

ASSUME BossAssumption ==
    Chat!Nothing \in BsTexts /\ BsMatches \in [BsTexts -> Seq(BsTexts)]

-----------------------------------------------------------------------------
(* Their behaviours *)

nbAll == <<blocks, index, nbGap, day, nbShown, nbSeen, inTurn, preSeen, nbTold, preTold,
           unheard, swallowed, preSwallowed, torn, nbOps>>
cpAll == <<hist, req, reqLen, cpPre, phase, rounds, kept, cpTurns, cpNext>>
imAll == <<imVersion, written, resize, uris, uriBytes, descs, descBytes, call, hasty>>
skAll == <<dirs, loading, skills, skLoaded, tool, skRole, said, transfers, asked, last, skEdits,
           listed>>
clAll == <<http, debug, seqNo, ctx, logged, logFiles, time, made, count>>
asAll == <<files, data, writers, pair, certRun, serving, promised, overlapped, cut>>
rlAll == <<diskConf, diskRoles, badRole, badSkill, settings, inForce, registry, enum, role,
           agents, handing, rlReport, cutShort, edits>>
orAll == <<out, backup, sweep, next, aged, gap, faults, hit>>
bsAll == <<front, box, events, popup, busy, worker, pending, history, shown, began, wiped,
           lost>>
soAll == <<roleOf, soPhase, mcp, mem, soDisk, waiting, by, owed, erased>>
RcVars == <<part, vars, apVars, tfVars, nbAll, cpAll, imAll, skAll, clAll, asAll, rlAll, orAll,
            bsAll, soAll>>

RcInit ==
    /\ part \in {"bridge", "panel", "team", "notebook", "compactor", "images", "skills", "logs",
                "setup", "reload", "rotator", "boss", "solo"}
    /\ Init /\ ApInit /\ TfInit /\ Notes!NbInit /\ Compaction!CpInit /\ Images!ImInit
    /\ Skill!SkInit /\ Logs!ClInit /\ Setup!AsInit /\ Reloading!RlInit /\ Rotator!OrInit
    /\ Chat!BsInit /\ Bots!SoInit
    /\ part # "skills" => dirs = [n \in Skill!SkNames |-> Skill!NoSkill]
    /\ part # "logs" => http
    /\ part # "boss" => front = "screen"
    /\ part # "solo" => roleOf = [b \in SoBots |-> Bots!Unknown]

RcNext ==
    /\ UNCHANGED part
    /\ \/ /\ part = "bridge" /\ Next
          /\ UNCHANGED <<apVars, tfVars, nbAll, cpAll, imAll, skAll, clAll, asAll, rlAll,
                       orAll, bsAll, soAll>>
       \/ /\ part = "panel" /\ ApNext
          /\ UNCHANGED <<vars, tfVars, nbAll, cpAll, imAll, skAll, clAll, asAll, rlAll,
                       orAll, bsAll, soAll>>
       \/ /\ part = "team" /\ TfNext
          /\ UNCHANGED <<vars, apVars, nbAll, cpAll, imAll, skAll, clAll, asAll, rlAll,
                       orAll, bsAll, soAll>>
       \/ /\ part = "notebook" /\ Notes!NbNext
          /\ UNCHANGED <<vars, apVars, tfVars, cpAll, imAll, skAll, clAll, asAll, rlAll,
                       orAll, bsAll, soAll>>
       \/ /\ part = "compactor" /\ Compaction!CpNextStep
          /\ UNCHANGED <<vars, apVars, tfVars, nbAll, imAll, skAll, clAll, asAll, rlAll,
                       orAll, bsAll, soAll>>
       \/ /\ part = "images" /\ Images!ImNext
          /\ UNCHANGED <<vars, apVars, tfVars, nbAll, cpAll, skAll, clAll, asAll, rlAll,
                       orAll, bsAll, soAll>>
       \/ /\ part = "skills" /\ Skill!SkNext
          /\ UNCHANGED <<vars, apVars, tfVars, nbAll, cpAll, imAll, clAll, asAll, rlAll,
                       orAll, bsAll, soAll>>
       \/ /\ part = "logs" /\ Logs!ClNext
          /\ UNCHANGED <<vars, apVars, tfVars, nbAll, cpAll, imAll, skAll, asAll, rlAll,
                       orAll, bsAll, soAll>>
       \/ /\ part = "setup" /\ Setup!AsNext
          /\ UNCHANGED <<vars, apVars, tfVars, nbAll, cpAll, imAll, skAll, clAll, rlAll,
                       orAll, bsAll, soAll>>
       \/ /\ part = "reload" /\ Reloading!RlNext
          /\ UNCHANGED <<vars, apVars, tfVars, nbAll, cpAll, imAll, skAll, clAll, asAll,
                       orAll, bsAll, soAll>>
       \/ /\ part = "rotator" /\ Rotator!OrNext
          /\ UNCHANGED <<vars, apVars, tfVars, nbAll, cpAll, imAll, skAll, clAll, asAll,
                       rlAll, bsAll, soAll>>
       \/ /\ part = "boss" /\ Chat!BsNext
          /\ UNCHANGED <<vars, apVars, tfVars, nbAll, cpAll, imAll, skAll, clAll, asAll,
                       rlAll, orAll, soAll>>
       \/ /\ part = "solo" /\ Bots!SoNext
          /\ UNCHANGED <<vars, apVars, tfVars, nbAll, cpAll, imAll, skAll, clAll, asAll,
                       rlAll, orAll, bsAll>>

RcSpec == RcInit /\ [][RcNext]_RcVars

-----------------------------------------------------------------------------
(* The properties of each part, as its module states them *)

\* What roles have been told of the shared notebook, and what is in its files.
NotebookSound == Notes!SeenIsTold /\ Notes!NotebookSound

\* What a compaction may take out of a history.
CompactionSafe == Compaction!CompactionSafe /\ Compaction!RequestIsPrefix

\* The bytes that the two caches of pictures hold, and what they answer.
ImagesSound == Images!CachesAccounted /\ Images!DescriptionsMatch

\* What a load of the skills puts in force, and who gets which of them.
SkillsSound == Skill!SkillsSound

\* The files of the debug logs.
CallLogsSound == Logs!CallLogsSound

\* The users' file and the certificate of the admin panel.
SetupSound == Setup!SetupSound

\* What a reload may leave behind, and what it reports.
ReloadSound == []Reloading!RolesAgree /\ Reloading!ReloadAccounts

\* The lines that rotation may lose.
LinesAreKept == Rotator!LinesAreKept

\* The boss's turns, its history and its popup, and the files it writes.
BossSound == []Chat!BossSound /\ TeamFilesSound

\* The histories of the bots in solo mode.
SoloSound == Bots!SoloSound
=============================================================================
