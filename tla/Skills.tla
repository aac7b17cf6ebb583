------------------------------- MODULE Skills -------------------------------
(***************************************************************************)
(* Skill packs: the directories under ~/.chat_team/skills that a person    *)
(* edits, the registry the bot loads from them at its start and at a       *)
(* reload (skills/registry.py, skills/config.py), and what a turn gets     *)
(* from it through skill, skill_read_file and run_command                  *)
(* (agent/tools/skill_tools.py).                                           *)
(*                                                                         *)
(* The bot lists the directories and then reads one after another; the     *)
(* editor is another process.  A skill may be kept for users who ask for   *)
(* it: its keyword, here the skill's own name, must be in the text of the  *)
(* latest user message.  That text is what the agent's history holds, with *)
(* the notes that the bot itself puts before the user's words.             *)
(***************************************************************************)
EXTENDS Integers, Sequences, FiniteSets, Functions

CONSTANTS SkOrder,       \* the names of skills, sorted
          SkFold,        \* by name: the name in lower case
          SkRoles, SkWhite,    \* roles, and by role its whitelist of skills
          SkTransferCap,
          SkTexts,       \* the sets of keywords that a text may hold
          SkMaxEdits     \* bound on edits

SkNames == {SkOrder[i] : i \in DOMAIN SkOrder}

\* This is the first of some skills, in that order.
First(n, S) ==
    \E i \in DOMAIN SkOrder : SkOrder[i] = n /\ \A j \in DOMAIN SkOrder : SkOrder[j] \in S => i <= j

VARIABLES
    dirs,       \* by name: the directory, NoSkill if there is none
    load,       \* the scan: names listed and not yet read, skills so far
    skills,     \* SkillRegistry: by name, the skill in force
    loaded,     \* how the last load ended: "ok", "failed" or "booting"
    tool,       \* the skill tools are registered
    role,       \* current_role, in a turn
    text,       \* the latest user message: the user's words, and the notes
    transfers,  \* transfer_count_this_turn
    asked,      \* ghost: the words of the user in this turn
    last,       \* ghost: the tool call of this step: what was asked for, the result
    edits,
    seen        \* ghost: by name, what was in its directory since the listing

skDisk == <<dirs, edits>>
skBot == <<load, skills, loaded, tool>>
skTurn == <<role, text, transfers, asked>>
skVars == <<skDisk, skBot, skTurn, last, seen>>

\* A directory holds a version of a skill, open to all or guarded, one that
\* does not parse, or a SKILL.md that cannot be read.
Kinds == {"open", "guarded", "malformed", "unreadable"}
NoSkill == [v |-> 0, is |-> "absent"]
Usable(d) == d.is \in {"open", "guarded"}
NoScan == [left |-> {}, got |-> << >>, on |-> FALSE]
Unwatched == [n \in SkNames |-> {}]
NoTurn == ""
NoName == ""
NoCall == [by |-> NoName, for |-> NoName, got |-> NoName, v |-> 0]

\* No skill is shipped with the package.
SkInit ==
    /\ dirs \in [SkNames -> {NoSkill} \cup {[v |-> 1, is |-> k] : k \in Kinds}]
    /\ load = NoScan /\ skills = << >> /\ loaded = "booting" /\ tool = FALSE
    /\ role = NoTurn /\ text = [user |-> {}, note |-> {}] /\ transfers = 0 /\ asked = {}
    /\ last = NoCall /\ edits = 0 /\ seen = Unwatched

-----------------------------------------------------------------------------
(* A person edits the directories *)

Edit(n) ==
    /\ edits < SkMaxEdits /\ edits' = edits + 1
    /\ \E d \in {NoSkill} \cup {[v |-> edits + 2, is |-> k] : k \in Kinds} :
          /\ dirs' = [dirs EXCEPT ![n] = d]
          /\ seen' = IF load.on THEN [seen EXCEPT ![n] = @ \cup {d}] ELSE seen
    /\ UNCHANGED <<skBot, skTurn>>

-----------------------------------------------------------------------------
(* SkillRegistry.load and reload_in_place *)

\* sorted(root.iterdir()): they are read in that order.
ListSkills ==
    /\ ~load.on
    /\ load' = [NoScan EXCEPT !.on = TRUE, !.left = {n \in SkNames : dirs[n] # NoSkill}]
    /\ seen' = [n \in SkNames |-> {dirs[n]}]
    /\ UNCHANGED <<skDisk, skills, loaded, tool, skTurn>>

\* Mutant: the first malformed skill ends the scan.
SkippedRest(n) == load' = [load EXCEPT !.left = {}]

\* A ValueError of Skill.from_dir is logged.
Skipped(n) == load' = [load EXCEPT !.left = @ \ {n}]

Parsed(n) ==
    load' = [load EXCEPT !.left = @ \ {n},
               !.got = [m \in DOMAIN @ \cup {n} |-> IF m = n THEN dirs[n] ELSE @[m]]]

\* Other errors leave the registry as it is, and at the start the bot ends.
LoadFails == load' = NoScan /\ loaded' = IF loaded = "booting" THEN loaded ELSE "failed"

\* A directory that is gone by now is passed over, unless it goes between the
\* test for SKILL.md and the reading.
ReadSkill ==
    /\ load.on
    /\ \E n \in load.left :
          /\ First(n, load.left)
          /\ \/ Usable(dirs[n]) /\ Parsed(n) /\ UNCHANGED loaded
             \/ dirs[n].is \in {"malformed", "absent"} /\ Skipped(n) /\ UNCHANGED loaded
             \/ dirs[n].is \in {"unreadable", "absent"} /\ LoadFails
    /\ seen' = IF load'.on THEN seen ELSE Unwatched
    /\ UNCHANGED <<skDisk, skills, tool, skTurn>>

\* The new skills are put in force whole.  The tools are registered at the start
\* only, and only if there are skills then (build_tool_registry).
SwapSkills ==
    /\ load.on /\ load.left = {}
    /\ skills' = load.got /\ load' = NoScan /\ loaded' = "ok"
    /\ tool' = IF loaded = "booting" THEN load.got # << >> ELSE tool
    /\ seen' = Unwatched
    /\ UNCHANGED <<skDisk, skTurn>>

-----------------------------------------------------------------------------
(* The turn, as far as the latest user message goes.  A reload runs to its   *)
(* end between two steps of a turn: it has no await.                         *)

Awake == loaded # "booting" /\ ~load.on

\* Agent.handle appends the user's message, with notes about the notebook in
\* front whose words are the agents' own.
BeginTurn(words, note) ==
    /\ Awake /\ role = NoTurn
    /\ \E r \in SkRoles : role' = r
    /\ text' = [user |-> words, note |-> note] /\ asked' = words /\ transfers' = 0
    /\ UNCHANGED <<skDisk, skBot, seen>>

\* The colleague gets the user's message again, with the hand-over note.
HandOver(r, note) ==
    /\ Awake /\ role \notin {NoTurn, r} /\ transfers + 1 < SkTransferCap
    /\ role' = r /\ transfers' = transfers + 1
    /\ text' = [text EXCEPT !.note = note]
    /\ UNCHANGED <<skDisk, skBot, asked, seen>>

\* The cap is reached, or the colleague unknown: the role answers a message of
\* the dispatcher's own.
ForceAnswer ==
    /\ Awake /\ role # NoTurn /\ transfers < SkTransferCap
    /\ transfers' = SkTransferCap
    /\ text' = [user |-> {}, note |-> {}]
    /\ UNCHANGED <<skDisk, skBot, role, asked, seen>>

EndTurn ==
    /\ Awake /\ role # NoTurn
    /\ role' = NoTurn /\ text' = [user |-> {}, note |-> {}] /\ asked' = {} /\ transfers' = 0
    /\ UNCHANGED <<skDisk, skBot, seen>>

-----------------------------------------------------------------------------
(* The tools *)

\* _resolve_skill_name_or_raise: the name itself, or the only one that is the
\* same but for case.  (Quotes and text around it are cut off before.)
Alike(req) == {n \in DOMAIN skills : SkFold[n] = SkFold[req]}

Resolved(req) ==
    IF req \in DOMAIN skills THEN {req}
    ELSE IF Cardinality(Alike(req)) = 1 THEN Alike(req) ELSE {}

\* _allowed_skills_for_current_role
Allowed == SkWhite[role] \cap DOMAIN skills

\* assert_skill_unlocked
Unlocked(n) == skills[n].is = "guarded" => n \in text.user \cup text.note

Call(by, req, result, v) == last' = [by |-> by, for |-> req, got |-> result, v |-> v]

InTurn == Awake /\ role # NoTurn /\ UNCHANGED <<skDisk, skBot, skTurn, seen>>

UseSkill(req) ==
    /\ InTurn
    /\ \/ /\ \/ ~tool
             \/ Resolved(req) \cap Allowed = {}
          /\ Call("skill", req, "error", 0)
       \/ /\ tool
          /\ \E n \in Resolved(req) \cap Allowed :
                IF Unlocked(n) THEN Call("skill", req, n, skills[n].v)
                ELSE Call("skill", req, "locked", 0)

\* The file is read from the directory as it is by now.
ReadSkillFile(req) ==
    /\ InTurn /\ tool
    /\ \E n \in Resolved(req) \cap Allowed :
          Call("file", req, IF dirs[n] = NoSkill THEN "error" ELSE n, dirs[n].v)

\* scan_command_for_protected_skills: the first of the guarded skills that the
\* command mentions decides.
Mentioned(refs) == {n \in refs \cap DOMAIN skills : skills[n].is = "guarded"}

RunCommand(refs) ==
    /\ InTurn
    /\ \E n \in Mentioned(refs) :
          First(n, Mentioned(refs)) /\ Call("command", n, IF Unlocked(n) THEN "run" ELSE "locked", 0)

\* list_skills, for the boss: the directories as they are now.  It shows the
\* malformed ones too, as broken.
Listed == {n \in SkNames : Usable(dirs[n])}

ToolCall ==
    \/ \E n \in SkNames : UseSkill(n) \/ ReadSkillFile(n)
    \/ \E refs \in SUBSET SkNames : RunCommand(refs)

SkNext ==
    \/ ToolCall
    \/ /\ last' = NoCall
       /\ \/ ListSkills \/ ReadSkill \/ SwapSkills \/ ForceAnswer \/ EndTurn
          \/ \E n \in SkNames : Edit(n)
          \/ \E note \in SkTexts :
                \/ \E words \in SkTexts : BeginTurn(words, note)
                \/ \E r \in SkRoles : HandOver(r, note)

SkSpec == SkInit /\ [][SkNext]_skVars

-----------------------------------------------------------------------------
(* Properties *)

\* One bad directory does not bring down the load (skills/registry.py:6-8): a
\* skill that was there and sound all through it is in force, whatever its
\* neighbours are; nothing else is in force than what was there; unless it is
\* edited meanwhile, it is in force just if list_skills shows it to the boss.
\* The load fails, and changes nothing, only over a file that cannot be read.
LoadsAreSound ==
    [][/\ loaded' = "ok" /\ load.on /\ ~load'.on =>
             \A n \in SkNames :
                /\ n \in DOMAIN skills' => skills'[n] \in seen[n] /\ Usable(skills'[n])
                /\ Cardinality(seen[n]) = 1 => (n \in DOMAIN skills' <=> n \in Listed)
       /\ load.on /\ ~load'.on /\ load.left # {} =>
             /\ skills' = skills
             /\ \E n \in SkNames : \E d \in seen[n] : d.is \in {"unreadable", "absent"}]_skVars

\* A request for a skill by its own name gets that skill and no other, in the
\* version in force, for a role that may use it; and a request that is turned
\* down for its keyword is one for which the user did not give it, whoever the
\* turn was handed to, unless the dispatcher forced the answer.
RequestsAreServed ==
    [][last' # last =>
          /\ last'.got \in SkNames =>
                /\ last'.got \in SkWhite[role] /\ last'.got \in DOMAIN skills
                /\ last'.for \in DOMAIN skills => last'.got = last'.for
          /\ last'.got = "locked" =>
                \/ Resolved(last'.for) \cap asked = {}
                \/ transfers = SkTransferCap]_skVars

SkillsSound == LoadsAreSound /\ RequestsAreServed
=============================================================================
