------------------------------ MODULE TeamFiles -----------------------------
(***************************************************************************)
(* The role files under ~/.chat_team and the three that touch them: the    *)
(* boss's tools (agent/tools/team_tools.py, called by boss.py), a person's *)
(* editor, and the bot, which loads them at its start and again at a       *)
(* reload (roles/registry.py, roles/config.py).  The bot lists the         *)
(* directory and then reads one file after another; boss and bot are two   *)
(* processes, so anything may be written in between.                       *)
(***************************************************************************)
EXTENDS Integers, FiniteSets

CONSTANTS TfNames,         \* role names; also the stems of files
          TfBuiltin,       \* names of the builtin roles
          TfMaxVersions    \* bound on the versions written

ASSUME TfAssumption == TfBuiltin \subseteq TfNames

VARIABLES
    dir,        \* by stem: the user's file, NoFile if there is none
    draft,      \* the boss's temporary file and its target
    load,       \* the bot's scan: stems listed and not yet read, roles so far
    roles,      \* the registry: by name, the version that is in force
    version,    \* versions written so far
    loaded,     \* how the last load ended
    handMade,   \* ghost: a person has written a file
    vanished,   \* ghost: a file was deleted since the last listing
    seen        \* ghost: by name, versions on disk since the last listing

tfDisk == <<dir, draft, version, handMade, vanished>>
tfBot == <<load, roles, loaded>>
tfVars == <<tfDisk, tfBot, seen>>

\* What a file may hold: a mapping with a usable role, the name it declares, or
\* something that does not parse.
NoName == ""
NoFile == [v |-> 0, name |-> NoName, ok |-> TRUE]
File(v, n, ok) == [v |-> v, name |-> n, ok |-> ok]
Shipped == -1                  \* the version of a builtin role
NoDraft == [stem |-> NoName, is |-> NoFile]
NoScan == [left |-> {}, got |-> << >>, on |-> FALSE]
Builtins == [n \in TfBuiltin |-> Shipped]

TfInit ==
    /\ dir = [n \in TfNames |-> NoFile] /\ draft = NoDraft /\ load = NoScan
    /\ roles = Builtins /\ version = 0 /\ loaded = "ok"
    /\ handMade = FALSE /\ vanished = FALSE /\ seen = [n \in TfNames |-> {}]

Put(stem, file) ==
    /\ dir' = [dir EXCEPT ![stem] = file]
    /\ seen' = [n \in TfNames |-> IF file.ok /\ file.name = n THEN seen[n] \cup {file.v} ELSE seen[n]]

-----------------------------------------------------------------------------
(* The boss *)

\* write_role: a mapping, a valid schema, and the name it is filed under.
Accepts(stem, file) == file.ok /\ file.name = stem

\* _atomic_write: NamedTemporaryFile, a dot file that *.yaml does not match.
OpensTemp(stem) == UNCHANGED dir

WriteRole(stem, name, ok) ==
    /\ draft = NoDraft /\ version < TfMaxVersions
    /\ Accepts(stem, File(version + 1, name, ok))
    /\ draft' = [stem |-> stem, is |-> File(version + 1, name, ok)]
    /\ version' = version + 1 /\ OpensTemp(stem)
    /\ UNCHANGED <<tfBot, handMade, vanished, seen>>

ReplaceTarget ==
    /\ draft # NoDraft /\ Put(draft.stem, draft.is) /\ draft' = NoDraft
    /\ UNCHANGED <<tfBot, version, handMade, vanished>>

\* The boss is quit or killed in between; the temporary file stays about.
BossDies ==
    /\ draft # NoDraft /\ draft' = NoDraft
    /\ UNCHANGED <<dir, version, handMade, vanished, tfBot, seen>>

\* delete_role: never by a builtin's name, an override of one included.
DeleteRole(stem) ==
    /\ draft = NoDraft /\ stem \notin TfBuiltin /\ dir[stem] # NoFile
    /\ dir' = [dir EXCEPT ![stem] = NoFile] /\ vanished' = TRUE
    /\ UNCHANGED <<draft, version, handMade, tfBot, seen>>

\* A person may write, misname, break or remove anything.
EditByHand(stem, name, ok) ==
    /\ version < TfMaxVersions /\ version' = version + 1
    /\ Put(stem, File(version + 1, name, ok)) /\ handMade' = TRUE
    /\ UNCHANGED <<draft, vanished, tfBot>>

OnDisk(n) == {dir[s].v : s \in {t \in TfNames : dir[t].ok /\ dir[t].name = n}}

\* list_roles: by name, where the role is from; it raises over a broken file.
ListRoles ==
    [n \in TfBuiltin \cup {m \in TfNames : OnDisk(m) # {}} |->
       IF OnDisk(n) = {} THEN "builtin"
       ELSE IF n \in TfBuiltin THEN "user_override" ELSE "user"]

\* read_role goes by the stem: the user's file, then the builtin one, else an
\* error.
ReadRole(n) ==
    CASE dir[n] # NoFile -> dir[n].v
      [] dir[n] = NoFile /\ n \in TfBuiltin -> Shipped
      [] OTHER -> 0

-----------------------------------------------------------------------------
(* The bot: RoleRegistry.load, at its start or in reload_in_place *)

ListDir ==
    /\ ~load.on
    /\ load' = [left |-> {s \in TfNames : dir[s] # NoFile}, got |-> Builtins, on |-> TRUE]
    /\ vanished' = FALSE /\ seen' = [n \in TfNames |-> OnDisk(n)]
    /\ UNCHANGED <<dir, draft, version, handMade, roles, loaded>>

Fails ==
    /\ load' = NoScan /\ loaded' = "failed" /\ UNCHANGED roles

\* Role.from_yaml of the next file.  (Sorted by stem in the code; the files of
\* the boss declare different names, so that order does not show.)
ReadNext(s) ==
    /\ load.on /\ s \in load.left
    /\ IF dir[s] = NoFile \/ ~dir[s].ok THEN Fails
       ELSE /\ load' = [load EXCEPT !.left = @ \ {s},
                          !.got = [n \in DOMAIN @ \cup {dir[s].name} |->
                                     IF n = dir[s].name THEN dir[s].v ELSE @[n]]]
            /\ UNCHANGED <<roles, loaded>>
    /\ UNCHANGED <<tfDisk, seen>>

\* Mutant: the roles read are added to those in force.
SwapsInto == roles' = [n \in DOMAIN roles \cup DOMAIN load.got |->
                         IF n \in DOMAIN load.got THEN load.got[n] ELSE roles[n]]

\* One assignment puts the new dict in force, what was deleted is gone.
SwapsWhole == roles' = load.got

Swap ==
    /\ load.on /\ load.left = {} /\ SwapsWhole
    /\ load' = NoScan /\ loaded' = "ok" /\ UNCHANGED <<tfDisk, seen>>

TfNext ==
    \/ ReplaceTarget \/ BossDies \/ ListDir \/ Swap
    \/ \E s \in TfNames :
          \/ DeleteRole(s) \/ ReadNext(s)
          \/ \E n \in TfNames, ok \in BOOLEAN : WriteRole(s, n, ok) \/ EditByHand(s, n, ok)

TfSpec == TfInit /\ [][TfNext]_tfVars

-----------------------------------------------------------------------------

\* What the boss writes cannot keep the bot from starting or reloading: as long
\* as no person edits the files, a load fails only if a file was deleted after
\* the listing (team_tools.py:29-37, 141-170, registry.py:20-35).
BossFilesLoad == [][loaded' = "failed" /\ loaded # "failed" => handMade \/ vanished]_tfVars

\* Every role in force is builtin or was on disk under that name during the
\* load, never half of one; what had been deleted before it is gone.
RolesWereOnDisk ==
    [][roles' # roles =>
          \A n \in DOMAIN roles' : (roles'[n] = Shipped /\ n \in TfBuiltin) \/ roles'[n] \in seen[n]]_tfVars

\* A file the boss wrote is filed under the role it declares, so that its tools
\* mean the same role by a name: whatever list_roles shows read_role reads, and
\* delete_role deletes if it is a user's own.
ToolsAgree ==
    ~handMade =>
        \A n \in DOMAIN ListRoles :
           /\ ReadRole(n) \in {Shipped} \cup OnDisk(n)
           /\ ListRoles[n] = "user" => dir[n] # NoFile
           /\ ListRoles[n] = "builtin" <=> ReadRole(n) = Shipped

\* What a load puts in force list_roles shows the boss by then, whatever the boss
\* wrote during the load, as long as it deleted nothing.
InForceIsListed ==
    [][load.on /\ ~load'.on /\ loaded' = "ok" =>
          handMade \/ vanished \/ DOMAIN roles' \subseteq DOMAIN ListRoles]_tfVars

\* The team's files and the roles in force: what the boss writes loads, under
\* the name it is filed under, and what is loaded was there.
TeamFilesSound == []ToolsAgree /\ BossFilesLoad /\ RolesWereOnDisk /\ InForceIsListed
=============================================================================
