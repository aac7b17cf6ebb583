----------------------------- MODULE AdminSetup -----------------------------
(***************************************************************************)
(* The admin panel's files, each written by commands that run while the    *)
(* panel may be up: users.json (UserStore of admin/auth.py, add-user of    *)
(* admin/cli.py) and the certificate pair (init-certs), with what serve    *)
(* demands of them (admin/server.py).  A command may be killed at any      *)
(* step; two add-user commands share the name of their temporary file, and *)
(* each goes on writing the file it opened whatever it is called by then.  *)
(***************************************************************************)
EXTENDS Integers, Sequences, FiniteSets

CONSTANTS AsWriters,       \* add-user processes
          AsName,          \* by writer: the user it writes
          AsCertRuns       \* bound on init-certs processes

AsNames == {AsName[w] : w \in AsWriters}

VARIABLES
    files,      \* names in the directory: the inode each stands for, 0 for none
    data,       \* by inode: the users in it, Torn while half written
    writers,    \* by add-user process: step, inode it writes, the list in memory
    pair,       \* cert.pem and key.pem: which run wrote each, 0 for none
    certRun,    \* init-certs: runs so far, whether it is between its two writes
    serving,    \* serve has started to listen
    promised,   \* ghost: users some add-user has reported as written
    overlapped, \* ghost: two add-user processes were at work at once
    cut         \* ghost: an init-certs was killed between its two writes

asUsers == <<files, data, writers, promised, overlapped>>
asCerts == <<pair, certRun, cut>>
asVars == <<asUsers, asCerts, serving>>

Torn == {"torn"}
Absent == 0

AsInit ==
    /\ files = [json |-> Absent, tmp |-> Absent] /\ data = << >>
    /\ writers = [w \in AsWriters |-> [at |-> "new", ino |-> Absent, list |-> {}]]
    /\ pair = [cert |-> 0, key |-> 0] /\ certRun = [n |-> 0, between |-> FALSE]
    /\ serving = FALSE /\ promised = {} /\ overlapped = FALSE /\ cut = FALSE

-----------------------------------------------------------------------------
(* UserStore *)

\* _read: what cannot be parsed counts as empty.
Read == IF files.json = Absent \/ data[files.json] = Torn THEN {} ELSE data[files.json]

At(w, step) == writers[w].at = step
Working == {w \in AsWriters : writers[w].at \notin {"new", "done", "dead"}}

\* add_or_update after the prompts: the list as it is, the user in it.
AddReads(w) ==
    /\ At(w, "new") /\ overlapped' = (overlapped \/ Working # {})
    /\ writers' = [writers EXCEPT ![w] = [at |-> "read", ino |-> Absent,
                                          list |-> Read \cup {AsName[w]}]]
    /\ UNCHANGED <<files, data, promised, asCerts, serving>>

\* Mutant: the list is written in place.
OpenInPlace(w) ==
    LET ino == IF files.json = Absent THEN Len(data) + 1 ELSE files.json
    IN  /\ files' = [json |-> ino, tmp |-> ino]
        /\ data' = [i \in 1..(IF ino > Len(data) THEN ino ELSE Len(data)) |->
                        IF i = ino THEN Torn ELSE data[i]]
        /\ writers' = [writers EXCEPT ![w].at = "open", ![w].ino = ino]

\* tmp.write_text opens: a leftover is truncated, else a file is created.
OpenTmp(w) ==
    LET ino == IF files.tmp = Absent THEN Len(data) + 1 ELSE files.tmp
    IN  /\ files' = [files EXCEPT !.tmp = ino]
        /\ data' = [i \in 1..(IF ino > Len(data) THEN ino ELSE Len(data)) |->
                        IF i = ino THEN Torn ELSE data[i]]
        /\ writers' = [writers EXCEPT ![w].at = "open", ![w].ino = ino]

WriteOpens(w) ==
    /\ At(w, "read") /\ OpenTmp(w)
    /\ UNCHANGED <<promised, overlapped, asCerts, serving>>

WriteFills(w) ==
    /\ At(w, "open") /\ data' = [data EXCEPT ![writers[w].ino] = writers[w].list]
    /\ writers' = [writers EXCEPT ![w].at = "filled"]
    /\ UNCHANGED <<files, promised, overlapped, asCerts, serving>>

\* os.replace: the name may have gone with another writer's replace; then it raises.
WriteReplaces(w) ==
    /\ At(w, "filled")
    /\ \/ /\ files.tmp # Absent /\ files' = [json |-> files.tmp, tmp |-> Absent]
          /\ writers' = [writers EXCEPT ![w].at = "done"]
          /\ promised' = promised \cup {AsName[w]}
       \/ /\ files.tmp = Absent /\ writers' = [writers EXCEPT ![w].at = "dead"]
          /\ UNCHANGED <<files, promised>>
    /\ UNCHANGED <<data, overlapped, asCerts, serving>>

WriterDies(w) ==
    /\ w \in Working /\ writers' = [writers EXCEPT ![w].at = "dead"]
    /\ UNCHANGED <<files, data, promised, overlapped, asCerts, serving>>

-----------------------------------------------------------------------------
(* cmd_init_certs and serve *)

RefusesToInit(force) == ~force /\ (pair.cert # 0 \/ pair.key # 0)

InitCerts(force) ==
    /\ ~certRun.between /\ certRun.n < AsCertRuns /\ ~RefusesToInit(force)
    /\ certRun' = [n |-> certRun.n + 1, between |-> TRUE]
    /\ pair' = [pair EXCEPT !.cert = certRun.n + 1]
    /\ UNCHANGED <<asUsers, cut, serving>>

InitKey ==
    /\ certRun.between /\ certRun' = [certRun EXCEPT !.between = FALSE]
    /\ pair' = [pair EXCEPT !.key = certRun.n]
    /\ UNCHANGED <<asUsers, cut, serving>>

InitDies ==
    /\ certRun.between /\ certRun' = [certRun EXCEPT !.between = FALSE] /\ cut' = TRUE
    /\ UNCHANGED <<asUsers, pair, serving>>

\* An operator clears one file by hand.
RemovePem(which) ==
    /\ ~certRun.between /\ pair[which] # 0 /\ pair' = [pair EXCEPT ![which] = 0]
    /\ UNCHANGED <<asUsers, certRun, cut, serving>>

\* Both files there and some user; load_cert_chain refuses a pair that does not match.
Ready == pair.cert # 0 /\ pair.key # 0 /\ Read # {}

Serve ==
    /\ ~serving /\ Ready /\ pair.cert = pair.key /\ serving' = TRUE
    /\ UNCHANGED <<asUsers, asCerts>>

\* ensure_file of serve: an empty list, through the same temporary file.
EnsureFile ==
    /\ files.json = Absent /\ files.tmp = Absent /\ Working = {}
    /\ data' = Append(data, {}) /\ files' = [files EXCEPT !.json = Len(data) + 1]
    /\ UNCHANGED <<writers, promised, overlapped, asCerts, serving>>

AsNext ==
    \/ \E w \in AsWriters :
          \/ AddReads(w) \/ WriteOpens(w) \/ WriteFills(w) \/ WriteReplaces(w)
          \/ WriterDies(w)
    \/ \E force \in BOOLEAN : InitCerts(force)
    \/ InitKey \/ InitDies \/ Serve \/ EnsureFile
    \/ \E which \in {"cert", "key"} : RemovePem(which)

AsSpec == AsInit /\ [][AsNext]_asVars

-----------------------------------------------------------------------------

\* Unless two add-user commands overlap, users.json can be read at every
\* moment and holds every user reported as written, whatever was killed when
\* (auth.py:76-77, 117-145).
UsersKept == ~overlapped => files.json = Absent \/ (data[files.json] # Torn /\ promised \subseteq Read)

\* Both files of the pair come from one run, unless an init-certs was killed or
\* is between its two writes, or a file has been removed (cli.py:84-149).
PairMatches ==
    cut \/ certRun.between \/ pair.cert = 0 \/ pair.key = 0 \/ pair.cert = pair.key

\* The panel, once up, had a user who could log in, if users were added one by one.
SomeoneCanLogIn == serving /\ ~overlapped => Read # {}

SetupSound == UsersKept /\ PairMatches /\ SomeoneCanLogIn
=============================================================================
