-------------------------- MODULE RecordsProofs ---------------------------
(***************************************************************************)
(* Theorems about four parts of MCRecords, for all values of their         *)
(* parameters: the histories of solo mode, the users' file and certificate *)
(* of the admin panel, the rotated log, the debug logs.  Each part has its *)
(* inductive invariant; a step of MCRecords is a step of the part or       *)
(* leaves all of its variables alone.                                      *)
(***************************************************************************)
EXTENDS MCRecords, TLAPS, FiniteSetTheorems

\* A step of MCRecords, seen from a part.
LEMMA SoSteps == [RcNext]_RcVars => Bots!SoNext \/ UNCHANGED soAll
BY DEF RcNext, RcVars

LEMMA AsSteps == [RcNext]_RcVars => Setup!AsNext \/ UNCHANGED asAll
BY DEF RcNext, RcVars

LEMMA OrSteps == [RcNext]_RcVars => Rotator!OrNext \/ UNCHANGED orAll
BY DEF RcNext, RcVars

LEMMA ClSteps == [RcNext]_RcVars => Logs!ClNext \/ UNCHANGED clAll
BY DEF RcNext, RcVars

-----------------------------------------------------------------------------
(* Solo mode *)

Turns == SUBSET Nat
Phases == {"boot", "failed", "serving", "closing", "flushed", "ended", "killed"}

MemOf == [on : BOOLEAN, has : Turns, kept : Turns]

SoTypeOK ==
    /\ roleOf \in [SoBots -> Bots!BotNames] /\ soPhase \in Phases
    /\ mem \in [SoBots -> [SoSids -> MemOf]]
    /\ soDisk \in [SoRoles -> [SoSids -> Turns]]
    /\ waiting \in [SoSids -> [role : SoRoles \cup {""}, has : Turns]]
    /\ \A s \in SoSids : waiting[s] = Bots!NoFlush \/ waiting[s].role \in SoRoles
    /\ by \in Seq([bot : SoBots, sid : SoSids])
    /\ owed \in [SoBots -> [SoSids -> Turns]]

\* A process that has got beyond its start knows the roles of all its bots.
RolesFound == soPhase \notin {"boot", "failed"} => \A b \in SoBots : roleOf[b] \in SoRoles

\* Among the turns taken, n is one of a bot of role r in session s.
Own(n, r, s, line, rolesNow) ==
    n \in 1..Len(line) /\ line[n].sid = s /\ rolesNow[line[n].bot] = r

\* Every turn in a history, a file or a flush that waits is one of its role
\* and session.
TurnsOwn ==
    /\ \A b \in SoBots, s \in SoSids :
          \A n \in mem[b][s].has \cup mem[b][s].kept : Own(n, roleOf[b], s, by, roleOf)
    /\ \A r \in SoRoles, s \in SoSids : \A n \in soDisk[r][s] : Own(n, r, s, by, roleOf)
    /\ \A s \in SoSids : \A n \in waiting[s].has : Own(n, waiting[s].role, s, by, roleOf)

\* A flush that waits has the history of its bot as it is now, but for what has
\* been erased, so that it undoes nothing when it is due, also after an eviction.
FlushCurrent ==
    Bots!RolesDiffer =>
        \A b \in SoBots, s \in SoSids :
            waiting[s] # Bots!NoFlush /\ waiting[s].role = roleOf[b]
              => Bots!Done(b, s) \subseteq waiting[s].has \cup erased

\* What was complete when the end began is in memory or on disk, and on disk
\* after flush_all, or else it was erased.
OwedKept ==
    Bots!RolesDiffer =>
        \A b \in SoBots, s \in SoSids :
            /\ soPhase \in {"closing", "flushed"} => owed[b][s] \subseteq Bots!Done(b, s) \cup erased
            /\ soPhase \in {"flushed", "ended"}
                 => owed[b][s] \subseteq soDisk[roleOf[b]][s] \cup erased

SoInv == SoTypeOK /\ RolesFound /\ TurnsOwn /\ FlushCurrent /\ OwedKept

LEMMA SoBegins == RcInit => SoInv
<1>. SUFFICES ASSUME RcInit PROVE SoInv
  OBVIOUS
<1>. USE DEF RcInit, Bots!SoInit
<1>1. SoTypeOK
  <2>1. << >> \in Seq([bot : SoBots, sid : SoSids])
    OBVIOUS
  <2>. QED
    BY <2>1 DEF SoTypeOK, Phases, Turns, MemOf, Bots!Out, Bots!NoFlush, Bots!Nothing
<1>2. RolesFound
  BY DEF RolesFound
<1>3. TurnsOwn
  BY DEF TurnsOwn, Bots!Out, Bots!NoFlush
<1>4. FlushCurrent
  BY DEF FlushCurrent, Bots!NoFlush
<1>5. OwedKept
  BY DEF OwedKept
<1>. QED
  BY <1>1, <1>2, <1>3, <1>4, <1>5 DEF SoInv

\* A step that changes neither roles nor histories.
LEMMA SoQuiet ==
    ASSUME SoInv, UNCHANGED <<roleOf, mem, soDisk, waiting, by, erased>>, soPhase' \in Phases,
           RolesFound', owed' \in [SoBots -> [SoSids -> Turns]], OwedKept'
    PROVE  SoInv'
<1>1. SoTypeOK'
  BY DEF SoInv, SoTypeOK
<1>2. TurnsOwn'
  BY DEF SoInv, TurnsOwn, Own
<1>3. FlushCurrent'
  BY DEF SoInv, FlushCurrent, Bots!RolesDiffer, Bots!Done
<1>. QED
  BY <1>1, <1>2, <1>3 DEF SoInv

LEMMA SoBoot == SoInv /\ Bots!Boot => SoInv'
<1>. SUFFICES ASSUME SoInv, Bots!Boot PROVE SoInv'
  OBVIOUS
<1>1. UNCHANGED <<roleOf, mem, soDisk, waiting, by, owed, erased>> /\ soPhase = "boot"
      /\ soPhase' \in {"failed", "serving"}
  BY DEF Bots!Boot, Bots!soFiles
<1>2. RolesFound'
  <2>. SUFFICES ASSUME soPhase' = "serving", NEW b \in SoBots PROVE roleOf[b] \in SoRoles
    BY <1>1 DEF RolesFound
  <2>1. roleOf[b] # Bots!Unknown
    BY DEF Bots!Boot
  <2>. QED
    BY <2>1 DEF SoInv, SoTypeOK, Bots!BotNames
<1>3. OwedKept'
  BY <1>1 DEF OwedKept
<1>. QED
  BY <1>1, <1>2, <1>3, SoQuiet DEF Phases, SoInv, SoTypeOK

LEMMA DoneTypes ==
    ASSUME SoTypeOK, NEW b \in SoBots, NEW s \in SoSids, roleOf[b] \in SoRoles
    PROVE  /\ Bots!Done(b, s) \in Turns /\ soDisk[roleOf[b]][s] \in Turns
           /\ mem[b][s].has \in Turns /\ mem[b][s].kept \in Turns
<1>1. mem \in [SoBots -> [SoSids -> MemOf]] /\ soDisk \in [SoRoles -> [SoSids -> Turns]]
  BY DEF SoTypeOK
<1>2. mem[b][s] \in MemOf
  BY <1>1
<1>3. soDisk[roleOf[b]][s] \in Turns
  BY <1>1
<1>4. mem[b][s].has \in Turns /\ mem[b][s].kept \in Turns
  BY <1>2 DEF MemOf
<1>5. mem[b][s].has \cup mem[b][s].kept \in Turns
  BY <1>4 DEF Turns
<1>. QED
  BY <1>3, <1>4, <1>5 DEF Bots!Done

LEMMA SoShutDown == SoInv /\ Bots!ShutDown => SoInv'
<1>. SUFFICES ASSUME SoInv, Bots!ShutDown PROVE SoInv'
  OBVIOUS
<1>1. UNCHANGED <<roleOf, mem, soDisk, waiting, by, erased>> /\ soPhase = "serving" /\ soPhase' = "closing"
  BY DEF Bots!ShutDown, Bots!soFiles
<1>2. RolesFound'
  BY <1>1 DEF RolesFound, SoInv
<1>3. owed' = [b \in SoBots |-> [s \in SoSids |-> Bots!Done(b, s)]]
  BY DEF Bots!ShutDown
<1>4. owed' \in [SoBots -> [SoSids -> Turns]]
  <2>. SUFFICES ASSUME NEW b \in SoBots, NEW s \in SoSids PROVE Bots!Done(b, s) \in Turns
    BY <1>3
  <2>1. roleOf[b] \in SoRoles
    BY <1>1 DEF SoInv, RolesFound
  <2>. QED
    BY <2>1, DoneTypes DEF SoInv
<1>5. OwedKept'
  BY <1>1, <1>3 DEF OwedKept, Bots!Done
<1>. QED
  BY <1>1, <1>2, <1>4, <1>5, SoQuiet DEF Phases

LEMMA SoCloseServers == SoInv /\ Bots!CloseServers => SoInv'
<1>. SUFFICES ASSUME SoInv, Bots!CloseServers PROVE SoInv'
  OBVIOUS
<1>1. UNCHANGED <<roleOf, mem, soDisk, waiting, by, owed, erased>> /\ soPhase = "flushed" /\ soPhase' = "ended"
  BY DEF Bots!CloseServers, Bots!soFiles
<1>2. RolesFound'
  BY <1>1 DEF RolesFound, SoInv
<1>3. OwedKept'
  BY <1>1 DEF SoInv, OwedKept, Bots!RolesDiffer
<1>. QED
  BY <1>1, <1>2, <1>3, SoQuiet DEF Phases, SoInv, SoTypeOK

LEMMA SoKilled == SoInv /\ Bots!Killed => SoInv'
<1>. SUFFICES ASSUME SoInv, Bots!Killed PROVE SoInv'
  OBVIOUS
<1>1. UNCHANGED <<roleOf, mem, soDisk, waiting, by, owed, erased>> /\ soPhase' = "killed"
      /\ soPhase \in {"serving", "closing", "flushed"}
  BY DEF Bots!Killed, Bots!soFiles, Bots!Live
<1>2. RolesFound'
  BY <1>1 DEF RolesFound, SoInv
<1>3. OwedKept'
  BY <1>1 DEF OwedKept
<1>. QED
  BY <1>1, <1>2, <1>3, SoQuiet DEF Phases, SoInv, SoTypeOK
\* What the steps of a session start from.
LEMMA LiveKnows ==
    ASSUME SoInv, Bots!Live, NEW b \in SoBots, NEW s \in SoSids
    PROVE  /\ roleOf[b] \in SoRoles
           /\ mem[b][s] \in MemOf
           /\ soDisk[roleOf[b]][s] \in Turns
<1>1. roleOf[b] \in SoRoles
  BY DEF SoInv, RolesFound, Bots!Live
<1>2. mem \in [SoBots -> [SoSids -> MemOf]] /\ soDisk \in [SoRoles -> [SoSids -> Turns]]
  BY DEF SoInv, SoTypeOK
<1>3. mem[b][s] \in MemOf
  BY <1>2
<1>4. soDisk[roleOf[b]][s] \in Turns
  BY <1>1, <1>2
<1>. QED
  BY <1>1, <1>3, <1>4

LEMMA SoGetOrCreate ==
    ASSUME SoInv, NEW b \in SoBots, NEW s \in SoSids, Bots!GetOrCreate(b, s) PROVE SoInv'
<1>. DEFINE m == [on |-> TRUE, has |-> {}, kept |-> soDisk[roleOf[b]][s]]
<1>1. /\ UNCHANGED <<roleOf, soPhase, soDisk, waiting, by, owed, erased>>
      /\ Bots!Live /\ ~mem[b][s].on
      /\ mem' = [mem EXCEPT ![b][s] = m]
  BY DEF Bots!GetOrCreate, Bots!soFiles
<1>2. roleOf[b] \in SoRoles /\ soDisk[roleOf[b]][s] \in Turns
  BY <1>1, LiveKnows
<1>3. SoTypeOK'
  <2>1. m \in MemOf
    BY <1>2 DEF MemOf, Turns
  <2>2. mem' \in [SoBots -> [SoSids -> MemOf]]
    BY <1>1, <2>1 DEF SoInv, SoTypeOK
  <2>. QED
    BY <1>1, <2>2 DEF SoInv, SoTypeOK
<1>4. RolesFound'
  BY <1>1 DEF SoInv, RolesFound
<1>5. \A c \in SoBots, t \in SoSids :
         mem'[c][t] = IF c = b /\ t = s THEN m ELSE mem[c][t]
  BY <1>1 DEF SoInv, SoTypeOK
<1>6. TurnsOwn'
  BY <1>1, <1>2, <1>5 DEF SoInv, TurnsOwn, Own
<1>7. \A c \in SoBots, t \in SoSids : Bots!Done(c, t)' = Bots!Done(c, t)
  <2>1. ASSUME NEW c \in SoBots, NEW t \in SoSids, c = b, t = s
        PROVE  Bots!Done(c, t)' = Bots!Done(c, t)
    <3>1. mem'[b][s] = m /\ roleOf' = roleOf /\ soDisk' = soDisk
      BY <1>1, <1>5
    <3>2. m.on /\ m.has \cup m.kept = soDisk[roleOf[b]][s]
      OBVIOUS
    <3>. QED
      BY <1>1, <2>1, <3>1, <3>2 DEF Bots!Done
  <2>2. ASSUME NEW c \in SoBots, NEW t \in SoSids, ~(c = b /\ t = s)
        PROVE  Bots!Done(c, t)' = Bots!Done(c, t)
    <3>1. mem'[c][t] = mem[c][t] /\ roleOf' = roleOf /\ soDisk' = soDisk
      BY <1>1, <1>5, <2>2
    <3>. QED
      BY <3>1 DEF Bots!Done
  <2>. QED
    BY <2>1, <2>2
<1>8. FlushCurrent'
  BY <1>1, <1>7 DEF SoInv, FlushCurrent, Bots!RolesDiffer
<1>9. OwedKept'
  BY <1>1, <1>7 DEF SoInv, OwedKept, Bots!RolesDiffer
<1>. QED
  BY <1>3, <1>4, <1>6, <1>8, <1>9 DEF SoInv

LEMMA SoTurn ==
    ASSUME SoInv, NEW b \in SoBots, NEW s \in SoSids, Bots!Turn(b, s) PROVE SoInv'
<1>. DEFINE n == Len(by')
            h == mem[b][s].has \cup mem[b][s].kept \cup {n}
            m == [on |-> TRUE, has |-> h, kept |-> {}]
<1>1. /\ UNCHANGED <<roleOf, soPhase, soDisk, owed, erased>> /\ Bots!Live /\ mem[b][s].on
      /\ by' = Append(by, [bot |-> b, sid |-> s])
      /\ mem' = [mem EXCEPT ![b][s] = m]
      /\ waiting' = [waiting EXCEPT ![s] = [role |-> roleOf[b], has |-> mem'[b][s].has]]
  BY DEF Bots!Turn, Bots!Schedule
<1>2. by \in Seq([bot : SoBots, sid : SoSids]) /\ [bot |-> b, sid |-> s] \in [bot : SoBots, sid : SoSids]
  BY DEF SoInv, SoTypeOK
<1>3. /\ by' \in Seq([bot : SoBots, sid : SoSids]) /\ n = Len(by) + 1 /\ n \in Nat
      /\ by'[n] = [bot |-> b, sid |-> s] /\ n = Len(by') /\ Len(by) \in Nat
      /\ \A i \in 1..Len(by) : by'[i] = by[i]
  BY <1>1, <1>2
<1>. HIDE DEF n
<1>4. roleOf[b] \in SoRoles /\ mem[b][s] \in MemOf
  BY <1>1, LiveKnows
<1>5. h \in Turns
  BY <1>3, <1>4 DEF Turns, MemOf
<1>6. \A c \in SoBots, t \in SoSids :
         mem'[c][t] = IF c = b /\ t = s THEN m ELSE mem[c][t]
  BY <1>1 DEF SoInv, SoTypeOK
<1>7. mem'[b][s].has = h /\ mem'[b][s].kept = {} /\ mem'[b][s].on
  BY <1>1, <1>4, <1>6
<1>8. \A t \in SoSids : waiting'[t] = IF t = s THEN [role |-> roleOf[b], has |-> h] ELSE waiting[t]
  BY <1>1, <1>7 DEF SoInv, SoTypeOK
<1>. HIDE DEF h
<1>9. SoTypeOK'
  <2>1. m \in MemOf
    BY <1>5 DEF MemOf, Turns
  <2>2. mem' \in [SoBots -> [SoSids -> MemOf]]
    BY <1>1, <2>1 DEF SoInv, SoTypeOK, h
  <2>3. [role |-> roleOf[b], has |-> h] \in [role : SoRoles \cup {""}, has : Turns]
    BY <1>4, <1>5
  <2>4. waiting' \in [SoSids -> [role : SoRoles \cup {""}, has : Turns]]
    BY <1>1, <1>7, <2>3 DEF SoInv, SoTypeOK
  <2>5. \A t \in SoSids : waiting'[t] = Bots!NoFlush \/ waiting'[t].role \in SoRoles
    <3>1. \A t \in SoSids : waiting[t] = Bots!NoFlush \/ waiting[t].role \in SoRoles
      BY DEF SoInv, SoTypeOK
    <3>. QED
      BY <1>8, <1>4, <3>1
  <2>. QED
    BY <1>1, <1>3, <2>2, <2>4, <2>5 DEF SoInv, SoTypeOK
<1>10. RolesFound'
  BY <1>1 DEF SoInv, RolesFound
<1>11. \A i, r, t : Own(i, r, t, by, roleOf) => Own(i, r, t, by', roleOf)
  BY <1>1, <1>3 DEF Own
<1>12. \A i \in h : Own(i, roleOf[b], s, by', roleOf)
  <2>1. Own(n, roleOf[b], s, by', roleOf)
    BY <1>1, <1>3 DEF Own
  <2>2. \A i \in mem[b][s].has \cup mem[b][s].kept : Own(i, roleOf[b], s, by, roleOf)
    BY DEF SoInv, TurnsOwn
  <2>. QED
    BY <1>11, <2>1, <2>2 DEF h
<1>13. TurnsOwn'
  <2>1. ASSUME NEW c \in SoBots, NEW t \in SoSids, NEW i \in mem'[c][t].has \cup mem'[c][t].kept
        PROVE  Own(i, roleOf[c], t, by', roleOf)
    <3>1. CASE c = b /\ t = s
      BY <1>7, <1>12, <2>1, <3>1
    <3>2. CASE ~(c = b /\ t = s)
      BY <1>6, <1>11, <2>1, <3>2 DEF SoInv, TurnsOwn
    <3>. QED
      BY <3>1, <3>2
  <2>2. ASSUME NEW r \in SoRoles, NEW t \in SoSids, NEW i \in soDisk[r][t] PROVE Own(i, r, t, by', roleOf)
    BY <1>11, <2>2 DEF SoInv, TurnsOwn
  <2>3. ASSUME NEW t \in SoSids, NEW i \in waiting'[t].has PROVE Own(i, waiting'[t].role, t, by', roleOf)
    <3>1. CASE t = s
      BY <1>8, <1>12, <2>3, <3>1
    <3>2. CASE t # s
      BY <1>8, <1>11, <2>3, <3>2 DEF SoInv, TurnsOwn
    <3>. QED
      BY <3>1, <3>2
  <2>4. UNCHANGED <<roleOf, soDisk>>
    BY <1>1
  <2>. QED
    BY <2>1, <2>2, <2>3, <2>4 DEF TurnsOwn
<1>14. Bots!Done(b, s)' = h
  <2>1. Bots!Done(b, s)' = mem'[b][s].has \cup mem'[b][s].kept
    BY <1>7 DEF Bots!Done
  <2>. QED
    BY <1>7, <2>1
<1>15. \A c \in SoBots, t \in SoSids : ~(c = b /\ t = s) => Bots!Done(c, t)' = Bots!Done(c, t)
  <2>1. UNCHANGED <<roleOf, soDisk>>
    BY <1>1
  <2>2. \A c \in SoBots, t \in SoSids : ~(c = b /\ t = s) => mem'[c][t] = mem[c][t]
    BY <1>6
  <2>. QED
    BY <2>1, <2>2 DEF Bots!Done
<1>16. FlushCurrent'
  <2>1. ASSUME Bots!RolesDiffer, NEW c \in SoBots, NEW t \in SoSids,
               waiting'[t] # Bots!NoFlush, waiting'[t].role = roleOf[c]
        PROVE  Bots!Done(c, t)' \subseteq waiting'[t].has \cup erased
    <3>1. CASE t = s
      <4>1. c = b
        BY <1>8, <2>1, <3>1 DEF Bots!RolesDiffer
      <4>. QED
        BY <1>8, <1>14, <3>1, <4>1
    <3>2. CASE t # s
      BY <1>8, <1>15, <2>1, <3>2 DEF SoInv, FlushCurrent
    <3>. QED
      BY <3>1, <3>2
  <2>. QED
    BY <1>1, <2>1 DEF FlushCurrent, Bots!RolesDiffer
<1>17. OwedKept'
  <2>1. \A c \in SoBots, t \in SoSids : Bots!Done(c, t) \subseteq Bots!Done(c, t)'
    <3>1. Bots!Done(b, s) = mem[b][s].has \cup mem[b][s].kept
      BY <1>1 DEF Bots!Done
    <3>2. Bots!Done(b, s) \subseteq h
      BY <3>1 DEF h
    <3>. QED
      BY <1>14, <1>15, <3>2
  <2>. QED
    BY <1>1, <2>1 DEF SoInv, OwedKept, Bots!RolesDiffer
<1>. QED
  BY <1>9, <1>10, <1>13, <1>16, <1>17 DEF SoInv
\* The types of the parts of a history, taken apart.
LEMMA SoTypes ==
    ASSUME SoInv
    PROVE  /\ mem \in [SoBots -> [SoSids -> MemOf]]
           /\ soDisk \in [SoRoles -> [SoSids -> Turns]]
           /\ waiting \in [SoSids -> [role : SoRoles \cup {""}, has : Turns]]
           /\ \A s \in SoSids : waiting[s] = Bots!NoFlush \/ waiting[s].role \in SoRoles
BY DEF SoInv, SoTypeOK

\* A step that changes memory, files and flushes, but begins nothing and has no
\* new turn.
LEMMA SoMoves ==
    ASSUME SoInv, UNCHANGED <<roleOf, soPhase, by, owed>>,
           mem' \in [SoBots -> [SoSids -> MemOf]],
           soDisk' \in [SoRoles -> [SoSids -> Turns]],
           waiting' \in [SoSids -> [role : SoRoles \cup {""}, has : Turns]],
           \A s \in SoSids : waiting'[s] = Bots!NoFlush \/ waiting'[s].role \in SoRoles,
           TurnsOwn', FlushCurrent', OwedKept'
    PROVE  SoInv'
<1>1. SoTypeOK'
  BY DEF SoInv, SoTypeOK
<1>2. RolesFound'
  BY DEF SoInv, RolesFound
<1>. QED
  BY <1>1, <1>2 DEF SoInv

LEMMA SoFlushDue ==
    ASSUME SoInv, NEW s \in SoSids, Bots!FlushDue(s) PROVE SoInv'
<1>. DEFINE r == waiting[s].role
            h == waiting[s].has
<1>1. /\ UNCHANGED <<roleOf, soPhase, mem, by, owed, erased>> /\ Bots!Live /\ waiting[s] # Bots!NoFlush
      /\ soDisk' = [soDisk EXCEPT ![r][s] = h]
      /\ waiting' = [waiting EXCEPT ![s] = Bots!NoFlush]
  BY DEF Bots!FlushDue
<1>2. r \in SoRoles /\ h \in Turns
  <2>1. waiting[s] \in [role : SoRoles \cup {""}, has : Turns]
    BY SoTypes
  <2>2. waiting[s].role \in SoRoles
    BY <1>1, SoTypes
  <2>. QED
    BY <2>1, <2>2
<1>3. Bots!NoFlush \in [role : SoRoles \cup {""}, has : Turns]
  BY DEF Bots!NoFlush, Turns
<1>4. soDisk' \in [SoRoles -> [SoSids -> Turns]]
  BY <1>1, <1>2, SoTypes
<1>5. waiting' \in [SoSids -> [role : SoRoles \cup {""}, has : Turns]]
  BY <1>1, <1>3, SoTypes
<1>6. \A t \in SoSids : waiting'[t] = IF t = s THEN Bots!NoFlush ELSE waiting[t]
  BY <1>1, SoTypes
<1>7. \A q \in SoRoles, t \in SoSids : soDisk'[q][t] = IF q = r /\ t = s THEN h ELSE soDisk[q][t]
  BY <1>1, SoTypes
<1>8. \A t \in SoSids : waiting'[t] = Bots!NoFlush \/ waiting'[t].role \in SoRoles
  BY <1>6, SoTypes
<1>9. \A b \in SoBots : roleOf[b] \in SoRoles
  BY <1>1 DEF SoInv, RolesFound, Bots!Live
<1>10. TurnsOwn'
  <2>1. \A i \in h : Own(i, r, s, by, roleOf)
    BY DEF SoInv, TurnsOwn
  <2>2. ASSUME NEW q \in SoRoles, NEW t \in SoSids, NEW i \in soDisk'[q][t]
        PROVE  Own(i, q, t, by, roleOf)
    BY <1>7, <2>1, <2>2 DEF SoInv, TurnsOwn
  <2>3. ASSUME NEW t \in SoSids, NEW i \in waiting'[t].has
        PROVE  Own(i, waiting'[t].role, t, by, roleOf)
    <3>. Bots!NoFlush.has = {}
      BY DEF Bots!NoFlush
    <3>1. t # s
      BY <1>6, <2>3
    <3>2. waiting'[t] = waiting[t]
      BY <1>6, <3>1
    <3>. QED
      BY <2>3, <3>2 DEF SoInv, TurnsOwn
  <2>4. \A b \in SoBots, t \in SoSids : \A i \in mem[b][t].has \cup mem[b][t].kept : Own(i, roleOf[b], t, by, roleOf)
    BY DEF SoInv, TurnsOwn
  <2>. QED
    BY <1>1, <2>2, <2>3, <2>4 DEF TurnsOwn
\* The history that is written has all that its bot has, but for what is erased.
<1>11. ASSUME Bots!RolesDiffer, NEW b \in SoBots, NEW t \in SoSids
       PROVE  /\ Bots!Done(b, t) \subseteq Bots!Done(b, t)' \cup erased
              /\ (roleOf[b] = r /\ t = s /\ ~mem[b][t].on) \/ Bots!Done(b, t)' = Bots!Done(b, t)
  <2>1. CASE mem[b][t].on
    BY <1>1, <2>1 DEF Bots!Done
  <2>2. CASE ~mem[b][t].on /\ ~(roleOf[b] = r /\ t = s)
    BY <1>1, <1>7, <1>9, <2>2 DEF Bots!Done
  <2>3. CASE ~mem[b][t].on /\ roleOf[b] = r /\ t = s
    <3>1. Bots!Done(b, s) \subseteq h \cup erased
      BY <1>1, <1>11, <2>3 DEF SoInv, FlushCurrent
    <3>2. Bots!Done(b, s)' = soDisk'[r][s]
      BY <1>1, <2>3 DEF Bots!Done
    <3>. QED
      BY <1>2, <1>7, <2>3, <3>1, <3>2
  <2>. QED
    BY <2>1, <2>2, <2>3
<1>12. FlushCurrent'
  <2>1. Bots!RolesDiffer' <=> Bots!RolesDiffer
    BY <1>1 DEF Bots!RolesDiffer
  <2>2. ASSUME Bots!RolesDiffer, NEW b \in SoBots, NEW t \in SoSids,
               waiting'[t] # Bots!NoFlush, waiting'[t].role = roleOf[b]
        PROVE  Bots!Done(b, t)' \subseteq waiting'[t].has \cup erased
    <3>1. waiting'[t] = waiting[t] /\ t # s
      BY <1>6, <2>2
    <3>2. Bots!Done(b, t)' = Bots!Done(b, t)
      BY <1>11, <2>2, <3>1
    <3>. QED
      BY <2>2, <3>1, <3>2 DEF SoInv, FlushCurrent
  <2>. QED
    BY <1>1, <2>1, <2>2 DEF FlushCurrent
<1>13. OwedKept'
  <2>1. Bots!RolesDiffer' <=> Bots!RolesDiffer
    BY <1>1 DEF Bots!RolesDiffer
  <2>2. ASSUME Bots!RolesDiffer, NEW b \in SoBots, NEW t \in SoSids,
               soPhase \in {"closing", "flushed"}
        PROVE  owed[b][t] \subseteq Bots!Done(b, t)' \cup erased
    <3>1. owed[b][t] \subseteq Bots!Done(b, t) \cup erased
      BY <2>2 DEF SoInv, OwedKept
    <3>2. Bots!Done(b, t) \subseteq Bots!Done(b, t)' \cup erased
      BY <1>11, <2>2
    <3>. QED
      BY <3>1, <3>2
  <2>3. ASSUME Bots!RolesDiffer, NEW b \in SoBots, NEW t \in SoSids,
               soPhase \in {"flushed", "ended"}
        PROVE  owed[b][t] \subseteq soDisk'[roleOf[b]][t] \cup erased
    <3>1. soPhase = "flushed" /\ owed[b][t] \subseteq soDisk[roleOf[b]][t] \cup erased
          /\ owed[b][t] \subseteq Bots!Done(b, t) \cup erased
      BY <1>1, <2>3 DEF SoInv, OwedKept, Bots!Live
    <3>2. CASE roleOf[b] = r /\ t = s
      <4>1. Bots!Done(b, s) \subseteq h \cup erased
        BY <1>1, <2>3, <3>2 DEF SoInv, FlushCurrent
      <4>. QED
        BY <1>2, <1>7, <3>1, <3>2, <4>1
    <3>3. CASE ~(roleOf[b] = r /\ t = s)
      BY <1>7, <1>9, <3>1, <3>3
    <3>. QED
      BY <3>2, <3>3
  <2>. QED
    BY <1>1, <2>1, <2>2, <2>3 DEF OwedKept
<1>. QED
  BY <1>1, <1>4, <1>5, <1>8, <1>10, <1>12, <1>13, SoMoves, SoTypes

LEMMA SoEvict ==
    ASSUME SoInv, NEW b \in SoBots, NEW s \in SoSids, Bots!Evict(b, s) PROVE SoInv'
<1>. DEFINE r == roleOf[b]
            h == mem[b][s].has
<1>1. /\ UNCHANGED <<roleOf, soPhase, waiting, by, owed>> /\ Bots!Live /\ mem[b][s].on
      /\ soDisk' = [soDisk EXCEPT ![r][s] = h]
      /\ mem' = [mem EXCEPT ![b][s] = Bots!Out] /\ erased' = erased \cup mem[b][s].kept
  BY DEF Bots!Evict
<1>2. r \in SoRoles /\ h \in Turns
  BY <1>1, LiveKnows DEF MemOf
<1>3. Bots!Out \in MemOf
  BY DEF Bots!Out, Turns, MemOf
<1>4. soDisk' \in [SoRoles -> [SoSids -> Turns]]
  BY <1>1, <1>2, SoTypes
<1>5. mem' \in [SoBots -> [SoSids -> MemOf]]
  BY <1>1, <1>3, SoTypes
<1>6. \A c \in SoBots, t \in SoSids : mem'[c][t] = IF c = b /\ t = s THEN Bots!Out ELSE mem[c][t]
  BY <1>1, SoTypes
<1>7. \A q \in SoRoles, t \in SoSids : soDisk'[q][t] = IF q = r /\ t = s THEN h ELSE soDisk[q][t]
  BY <1>1, SoTypes
<1>8. \A c \in SoBots : roleOf[c] \in SoRoles
  BY <1>1 DEF SoInv, RolesFound, Bots!Live
<1>9. TurnsOwn'
  <2>1. \A i \in h : Own(i, r, s, by, roleOf)
    BY DEF SoInv, TurnsOwn
  <2>2. ASSUME NEW q \in SoRoles, NEW t \in SoSids, NEW i \in soDisk'[q][t]
        PROVE  Own(i, q, t, by, roleOf)
    BY <1>7, <2>1, <2>2 DEF SoInv, TurnsOwn
  <2>3. ASSUME NEW c \in SoBots, NEW t \in SoSids, NEW i \in mem'[c][t].has \cup mem'[c][t].kept
        PROVE  Own(i, roleOf[c], t, by, roleOf)
    BY <1>6, <2>3 DEF SoInv, TurnsOwn, Bots!Out
  <2>4. \A t \in SoSids : \A i \in waiting[t].has : Own(i, waiting[t].role, t, by, roleOf)
    BY DEF SoInv, TurnsOwn
  <2>. QED
    BY <1>1, <2>2, <2>3, <2>4 DEF TurnsOwn
\* What is in no file any more but this one is what the agent had in memory.
<1>10. ASSUME Bots!RolesDiffer, NEW c \in SoBots, NEW t \in SoSids
       PROVE  /\ Bots!Done(c, t)' \subseteq Bots!Done(c, t)
              /\ Bots!Done(c, t) \subseteq Bots!Done(c, t)' \cup erased'
  <2>1. CASE c = b /\ t = s
    <3>1. Bots!Done(b, s)' = soDisk'[r][s]
      BY <1>1, <1>6 DEF Bots!Done, Bots!Out
    <3>2. Bots!Done(b, s) = h \cup mem[b][s].kept
      BY <1>1 DEF Bots!Done
    <3>. QED
      BY <1>1, <1>2, <1>7, <2>1, <3>1, <3>2
  <2>2. CASE ~(c = b /\ t = s)
    <3>1. mem'[c][t] = mem[c][t]
      BY <1>6, <2>2
    <3>2. soDisk'[roleOf[c]][t] = soDisk[roleOf[c]][t]
      BY <1>7, <1>8, <1>10, <2>2 DEF Bots!RolesDiffer
    <3>. QED
      BY <1>1, <3>1, <3>2 DEF Bots!Done
  <2>. QED
    BY <2>1, <2>2
<1>11. (Bots!RolesDiffer' <=> Bots!RolesDiffer) /\ erased \subseteq erased'
  BY <1>1 DEF Bots!RolesDiffer
<1>12. FlushCurrent'
  <2>1. ASSUME Bots!RolesDiffer, NEW c \in SoBots, NEW t \in SoSids,
               waiting[t] # Bots!NoFlush, waiting[t].role = roleOf[c]
        PROVE  Bots!Done(c, t)' \subseteq waiting[t].has \cup erased'
    <3>1. Bots!Done(c, t)' \subseteq Bots!Done(c, t)
      BY <1>10, <2>1
    <3>2. Bots!Done(c, t) \subseteq waiting[t].has \cup erased
      BY <2>1 DEF SoInv, FlushCurrent
    <3>. QED
      BY <1>11, <3>1, <3>2
  <2>. QED
    BY <1>1, <1>11, <2>1 DEF FlushCurrent
<1>13. OwedKept'
  <2>1. ASSUME Bots!RolesDiffer, NEW c \in SoBots, NEW t \in SoSids,
               soPhase \in {"closing", "flushed"}
        PROVE  owed[c][t] \subseteq Bots!Done(c, t)' \cup erased'
    <3>1. owed[c][t] \subseteq Bots!Done(c, t) \cup erased
      BY <2>1 DEF SoInv, OwedKept
    <3>2. Bots!Done(c, t) \subseteq Bots!Done(c, t)' \cup erased'
      BY <1>10, <2>1
    <3>. QED
      BY <1>11, <3>1, <3>2
  <2>2. ASSUME Bots!RolesDiffer, NEW c \in SoBots, NEW t \in SoSids,
               soPhase \in {"flushed", "ended"}
        PROVE  owed[c][t] \subseteq soDisk'[roleOf[c]][t] \cup erased'
    <3>1. soPhase = "flushed" /\ owed[c][t] \subseteq soDisk[roleOf[c]][t] \cup erased
          /\ owed[c][t] \subseteq Bots!Done(c, t) \cup erased
      BY <1>1, <2>2 DEF SoInv, OwedKept, Bots!Live
    <3>2. CASE roleOf[c] = r /\ t = s
      <4>1. c = b
        BY <2>2, <3>2 DEF Bots!RolesDiffer
      <4>2. Bots!Done(c, t) = h \cup mem[b][s].kept
        BY <1>1, <3>2, <4>1 DEF Bots!Done
      <4>. QED
        BY <1>1, <1>2, <1>7, <3>1, <3>2, <4>2
    <3>3. CASE ~(roleOf[c] = r /\ t = s)
      BY <1>7, <1>8, <1>11, <3>1, <3>3
    <3>. QED
      BY <3>2, <3>3
  <2>. QED
    BY <1>1, <1>11, <2>1, <2>2 DEF OwedKept
<1>. QED
  BY <1>1, <1>4, <1>5, <1>9, <1>12, <1>13, SoMoves, SoTypes

LEMMA SoReset ==
    ASSUME SoInv, NEW b \in SoBots, NEW s \in SoSids, Bots!Reset(b, s) PROVE SoInv'
<1>. DEFINE r == roleOf[b]
            m == [on |-> TRUE, has |-> {}, kept |-> {}]
<1>1. /\ UNCHANGED <<roleOf, soPhase, by, owed, erased>> /\ soPhase = "serving" /\ mem[b][s].on
      /\ soDisk' = [soDisk EXCEPT ![r][s] = {}]
      /\ mem' = [mem EXCEPT ![b][s] = m]
      /\ waiting' = [waiting EXCEPT ![s] = Bots!NoFlush]
  BY DEF Bots!Reset
<1>2. r \in SoRoles /\ mem[b][s] \in MemOf
  BY <1>1, LiveKnows DEF Bots!Live
<1>3. {} \in Turns /\ Bots!NoFlush \in [role : SoRoles \cup {""}, has : Turns]
  BY DEF Bots!NoFlush, Turns
<1>4. soDisk' \in [SoRoles -> [SoSids -> Turns]]
  BY <1>1, <1>3, SoTypes
<1>5. mem' \in [SoBots -> [SoSids -> MemOf]]
  <2>1. m \in MemOf
    BY <1>3 DEF MemOf
  <2>. QED
    BY <1>1, <2>1, SoTypes
<1>6. waiting' \in [SoSids -> [role : SoRoles \cup {""}, has : Turns]]
  BY <1>1, <1>3, SoTypes
<1>7. \A c \in SoBots, t \in SoSids : mem'[c][t] = IF c = b /\ t = s THEN m ELSE mem[c][t]
  BY <1>1, SoTypes
<1>8. m.has = {} /\ m.kept = {} /\ m.on
  OBVIOUS
<1>. HIDE DEF m
<1>9. \A q \in SoRoles, t \in SoSids : soDisk'[q][t] = IF q = r /\ t = s THEN {} ELSE soDisk[q][t]
  BY <1>1, SoTypes
<1>10. \A t \in SoSids : waiting'[t] = IF t = s THEN Bots!NoFlush ELSE waiting[t]
  BY <1>1, SoTypes
<1>11. \A t \in SoSids : waiting'[t] = Bots!NoFlush \/ waiting'[t].role \in SoRoles
  BY <1>10, SoTypes
<1>12. TurnsOwn'
  <2>1. ASSUME NEW q \in SoRoles, NEW t \in SoSids, NEW i \in soDisk'[q][t]
        PROVE  Own(i, q, t, by, roleOf)
    BY <1>9, <2>1 DEF SoInv, TurnsOwn
  <2>2. ASSUME NEW c \in SoBots, NEW t \in SoSids, NEW i \in mem'[c][t].has \cup mem'[c][t].kept
        PROVE  Own(i, roleOf[c], t, by, roleOf)
    BY <1>7, <1>8, <2>2 DEF SoInv, TurnsOwn
  <2>3. ASSUME NEW t \in SoSids, NEW i \in waiting'[t].has
        PROVE  Own(i, waiting'[t].role, t, by, roleOf)
    <3>. Bots!NoFlush.has = {}
      BY DEF Bots!NoFlush
    <3>1. t # s
      BY <1>10, <2>3
    <3>2. waiting'[t] = waiting[t]
      BY <1>10, <3>1
    <3>. QED
      BY <2>3, <3>2 DEF SoInv, TurnsOwn
  <2>. QED
    BY <1>1, <2>1, <2>2, <2>3 DEF TurnsOwn
<1>13. FlushCurrent'
  <2>1. ASSUME Bots!RolesDiffer, NEW c \in SoBots, NEW t \in SoSids,
               waiting'[t] # Bots!NoFlush, waiting'[t].role = roleOf[c]
        PROVE  Bots!Done(c, t)' \subseteq waiting'[t].has \cup erased
    <3>1. t # s /\ waiting'[t] = waiting[t]
      BY <1>10, <2>1
    <3>2. mem'[c][t] = mem[c][t]
      BY <1>7, <3>1
    <3>3. soDisk'[roleOf[c]][t] = soDisk[roleOf[c]][t]
      <4>1. roleOf[c] \in SoRoles
        BY <1>1 DEF SoInv, RolesFound
      <4>. QED
        BY <1>9, <3>1, <4>1
    <3>4. Bots!Done(c, t)' = Bots!Done(c, t)
      <4>. roleOf' = roleOf
        BY <1>1
      <4>. QED
        BY <3>2, <3>3 DEF Bots!Done
    <3>. QED
      BY <2>1, <3>1, <3>4 DEF SoInv, FlushCurrent
  <2>. QED
    BY <1>1, <2>1 DEF FlushCurrent, Bots!RolesDiffer
<1>14. OwedKept'
  BY <1>1 DEF OwedKept
<1>. QED
  BY <1>1, <1>4, <1>5, <1>6, <1>11, <1>12, <1>13, <1>14, SoMoves

\* flush_all writes what every bot has in memory; what none has stays as it was.
LEMMA SoFlushAll == SoInv /\ Bots!FlushAll => SoInv'
<1>. SUFFICES ASSUME SoInv, Bots!FlushAll PROVE SoInv'
  OBVIOUS
<1>1. /\ UNCHANGED <<roleOf, mem, by, owed>> /\ soPhase = "closing" /\ soPhase' = "flushed"
      /\ waiting' = [s \in SoSids |-> Bots!NoFlush]
      /\ erased \subseteq erased' /\ \A b \in SoBots, s \in SoSids : mem[b][s].kept \subseteq erased'
  BY DEF Bots!FlushAll, Bots!FlushSessions
<1>2. PICK keeper \in [SoRoles -> SoBots] :
         /\ \A r \in SoRoles, s \in SoSids : Bots!Holders(r, s) # {} => keeper[r] \in Bots!Holders(r, s)
         /\ soDisk' = [r \in SoRoles |-> [s \in SoSids |->
                         IF Bots!Holders(r, s) = {} THEN soDisk[r][s] ELSE mem[keeper[r]][s].has]]
  BY DEF Bots!FlushAll, Bots!FlushSessions
<1>3. \A r \in SoRoles, s \in SoSids :
         \/ Bots!Holders(r, s) = {} /\ soDisk'[r][s] = soDisk[r][s]
         \/ /\ keeper[r] \in SoBots /\ roleOf[keeper[r]] = r /\ mem[keeper[r]][s].on
            /\ soDisk'[r][s] = mem[keeper[r]][s].has
  <2>. SUFFICES ASSUME NEW r \in SoRoles, NEW s \in SoSids
                PROVE  \/ Bots!Holders(r, s) = {} /\ soDisk'[r][s] = soDisk[r][s]
                       \/ /\ keeper[r] \in SoBots /\ roleOf[keeper[r]] = r /\ mem[keeper[r]][s].on
                          /\ soDisk'[r][s] = mem[keeper[r]][s].has
    OBVIOUS
  <2>1. soDisk'[r][s] = IF Bots!Holders(r, s) = {} THEN soDisk[r][s] ELSE mem[keeper[r]][s].has
    BY <1>2
  <2>2. CASE Bots!Holders(r, s) = {}
    BY <2>1, <2>2
  <2>3. CASE Bots!Holders(r, s) # {}
    <3>1. keeper[r] \in Bots!Holders(r, s)
      BY <1>2, <2>3
    <3>. QED
      BY <2>1, <2>3, <3>1 DEF Bots!Holders
  <2>. QED
    BY <2>2, <2>3
<1>4. soDisk' \in [SoRoles -> [SoSids -> Turns]]
  <2>1. ASSUME NEW r \in SoRoles, NEW s \in SoSids PROVE soDisk'[r][s] \in Turns
    <3>. keeper[r] \in SoBots
      BY <1>2
    <3>1. mem[keeper[r]][s] \in MemOf
      <4>. mem \in [SoBots -> [SoSids -> MemOf]]
        BY SoTypes
      <4>. QED
        OBVIOUS
    <3>2. soDisk[r][s] \in Turns
      BY SoTypes
    <3>. QED
      BY <1>3, <3>1, <3>2 DEF MemOf
  <2>2. soDisk' = [r \in SoRoles |-> [s \in SoSids |-> soDisk'[r][s]]]
    BY <1>2
  <2>. QED
    BY <2>1, <2>2
<1>5. SoTypeOK'
  <2>1. Bots!NoFlush \in [role : SoRoles \cup {""}, has : Turns]
    BY DEF Bots!NoFlush, Turns
  <2>2. waiting' \in [SoSids -> [role : SoRoles \cup {""}, has : Turns]]
    BY <1>1, <2>1
  <2>3. \A s \in SoSids : waiting'[s] = Bots!NoFlush
    BY <1>1
  <2>. QED
    BY <1>1, <1>4, <2>2, <2>3 DEF SoInv, SoTypeOK, Phases
<1>6. RolesFound' /\ \A b \in SoBots : roleOf[b] \in SoRoles
  BY <1>1 DEF SoInv, RolesFound
<1>7. TurnsOwn'
  <2>1. ASSUME NEW r \in SoRoles, NEW s \in SoSids, NEW i \in soDisk'[r][s]
        PROVE  Own(i, r, s, by, roleOf)
    <3>1. CASE Bots!Holders(r, s) = {} /\ soDisk'[r][s] = soDisk[r][s]
      BY <2>1, <3>1 DEF SoInv, TurnsOwn
    <3>2. CASE keeper[r] \in SoBots /\ roleOf[keeper[r]] = r /\ soDisk'[r][s] = mem[keeper[r]][s].has
      BY <2>1, <3>2 DEF SoInv, TurnsOwn
    <3>. QED
      BY <1>3, <3>1, <3>2
  <2>2. \A s \in SoSids : waiting'[s].has = {}
    BY <1>1 DEF Bots!NoFlush
  <2>3. \A b \in SoBots, t \in SoSids : \A i \in mem[b][t].has \cup mem[b][t].kept : Own(i, roleOf[b], t, by, roleOf)
    BY DEF SoInv, TurnsOwn
  <2>. QED
    BY <1>1, <2>1, <2>2, <2>3 DEF TurnsOwn
<1>8. FlushCurrent'
  BY <1>1 DEF FlushCurrent
<1>9. ASSUME Bots!RolesDiffer, NEW b \in SoBots, NEW s \in SoSids
      PROVE  Bots!Done(b, s) \subseteq soDisk'[roleOf[b]][s] \cup erased'
  <2>1. roleOf[b] \in SoRoles
    BY <1>6
  <2>2. CASE mem[b][s].on
    <3>1. b \in Bots!Holders(roleOf[b], s)
      BY <2>2 DEF Bots!Holders
    <3>2. keeper[roleOf[b]] = b
      BY <1>3, <1>9, <2>1, <3>1 DEF Bots!RolesDiffer
    <3>3. soDisk'[roleOf[b]][s] = mem[b][s].has
      BY <1>3, <2>1, <3>1, <3>2
    <3>4. Bots!Done(b, s) = mem[b][s].has \cup mem[b][s].kept
      BY <2>2 DEF Bots!Done
    <3>. QED
      BY <1>1, <3>3, <3>4
  <2>3. CASE ~mem[b][s].on
    <3>1. Bots!Holders(roleOf[b], s) = {}
      BY <1>9, <2>3 DEF Bots!RolesDiffer, Bots!Holders
    <3>2. soDisk'[roleOf[b]][s] = soDisk[roleOf[b]][s]
      BY <1>2, <2>1, <3>1
    <3>. QED
      BY <2>3, <3>2 DEF Bots!Done
  <2>. QED
    BY <2>2, <2>3
<1>10. OwedKept'
  <2>1. ASSUME Bots!RolesDiffer, NEW b \in SoBots, NEW s \in SoSids, soDisk'[roleOf[b]][s] \in Turns
        PROVE  /\ owed[b][s] \subseteq soDisk'[roleOf[b]][s] \cup erased'
               /\ owed[b][s] \subseteq Bots!Done(b, s)' \cup erased'
    <3>1. owed[b][s] \subseteq Bots!Done(b, s) \cup erased
      BY <1>1, <2>1 DEF SoInv, OwedKept
    <3>2. Bots!Done(b, s) \subseteq soDisk'[roleOf[b]][s] \cup erased'
      BY <1>9, <2>1
    <3>3. Bots!Done(b, s)' = IF mem[b][s].on THEN mem[b][s].has \cup mem[b][s].kept
                             ELSE soDisk'[roleOf[b]][s]
      BY <1>1 DEF Bots!Done
    <3>4. CASE mem[b][s].on
      <4>1. Bots!Done(b, s)' = Bots!Done(b, s)
        BY <3>3, <3>4 DEF Bots!Done
      <4>. QED
        BY <1>1, <3>1, <3>2, <4>1
    <3>5. CASE ~mem[b][s].on
      BY <1>1, <3>1, <3>2, <3>3, <3>5
    <3>. QED
      BY <3>4, <3>5
  <2>2. \A b \in SoBots, s \in SoSids : soDisk'[roleOf[b]][s] \in Turns
    BY <1>4, <1>6
  <2>. QED
    BY <1>1, <2>1, <2>2 DEF OwedKept, Bots!RolesDiffer
<1>. QED
  BY <1>5, <1>6, <1>7, <1>8, <1>10 DEF SoInv

LEMMA SoInvariant == SoInv /\ [RcNext]_RcVars => SoInv'
<1>. SUFFICES ASSUME SoInv, [RcNext]_RcVars PROVE SoInv'
  OBVIOUS
<1>1. CASE UNCHANGED soAll
  <2>1. UNCHANGED <<roleOf, mem, soDisk, waiting, by, soPhase, owed, erased>>
    BY <1>1 DEF soAll
  <2>2. RolesFound'
    BY <2>1 DEF SoInv, RolesFound
  <2>3. OwedKept'
    BY <2>1 DEF SoInv, OwedKept, Bots!RolesDiffer, Bots!Done
  <2>. QED
    BY <2>1, <2>2, <2>3, SoQuiet DEF SoInv, SoTypeOK
<1>2. CASE Bots!SoNext
  BY <1>2, SoBoot, SoShutDown, SoFlushAll, SoCloseServers, SoKilled, SoFlushDue, SoGetOrCreate,
     SoTurn, SoEvict, SoReset DEF Bots!SoNext
<1>. QED
  BY <1>1, <1>2, SoSteps

\* Bots of different roles that share a group keep their histories apart, and an
\* orderly end loses no complete turn but those that a flush has erased before an
\* agent adopted them, for any bots, roles, sessions and number of turns.
THEOREM BotsStayApart == RcSpec => []SoloSound
<1>1. SoInv => SoloSound
  <2>. SUFFICES ASSUME SoInv PROVE SoloSound
    OBVIOUS
  <2>1. Bots!HistoriesApart
    <3>. SUFFICES ASSUME Bots!RolesDiffer, NEW b \in SoBots, NEW s \in SoSids,
                         NEW n \in mem[b][s].has \cup mem[b][s].kept
                                   \cup (IF roleOf[b] = Bots!Unknown THEN {}
                                         ELSE soDisk[roleOf[b]][s])
                  PROVE  by[n] = [bot |-> b, sid |-> s]
      BY DEF Bots!HistoriesApart
    <3>1. Own(n, roleOf[b], s, by, roleOf)
      <4>1. CASE n \in mem[b][s].has \cup mem[b][s].kept
        BY <4>1 DEF SoInv, TurnsOwn
      <4>2. CASE roleOf[b] # Bots!Unknown /\ n \in soDisk[roleOf[b]][s]
        <5>1. roleOf[b] \in SoRoles
          BY <4>2 DEF SoInv, SoTypeOK, Bots!BotNames
        <5>. QED
          BY <4>2, <5>1 DEF SoInv, TurnsOwn
      <4>. QED
        BY <4>1, <4>2
    <3>2. by[n] \in [bot : SoBots, sid : SoSids]
      <4>. DEFINE Turn == [bot : SoBots, sid : SoSids]
      <4>1. by \in Seq(Turn) /\ n \in 1..Len(by)
        BY <3>1 DEF SoInv, SoTypeOK, Own
      <4>. HIDE DEF Turn
      <4>2. by[n] \in Turn
        BY <4>1
      <4>. QED
        BY <4>2 DEF Turn
    <3>3. by[n].bot = b /\ by[n].sid = s
      BY <3>1, <3>2 DEF Own, Bots!RolesDiffer
    <3>. QED
      BY <3>2, <3>3
  <2>2. Bots!QuitKeepsTurns
    BY DEF Bots!QuitKeepsTurns, SoInv, OwedKept
  <2>. QED
    BY <2>1, <2>2 DEF SoloSound, Bots!SoloSound
<1>. QED
  BY <1>1, SoBegins, SoInvariant, PTL DEF RcSpec

-----------------------------------------------------------------------------
(* The files of the admin panel *)

Lists == SUBSET (Setup!AsNames \cup {"torn"})
AddSteps == {"new", "read", "open", "filled", "done", "dead"}
WriterRec == [at : AddSteps, ino : Nat, list : Lists]

UsersTypeOK ==
    /\ files \in [json : Nat, tmp : Nat] /\ data \in Seq(Lists)
    /\ writers \in [AsWriters -> WriterRec] /\ promised \subseteq Setup!AsNames
CertsTypeOK == pair \in [cert : Nat, key : Nat] /\ certRun \in [n : Nat, between : BOOLEAN]

\* Both names stand for files that are there, and never for the same one.
FilesApart ==
    /\ files.json <= Len(data) /\ files.tmp <= Len(data)
    /\ files.json = files.tmp => files.json = 0

\* Unless two commands have overlapped, there is one at work at most; the list
\* it is to write is that of the file and its own user, and from the moment it
\* has opened the temporary file that file is its own.
OneAdds ==
    \A w \in Setup!Working :
        /\ \A v \in Setup!Working : v = w
        /\ writers[w].list = Setup!Read \cup {AsName[w]}
        /\ writers[w].at \in {"open", "filled"} => files.tmp = writers[w].ino /\ files.tmp # 0
        /\ writers[w].at = "filled" => data[files.tmp] = writers[w].list

\* What is in the file can be read, and has every user promised.
Readable ==
    /\ files.json # 0 => data[files.json] # Setup!Torn
    /\ promised \subseteq Setup!Read

\* While one of the files is to follow the other, the other is of this run.
CertFirst == certRun.between => pair.cert = certRun.n

UsersInv ==
    /\ UsersTypeOK /\ FilesApart /\ Setup!SomeoneCanLogIn
    /\ ~overlapped => OneAdds /\ Readable
CertsInv == CertsTypeOK /\ CertFirst /\ Setup!PairMatches
AsInv == UsersInv /\ CertsInv

LEMMA AsBegins == RcInit => AsInv
<1>. SUFFICES ASSUME RcInit PROVE AsInv
  OBVIOUS
<1>. USE DEF RcInit, Setup!AsInit
<1>1. UsersTypeOK
  <2>1. << >> \in Seq(Lists)
    OBVIOUS
  <2>2. [at |-> "new", ino |-> 0, list |-> {}] \in WriterRec
    BY DEF WriterRec, AddSteps, Lists
  <2>. QED
    BY <2>1, <2>2 DEF UsersTypeOK, Setup!Absent
<1>2. FilesApart
  BY DEF FilesApart, Setup!Absent
<1>3. Setup!Working = {} /\ Setup!Read = {}
  BY DEF Setup!Working, Setup!Read, Setup!Absent
<1>4. OneAdds /\ Readable
  BY <1>3 DEF OneAdds, Readable, Setup!Absent
<1>5. Setup!SomeoneCanLogIn
  BY DEF Setup!SomeoneCanLogIn
<1>6. CertsInv
  BY DEF CertsInv, CertsTypeOK, CertFirst, Setup!PairMatches
<1>. QED
  BY <1>1, <1>2, <1>4, <1>5, <1>6 DEF AsInv, UsersInv

-----------------------------------------------------------------------------
(* The certificates *)

LEMMA CertSteps ==
    ASSUME CertsInv,
           \/ \E force \in BOOLEAN : Setup!InitCerts(force)
           \/ Setup!InitKey \/ Setup!InitDies
           \/ \E which \in {"cert", "key"} : Setup!RemovePem(which)
    PROVE  CertsInv'
<1>1. CASE \E force \in BOOLEAN : Setup!InitCerts(force)
  BY <1>1 DEF Setup!InitCerts, CertsInv, CertsTypeOK, CertFirst, Setup!PairMatches
<1>2. CASE Setup!InitKey
  BY <1>2 DEF Setup!InitKey, CertsInv, CertsTypeOK, CertFirst, Setup!PairMatches, Setup!asUsers
<1>3. CASE Setup!InitDies
  BY <1>3 DEF Setup!InitDies, CertsInv, CertsTypeOK, CertFirst, Setup!PairMatches
<1>4. CASE \E which \in {"cert", "key"} : Setup!RemovePem(which)
  BY <1>4 DEF Setup!RemovePem, CertsInv, CertsTypeOK, CertFirst, Setup!PairMatches
<1>. QED
  BY <1>1, <1>2, <1>3, <1>4

LEMMA CertsQuiet == CertsInv /\ UNCHANGED <<pair, certRun, cut>> => CertsInv'
BY DEF CertsInv, CertsTypeOK, CertFirst, Setup!PairMatches

-----------------------------------------------------------------------------
(* The users' file *)

LEMMA UsersQuiet ==
    ASSUME UsersInv, UNCHANGED <<files, data, writers, promised, overlapped>>, Setup!SomeoneCanLogIn'
    PROVE  UsersInv'
<1>1. Setup!Read' = Setup!Read /\ Setup!Working' = Setup!Working
  BY DEF Setup!Read, Setup!Working
<1>. QED
  BY <1>1 DEF UsersInv, UsersTypeOK, FilesApart, OneAdds, Readable

LEMMA AsServe == UsersInv /\ Setup!Serve => UsersInv'
<1>. SUFFICES ASSUME UsersInv, Setup!Serve PROVE UsersInv'
  OBVIOUS
<1>1. UNCHANGED <<files, data, writers, promised, overlapped>> /\ Setup!Read # {}
  BY DEF Setup!Serve, Setup!Ready, Setup!asUsers
<1>2. Setup!Read' = Setup!Read
  BY <1>1 DEF Setup!Read
<1>. QED
  BY <1>1, <1>2, UsersQuiet DEF Setup!SomeoneCanLogIn

\* The types, taken apart.
LEMMA UsersTypes ==
    ASSUME UsersInv
    PROVE  /\ files.json \in Nat /\ files.tmp \in Nat /\ files = [json |-> files.json, tmp |-> files.tmp]
           /\ data \in Seq(Lists) /\ Len(data) \in Nat
           /\ writers \in [AsWriters -> WriterRec]
           /\ \A w \in AsWriters : writers[w] \in WriterRec
           /\ promised \subseteq Setup!AsNames
           /\ \A i \in 1..Len(data) : data[i] \in Lists
           /\ Setup!Read \in Lists
<1>1. /\ files \in [json : Nat, tmp : Nat] /\ data \in Seq(Lists)
      /\ writers \in [AsWriters -> WriterRec] /\ promised \subseteq Setup!AsNames
  BY DEF UsersInv, UsersTypeOK
<1>2. \A i \in 1..Len(data) : data[i] \in Lists
  BY <1>1
<1>3. files.json <= Len(data)
  BY DEF UsersInv, FilesApart
<1>4. Setup!Read \in Lists
  <2>1. CASE files.json = 0
    BY <2>1 DEF Setup!Read, Setup!Absent, Lists
  <2>2. CASE files.json # 0
    <3>1. data[files.json] \in Lists
      BY <1>1, <1>2, <1>3, <2>2
    <3>. QED
      BY <3>1 DEF Setup!Read, Lists
  <2>. QED
    BY <2>1, <2>2
<1>. QED
  BY <1>1, <1>2, <1>4

LEMMA AsAddReads == ASSUME UsersInv, NEW w \in AsWriters, Setup!AddReads(w) PROVE UsersInv'
<1>. DEFINE new == [at |-> "read", ino |-> 0, list |-> Setup!Read \cup {AsName[w]}]
<1>1. /\ UNCHANGED <<files, data, promised, serving>> /\ writers[w].at = "new"
      /\ overlapped' = (overlapped \/ Setup!Working # {}) /\ writers' = [writers EXCEPT ![w] = new]
  BY DEF Setup!AddReads, Setup!At, Setup!Absent
<1>2. new \in WriterRec
  BY UsersTypes DEF WriterRec, AddSteps, Lists, Setup!AsNames
<1>3. new.at = "read" /\ new.list = Setup!Read \cup {AsName[w]}
  OBVIOUS
<1>. HIDE DEF new
<1>4. UsersTypeOK'
  BY <1>1, <1>2 DEF UsersInv, UsersTypeOK, Setup!AsNames
<1>5. FilesApart' /\ Setup!Read' = Setup!Read
  BY <1>1 DEF UsersInv, FilesApart, Setup!Read
<1>6. Setup!SomeoneCanLogIn'
  BY <1>1, <1>5 DEF UsersInv, Setup!SomeoneCanLogIn
<1>7. ASSUME ~overlapped' PROVE OneAdds' /\ Readable'
  <2>1. ~overlapped /\ Setup!Working = {}
    BY <1>1, <1>7
  <2>2. \A v \in AsWriters : writers'[v] = IF v = w THEN new ELSE writers[v]
    BY <1>1, UsersTypes
  <2>3. \A v \in Setup!Working' : v = w
    BY <2>1, <2>2 DEF Setup!Working
  <2>4. OneAdds'
    BY <1>3, <1>5, <2>2, <2>3 DEF OneAdds
  <2>5. Readable'
    BY <1>1, <1>5, <2>1 DEF UsersInv, Readable
  <2>. QED
    BY <2>4, <2>5
<1>. QED
  BY <1>4, <1>5, <1>6, <1>7 DEF UsersInv

LEMMA AsWriteOpens == ASSUME UsersInv, NEW w \in AsWriters, Setup!WriteOpens(w) PROVE UsersInv'
<1>. DEFINE ino == IF files.tmp = 0 THEN Len(data) + 1 ELSE files.tmp
            size == IF ino > Len(data) THEN ino ELSE Len(data)
<1>1. /\ UNCHANGED <<promised, overlapped, serving>> /\ writers[w].at = "read"
      /\ files' = [files EXCEPT !.tmp = ino]
      /\ data' = [i \in 1..size |-> IF i = ino THEN Setup!Torn ELSE data[i]]
      /\ writers' = [writers EXCEPT ![w].at = "open", ![w].ino = ino]
  BY DEF Setup!WriteOpens, Setup!OpenTmp, Setup!At, Setup!Absent
<1>2. files.tmp <= Len(data) /\ files.json <= Len(data) /\ (files.json = files.tmp => files.json = 0)
  BY DEF UsersInv, FilesApart
<1>3. ino \in Nat \ {0} /\ size \in Nat /\ ino <= size /\ Len(data) <= size
      /\ (files.json # 0 => files.json # ino)
      /\ \A i \in 1..size : i # ino => i \in 1..Len(data)
  BY <1>2, UsersTypes
<1>4. files' = [json |-> files.json, tmp |-> ino]
  BY <1>1, UsersTypes
<1>. HIDE DEF ino, size
<1>5. Setup!Torn \in Lists
  BY DEF Setup!Torn, Lists
<1>6. data' \in Seq(Lists) /\ Len(data') = size
  <2>1. \A i \in 1..size : (IF i = ino THEN Setup!Torn ELSE data[i]) \in Lists
    BY <1>3, <1>5, UsersTypes
  <2>. QED
    BY <1>1, <1>3, <2>1
<1>7. \A i \in 1..Len(data) : i # ino => data'[i] = data[i]
  BY <1>1, <1>3, UsersTypes
<1>8. \A v \in AsWriters : writers'[v] = IF v = w THEN [writers[w] EXCEPT !.at = "open", !.ino = ino] ELSE writers[v]
  BY <1>1, UsersTypes
<1>9. writers'[w].at = "open" /\ writers'[w].ino = ino /\ writers'[w].list = writers[w].list
      /\ writers'[w] \in WriterRec
  <2>. writers[w] \in WriterRec
    BY UsersTypes
  <2>. QED
    BY <1>3, <1>8 DEF WriterRec, AddSteps
<1>10. UsersTypeOK'
  <2>1. \A v \in AsWriters : writers'[v] \in WriterRec
    BY <1>8, <1>9, UsersTypes
  <2>2. writers' \in [AsWriters -> WriterRec]
    BY <1>1, <2>1, UsersTypes
  <2>. QED
    BY <1>1, <1>3, <1>4, <1>6, <2>2, UsersTypes DEF UsersTypeOK, Setup!AsNames
<1>11. FilesApart'
  BY <1>2, <1>3, <1>4, <1>6, UsersTypes DEF FilesApart
<1>12. Setup!Read' = Setup!Read
  <2>1. files'.json = files.json
    BY <1>4
  <2>2. files.json # 0 => data'[files.json] = data[files.json]
    BY <1>2, <1>3, <1>7, UsersTypes
  <2>. QED
    BY <2>1, <2>2 DEF Setup!Read, Setup!Absent, Setup!Torn
<1>13. Setup!SomeoneCanLogIn'
  BY <1>1, <1>12 DEF UsersInv, Setup!SomeoneCanLogIn
<1>14. ASSUME ~overlapped' PROVE OneAdds' /\ Readable'
  <2>1. OneAdds /\ Readable
    BY <1>1, <1>14 DEF UsersInv
  <2>2. w \in Setup!Working
    BY <1>1 DEF Setup!Working
  <2>3. \A v \in Setup!Working' : v = w
    BY <1>8, <2>1, <2>2 DEF Setup!Working, OneAdds
  <2>4. writers[w].list = Setup!Read \cup {AsName[w]}
    BY <2>1, <2>2 DEF OneAdds
  <2>5. OneAdds'
    BY <1>3, <1>4, <1>9, <1>12, <2>3, <2>4 DEF OneAdds
  <2>6. files.json # 0 => data'[files.json] = data[files.json]
    BY <1>2, <1>3, <1>7, UsersTypes
  <2>7. Readable'
    BY <1>1, <1>4, <1>12, <2>1, <2>6 DEF Readable, Setup!Torn
  <2>. QED
    BY <2>5, <2>7
<1>. QED
  BY <1>10, <1>11, <1>13, <1>14 DEF UsersInv
LEMMA AsWriteFills == ASSUME UsersInv, NEW w \in AsWriters, Setup!WriteFills(w) PROVE UsersInv'
<1>. DEFINE ino == writers[w].ino
            list == writers[w].list
<1>1. /\ UNCHANGED <<files, promised, overlapped, serving>> /\ writers[w].at = "open"
      /\ data' = [data EXCEPT ![ino] = list]
      /\ writers' = [writers EXCEPT ![w].at = "filled"]
  BY DEF Setup!WriteFills, Setup!At
<1>2. list \in Lists /\ ino \in Nat
  <2>. writers[w] \in WriterRec
    BY UsersTypes
  <2>. QED
    BY DEF WriterRec
<1>3. data' \in Seq(Lists) /\ Len(data') = Len(data)
  <2>1. data \in Seq(Lists)
    BY UsersTypes
  <2>. HIDE DEF ino, list
  <2>2. data \in [1..Len(data) -> Lists]
    BY <2>1
  <2>3. data' \in [1..Len(data) -> Lists]
    BY <1>1, <1>2, <2>2
  <2>. QED
    BY <2>1, <2>3
<1>4. /\ \A i \in 1..Len(data) : i # ino => data'[i] = data[i]
      /\ ino \in 1..Len(data) => data'[ino] = list
  BY <1>1, UsersTypes
<1>5. \A v \in AsWriters : writers'[v] = IF v = w THEN [writers[w] EXCEPT !.at = "filled"] ELSE writers[v]
  BY <1>1, UsersTypes
<1>6. writers'[w].at = "filled" /\ writers'[w].ino = ino /\ writers'[w].list = list
      /\ writers'[w] \in WriterRec
  <2>. writers[w] \in WriterRec
    BY UsersTypes
  <2>. QED
    BY <1>5 DEF WriterRec, AddSteps
<1>. HIDE DEF ino, list
<1>7. UsersTypeOK'
  <2>1. \A v \in AsWriters : writers'[v] \in WriterRec
    BY <1>5, <1>6, UsersTypes
  <2>2. writers' \in [AsWriters -> WriterRec]
    BY <1>1, <2>1, UsersTypes
  <2>. QED
    BY <1>1, <1>3, <2>2 DEF UsersInv, UsersTypeOK, Setup!AsNames
<1>8. FilesApart'
  BY <1>1, <1>3 DEF UsersInv, FilesApart
<1>9. ASSUME ~overlapped PROVE OneAdds' /\ Readable' /\ Setup!Read' = Setup!Read
  <2>1. OneAdds /\ Readable
    BY <1>9 DEF UsersInv
  <2>2. w \in Setup!Working
    BY <1>1 DEF Setup!Working
  <2>3. files.tmp = ino /\ files.tmp # 0 /\ list = Setup!Read \cup {AsName[w]}
    BY <1>1, <2>1, <2>2 DEF OneAdds, ino, list
  <2>4. files.json # ino /\ files.json <= Len(data) /\ ino \in 1..Len(data)
    BY <1>2, <2>3, UsersTypes DEF UsersInv, FilesApart
  <2>5. files.json # 0 => data'[files.json] = data[files.json]
    BY <1>4, <2>4, UsersTypes
  <2>6. Setup!Read' = Setup!Read
    BY <1>1, <2>5 DEF Setup!Read, Setup!Absent, Setup!Torn
  <2>7. \A v \in Setup!Working' : v = w
    BY <1>5, <2>1, <2>2 DEF Setup!Working, OneAdds
  <2>8. OneAdds'
    BY <1>1, <1>4, <1>6, <2>3, <2>4, <2>6, <2>7 DEF OneAdds
  <2>9. Readable'
    BY <1>1, <2>1, <2>5, <2>6 DEF Readable, Setup!Torn
  <2>. QED
    BY <2>6, <2>8, <2>9
<1>10. Setup!SomeoneCanLogIn'
  BY <1>1, <1>9 DEF UsersInv, Setup!SomeoneCanLogIn
<1>. QED
  BY <1>1, <1>7, <1>8, <1>9, <1>10 DEF UsersInv

\* A writer that ends, or dies, and leaves the files as they are.
LEMMA WriterEnds ==
    ASSUME UsersInv, NEW w \in AsWriters, UNCHANGED <<files, data, promised, overlapped, serving>>,
           NEW step \in {"done", "dead"}, writers' = [writers EXCEPT ![w].at = step]
    PROVE  UsersInv'
<1>1. \A v \in AsWriters : writers'[v] = IF v = w THEN [writers[w] EXCEPT !.at = step] ELSE writers[v]
  BY UsersTypes
<1>2. writers'[w].at = step /\ writers'[w] \in WriterRec
  <2>. writers[w] \in WriterRec
    BY UsersTypes
  <2>. QED
    BY <1>1 DEF WriterRec, AddSteps
<1>3. UsersTypeOK'
  <2>1. \A v \in AsWriters : writers'[v] \in WriterRec
    BY <1>1, <1>2, UsersTypes
  <2>2. writers' \in [AsWriters -> WriterRec]
    BY <2>1, UsersTypes
  <2>. QED
    BY <2>2 DEF UsersInv, UsersTypeOK, Setup!AsNames
<1>4. Setup!Read' = Setup!Read
  BY DEF Setup!Read
<1>5. \A v \in Setup!Working' : v \in Setup!Working /\ writers'[v] = writers[v]
  BY <1>1, <1>2 DEF Setup!Working
<1>6. OneAdds => OneAdds'
  BY <1>4, <1>5 DEF OneAdds
<1>. QED
  BY <1>3, <1>4, <1>6 DEF UsersInv, FilesApart, Readable, Setup!SomeoneCanLogIn

\* os.replace: unless commands have overlapped, what becomes the users' file is
\* the writer's own.
LEMMA AsWriteReplaces == ASSUME UsersInv, NEW w \in AsWriters, Setup!WriteReplaces(w) PROVE UsersInv'
<1>1. UNCHANGED <<data, overlapped, serving>> /\ writers[w].at = "filled"
  BY DEF Setup!WriteReplaces, Setup!At
<1>2. CASE files.tmp = 0
  BY <1>1, <1>2, WriterEnds DEF Setup!WriteReplaces, Setup!Absent
<1>3. CASE files.tmp # 0
  <2>1. /\ files' = [json |-> files.tmp, tmp |-> 0]
        /\ writers' = [writers EXCEPT ![w].at = "done"]
        /\ promised' = promised \cup {AsName[w]}
    BY <1>3 DEF Setup!WriteReplaces, Setup!Absent
  <2>2. \A v \in AsWriters : writers'[v] = IF v = w THEN [writers[w] EXCEPT !.at = "done"] ELSE writers[v]
    BY <2>1, UsersTypes
  <2>3. writers'[w].at = "done" /\ writers'[w] \in WriterRec
    <3>. writers[w] \in WriterRec
      BY UsersTypes
    <3>. QED
      BY <2>2 DEF WriterRec, AddSteps
  <2>4. UsersTypeOK'
    <3>1. \A v \in AsWriters : writers'[v] \in WriterRec
      BY <2>2, <2>3, UsersTypes
    <3>2. writers' \in [AsWriters -> WriterRec]
      BY <2>1, <3>1, UsersTypes
    <3>. QED
      BY <1>1, <2>1, <3>2, UsersTypes DEF UsersTypeOK, Setup!AsNames
  <2>5. FilesApart'
    BY <1>1, <1>3, <2>1, UsersTypes DEF UsersInv, FilesApart
  <2>6. ASSUME ~overlapped
        PROVE  OneAdds' /\ Readable' /\ Setup!Read' = Setup!Read \cup {AsName[w]}
    <3>1. OneAdds /\ Readable /\ w \in Setup!Working
      BY <1>1, <2>6 DEF UsersInv, Setup!Working
    <3>2. data[files.tmp] = Setup!Read \cup {AsName[w]}
      BY <1>1, <3>1 DEF OneAdds
    <3>3. Setup!Read \cup {AsName[w]} # Setup!Torn
      BY SetupAssumption DEF Setup!Torn
    <3>4. Setup!Read' = Setup!Read \cup {AsName[w]} /\ files'.json = files.tmp
      BY <1>1, <1>3, <2>1, <3>2, <3>3 DEF Setup!Read, Setup!Absent, Setup!Torn
    <3>5. Setup!Working' = {}
      BY <2>2, <2>3, <3>1 DEF Setup!Working, OneAdds
    <3>6. OneAdds'
      BY <3>5 DEF OneAdds
    <3>7. Readable'
      BY <1>1, <2>1, <3>1, <3>2, <3>3, <3>4 DEF Readable, Setup!Torn
    <3>. QED
      BY <3>4, <3>6, <3>7
  <2>7. Setup!SomeoneCanLogIn'
    BY <1>1, <2>6 DEF UsersInv, Setup!SomeoneCanLogIn
  <2>. QED
    BY <1>1, <2>4, <2>5, <2>6, <2>7 DEF UsersInv
<1>. QED
  BY <1>2, <1>3

LEMMA AsEnsureFile == UsersInv /\ Setup!EnsureFile => UsersInv'
<1>. SUFFICES ASSUME UsersInv, Setup!EnsureFile PROVE UsersInv'
  OBVIOUS
<1>1. /\ UNCHANGED <<writers, promised, overlapped, serving>> /\ files.json = 0 /\ files.tmp = 0
      /\ Setup!Working = {} /\ data' = Append(data, {}) /\ files' = [files EXCEPT !.json = Len(data) + 1]
  BY DEF Setup!EnsureFile, Setup!Absent
<1>2. files' = [json |-> Len(data) + 1, tmp |-> 0]
  BY <1>1, UsersTypes
<1>3. data' \in Seq(Lists) /\ Len(data') = Len(data) + 1 /\ data'[Len(data) + 1] = {}
  <2>. {} \in Lists /\ data \in Seq(Lists)
    BY UsersTypes DEF Lists
  <2>. QED
    BY <1>1
<1>4. UsersTypeOK'
  BY <1>1, <1>2, <1>3, UsersTypes DEF UsersTypeOK, Setup!AsNames
<1>5. FilesApart'
  BY <1>2, <1>3, UsersTypes DEF FilesApart
<1>6. Setup!Read = {} /\ Setup!Read' = {} /\ Setup!Working' = {}
  BY <1>1, <1>2, <1>3, UsersTypes DEF Setup!Read, Setup!Absent, Setup!Torn, Setup!Working
<1>7. OneAdds'
  BY <1>6 DEF OneAdds
<1>8. Readable => Readable'
  BY <1>1, <1>2, <1>3, <1>6 DEF Readable, Setup!Torn
<1>9. Setup!SomeoneCanLogIn'
  BY <1>1, <1>6 DEF UsersInv, Setup!SomeoneCanLogIn
<1>. QED
  BY <1>1, <1>4, <1>5, <1>7, <1>8, <1>9 DEF UsersInv

-----------------------------------------------------------------------------

LEMMA AsInvariant == AsInv /\ [RcNext]_RcVars => AsInv'
<1>. SUFFICES ASSUME UsersInv, CertsInv, [RcNext]_RcVars PROVE UsersInv' /\ CertsInv'
  BY DEF AsInv
<1>1. CASE UNCHANGED asAll
  <2>1. UNCHANGED <<files, data, writers, promised, overlapped, serving>> /\ UNCHANGED <<pair, certRun, cut>>
    BY <1>1 DEF asAll
  <2>2. Setup!SomeoneCanLogIn'
    BY <2>1 DEF UsersInv, Setup!SomeoneCanLogIn, Setup!Read
  <2>. QED
    BY <2>1, <2>2, UsersQuiet, CertsQuiet
<1>2. CASE \E w \in AsWriters :
              \/ Setup!AddReads(w) \/ Setup!WriteOpens(w) \/ Setup!WriteFills(w)
              \/ Setup!WriteReplaces(w) \/ Setup!WriterDies(w)
  <2>1. UNCHANGED <<pair, certRun, cut>>
    BY <1>2 DEF Setup!AddReads, Setup!WriteOpens, Setup!WriteFills, Setup!WriteReplaces,
                Setup!WriterDies, Setup!asCerts
  <2>2. ASSUME NEW w \in AsWriters, Setup!WriterDies(w) PROVE UsersInv'
    BY <2>2, WriterEnds DEF Setup!WriterDies
  <2>. QED
    BY <1>2, <2>1, <2>2, AsAddReads, AsWriteOpens, AsWriteFills, AsWriteReplaces, CertsQuiet
<1>3. CASE \/ \E force \in BOOLEAN : Setup!InitCerts(force)
           \/ Setup!InitKey \/ Setup!InitDies
           \/ \E which \in {"cert", "key"} : Setup!RemovePem(which)
  <2>1. UNCHANGED <<files, data, writers, promised, overlapped, serving>>
    BY <1>3 DEF Setup!InitCerts, Setup!InitKey, Setup!InitDies, Setup!RemovePem, Setup!asUsers
  <2>2. Setup!SomeoneCanLogIn'
    BY <2>1 DEF UsersInv, Setup!SomeoneCanLogIn, Setup!Read
  <2>. QED
    BY <1>3, <2>1, <2>2, CertSteps, UsersQuiet
<1>4. CASE Setup!Serve \/ Setup!EnsureFile
  <2>1. UNCHANGED <<pair, certRun, cut>>
    BY <1>4 DEF Setup!Serve, Setup!EnsureFile, Setup!asCerts
  <2>. QED
    BY <1>4, <2>1, AsServe, AsEnsureFile, CertsQuiet
<1>. QED
  BY <1>1, <1>2, <1>3, <1>4, AsSteps DEF Setup!AsNext

\* Users that were added one by one stay and can be read at every step, whatever
\* is killed; certificate and key match unless init-certs was killed between the
\* two or one was removed; a panel that is up has a user: for any number of
\* commands.
THEOREM SetupStaysSound == RcSpec => []SetupSound
<1>1. AsInv => SetupSound
  BY DEF AsInv, UsersInv, CertsInv, Readable, SetupSound, Setup!SetupSound, Setup!UsersKept, Setup!Absent
<1>. QED
  BY <1>1, AsBegins, AsInvariant, PTL DEF RcSpec

-----------------------------------------------------------------------------
(* The rotation of the log *)

OrTypeOK ==
    /\ out \in Seq(Nat) /\ backup \in [Rotator!Numbers -> Seq(Nat)]
    /\ sweep \in -2..OrBackups /\ next \in Nat \ {0} /\ faults \in Nat

\* Lines are written in their order, and never twice.
LinesRise ==
    /\ out # << >> => out[Len(out)] = next - 1
    /\ \A i \in 1..Len(out) : out[i] < next
    /\ \A n \in Rotator!Numbers : \A i \in 1..Len(backup[n]) : backup[n][i] < next

\* Where the next step of a sweep moves a backup to, there is none, unless some
\* operation has failed.
RoomMade ==
    faults = 0 /\ sweep \in 0..(OrBackups - 1) => backup[sweep + 1] = << >>

\* What is about to be truncated has been copied, or counts as lost.
CopyDone ==
    sweep = Rotator!Truncate =>
        \A l \in Rotator!Range(out) : l \in Rotator!Range(backup[1]) \cup gap

\* The conjuncts of LinesAreKept.
NoneLost ==
    \A l \in 1..(next - 1) :
        \/ l \in Rotator!Range(out) \cup aged \cup gap \cup hit
        \/ \E n \in Rotator!Numbers : l \in Rotator!Range(backup[n])
HitsBlamed == hit # {} => faults > 0
Aged ==
    faults = 0 =>
        \A m, n \in Rotator!Numbers :
            m < n /\ backup[m] # << >> /\ backup[n] # << >>
              => backup[m][Len(backup[m])] >= backup[n][Len(backup[n])]

OrInv ==
    OrTypeOK /\ LinesRise /\ RoomMade /\ CopyDone /\ NoneLost /\ HitsBlamed /\ Aged

\* Sequences and the lines in them.
LEMMA RangeIs ==
    ASSUME NEW s \in Seq(Nat)
    PROVE  Rotator!Range(s) = {s[i] : i \in 1..Len(s)}
<1>1. DOMAIN s = 1..Len(s)
  OBVIOUS
<1>. QED
  BY <1>1 DEF Rotator!Range

LEMMA RangeOfAppend ==
    ASSUME NEW s \in Seq(Nat), NEW e \in Nat
    PROVE  Rotator!Range(Append(s, e)) = Rotator!Range(s) \cup {e}
<1>. DEFINE a == Append(s, e)
<1>1. /\ a \in Seq(Nat) /\ Len(a) = Len(s) + 1 /\ a[Len(s) + 1] = e
      /\ \A i \in 1..Len(s) : a[i] = s[i]
  OBVIOUS
<1>. HIDE DEF a
<1>2. {a[i] : i \in 1..Len(a)} = {s[i] : i \in 1..Len(s)} \cup {e}
  <2>1. ASSUME NEW i \in 1..Len(a) PROVE a[i] \in {s[k] : k \in 1..Len(s)} \cup {e}
    <3>1. i = Len(s) + 1 \/ i \in 1..Len(s)
      BY <1>1
    <3>. QED
      BY <1>1, <3>1
  <2>2. e \in {a[i] : i \in 1..Len(a)}
    BY <1>1
  <2>3. ASSUME NEW k \in 1..Len(s) PROVE s[k] \in {a[i] : i \in 1..Len(a)}
    <3>1. k \in 1..Len(a) /\ a[k] = s[k]
      BY <1>1
    <3>. QED
      BY <3>1
  <2>. QED
    BY <2>1, <2>2, <2>3
<1>3. Rotator!Range(a) = {a[i] : i \in 1..Len(a)}
  BY <1>1, RangeIs
<1>4. Rotator!Range(s) = {s[i] : i \in 1..Len(s)}
  BY RangeIs
<1>. QED
  BY <1>2, <1>3, <1>4 DEF a

LEMMA AppendIs ==
    ASSUME NEW s \in Seq(Nat), NEW e \in Nat
    PROVE  /\ Append(s, e) \in Seq(Nat) /\ Len(Append(s, e)) = Len(s) + 1
           /\ Append(s, e)[Len(s) + 1] = e /\ Append(s, e) # << >>
OBVIOUS

LEMMA RangeOfPart ==
    ASSUME NEW s \in Seq(Nat), NEW k \in 0..Len(s)
    PROVE  /\ SubSeq(s, 1, k) \in Seq(Nat) /\ Len(SubSeq(s, 1, k)) = k
           /\ \A i \in 1..k : SubSeq(s, 1, k)[i] = s[i]
           /\ k = Len(s) => SubSeq(s, 1, k) = s
OBVIOUS

LEMMA OrBegins == RcInit => OrInv
<1>. SUFFICES ASSUME RcInit PROVE OrInv
  OBVIOUS
<1>. USE DEF RcInit, Rotator!OrInit
<1>1. << >> \in Seq(Nat)
  OBVIOUS
<1>2. OrTypeOK
  BY <1>1, RotatorAssumption DEF OrTypeOK, Rotator!Idle
<1>3. LinesRise
  BY DEF LinesRise
<1>4. RoomMade /\ CopyDone
  BY RotatorAssumption DEF RoomMade, CopyDone, Rotator!Idle, Rotator!Truncate, Rotator!Numbers
<1>5. NoneLost
  BY DEF NoneLost
<1>6. HitsBlamed
  BY DEF HitsBlamed
<1>7. Aged
  BY DEF Aged
<1>. QED
  BY <1>2, <1>3, <1>4, <1>5, <1>6, <1>7 DEF OrInv

LEMMA OrTypes ==
    ASSUME OrInv
    PROVE  /\ out \in Seq(Nat) /\ Len(out) \in Nat
           /\ backup \in [Rotator!Numbers -> Seq(Nat)]
           /\ \A n \in Rotator!Numbers : backup[n] \in Seq(Nat)
           /\ sweep \in Int /\ -2 <= sweep /\ sweep <= OrBackups
           /\ next \in Nat \ {0} /\ faults \in Nat
           /\ OrBackups \in Nat \ {0} /\ 1 \in Rotator!Numbers /\ OrBackups \in Rotator!Numbers
BY RotatorAssumption DEF OrInv, OrTypeOK, Rotator!Numbers

LEMMA OrWriteLine == OrInv /\ Rotator!WriteLine => OrInv'
<1>. SUFFICES ASSUME OrInv, Rotator!WriteLine PROVE OrInv'
  OBVIOUS
<1>1. /\ UNCHANGED <<backup, sweep, aged, faults, hit>>
      /\ out' = Append(out, next) /\ next' = next + 1
      /\ gap' = IF sweep = Rotator!Truncate THEN gap \cup {next} ELSE gap
  BY DEF Rotator!WriteLine
<1>2. /\ out' \in Seq(Nat) /\ Len(out') = Len(out) + 1 /\ out'[Len(out')] = next
      /\ Rotator!Range(out') = Rotator!Range(out) \cup {next}
  BY <1>1, AppendIs, RangeOfAppend, OrTypes
<1>3. OrTypeOK'
  BY <1>1, <1>2, OrTypes DEF OrInv, OrTypeOK
<1>4. LinesRise'
  <2>1. \A n \in Rotator!Numbers : \A i \in 1..Len(backup[n]) : backup[n][i] < next + 1
    <3>. SUFFICES ASSUME NEW n \in Rotator!Numbers, NEW i \in 1..Len(backup[n])
                  PROVE  backup[n][i] < next + 1
      OBVIOUS
    <3>1. backup[n][i] < next /\ backup[n][i] \in Nat
      <4>. backup[n] \in Seq(Nat)
        BY OrTypes
      <4>. QED
        BY DEF OrInv, LinesRise
    <3>. QED
      BY <3>1, OrTypes
  <2>2. \A i \in 1..Len(out') : out'[i] < next + 1
    <3>. SUFFICES ASSUME NEW i \in 1..Len(out') PROVE out'[i] < next + 1
      OBVIOUS
    <3>1. CASE i = Len(out')
      BY <1>2, <3>1, OrTypes
    <3>2. CASE i \in 1..Len(out)
      <4>1. out'[i] = out[i] /\ out[i] \in Nat
        BY <1>1, <3>2, OrTypes
      <4>2. out[i] < next
        BY <3>2 DEF OrInv, LinesRise
      <4>. QED
        BY <4>1, <4>2, OrTypes
    <3>. QED
      BY <1>2, <3>1, <3>2, OrTypes
  <2>3. out'[Len(out')] = next' - 1
    BY <1>1, <1>2, OrTypes
  <2>. QED
    BY <1>1, <2>1, <2>2, <2>3 DEF LinesRise
<1>5. RoomMade'
  BY <1>1 DEF OrInv, RoomMade
<1>6. CopyDone'
  BY <1>1, <1>2 DEF OrInv, CopyDone
<1>7. NoneLost'
  <2>. SUFFICES ASSUME NEW l \in 1..next
                PROVE  \/ l \in Rotator!Range(out') \cup aged \cup gap' \cup hit
                       \/ \E n \in Rotator!Numbers : l \in Rotator!Range(backup[n])
    BY <1>1, OrTypes DEF NoneLost
  <2>1. CASE l = next
    BY <1>2, <2>1
  <2>2. CASE l \in 1..(next - 1)
    <3>1. gap \subseteq gap' /\ Rotator!Range(out) \subseteq Rotator!Range(out')
      BY <1>1, <1>2
    <3>. QED
      BY <2>2, <3>1 DEF OrInv, NoneLost
  <2>. QED
    BY <2>1, <2>2, OrTypes
<1>8. HitsBlamed' /\ Aged'
  BY <1>1 DEF OrInv, HitsBlamed, Aged
<1>. QED
  BY <1>3, <1>4, <1>5, <1>6, <1>7, <1>8 DEF OrInv

LEMMA OrSweep == OrInv /\ Rotator!Sweep => OrInv'
<1>. SUFFICES ASSUME OrInv, Rotator!Sweep PROVE OrInv'
  OBVIOUS
<1>1. UNCHANGED <<out, backup, next, aged, gap, faults, hit>> /\ sweep' = OrBackups
  BY DEF Rotator!Sweep
<1>2. OrTypeOK'
  BY <1>1, RotatorAssumption DEF OrInv, OrTypeOK
<1>3. RoomMade' /\ CopyDone'
  BY <1>1, RotatorAssumption DEF RoomMade, CopyDone, Rotator!Truncate
<1>. QED
  BY <1>1, <1>2, <1>3 DEF OrInv, LinesRise, NoneLost, HitsBlamed, Aged

\* A sweep that ends, with nothing moved.
LEMMA OrEnds ==
    ASSUME OrInv, UNCHANGED <<out, backup, next, aged, gap, hit>>, sweep' = Rotator!Idle,
           faults' \in Nat, faults' = 0 => faults = 0
    PROVE  OrInv'
<1>1. OrTypeOK'
  BY OrTypes DEF OrInv, OrTypeOK, Rotator!Idle
<1>2. RoomMade' /\ CopyDone'
  BY RotatorAssumption DEF RoomMade, CopyDone, Rotator!Truncate, Rotator!Idle
<1>3. HitsBlamed'
  BY OrTypes DEF OrInv, HitsBlamed
<1>4. Aged'
  BY DEF OrInv, Aged
<1>. QED
  BY <1>1, <1>2, <1>3, <1>4 DEF OrInv, LinesRise, NoneLost

\* A sweep that goes on after an operation failed, with nothing moved.
LEMMA OrFails ==
    ASSUME OrInv, UNCHANGED <<out, backup, next, aged, gap, hit>>, Rotator!Fault,
           sweep' = sweep - 1, sweep > 0
    PROVE  OrInv'
<1>1. faults' = faults + 1 /\ faults' \in Nat /\ faults' > 0
  BY OrTypes DEF Rotator!Fault
<1>2. OrTypeOK'
  BY <1>1, OrTypes DEF OrInv, OrTypeOK
<1>3. RoomMade' /\ HitsBlamed' /\ Aged'
  BY <1>1 DEF RoomMade, HitsBlamed, Aged
<1>4. CopyDone'
  BY OrTypes DEF CopyDone, Rotator!Truncate
<1>. QED
  BY <1>2, <1>3, <1>4 DEF OrInv, LinesRise, NoneLost
\* Moving a backup loses no line that is not accounted for.
LEMMA MovesLoseNothing ==
    ASSUME NoneLost, UNCHANGED <<out, next, gap>>, aged \subseteq aged', hit \subseteq hit',
           \A n \in Rotator!Numbers, l \in Nat :
              l \in Rotator!Range(backup[n])
                => \/ l \in aged' \cup hit'
                   \/ \E m \in Rotator!Numbers : l \in Rotator!Range(backup'[m])
    PROVE  NoneLost'
<1>. SUFFICES ASSUME NEW l \in 1..(next - 1)
              PROVE  \/ l \in Rotator!Range(out) \cup aged' \cup gap \cup hit'
                     \/ \E n \in Rotator!Numbers : l \in Rotator!Range(backup'[n])
  BY DEF NoneLost
<1>1. CASE l \in Rotator!Range(out) \cup aged \cup gap \cup hit
  BY <1>1
<1>2. CASE \E n \in Rotator!Numbers : l \in Rotator!Range(backup[n])
  BY <1>2
<1>. QED
  BY <1>1, <1>2 DEF NoneLost

LEMMA RangeOfEmpty == Rotator!Range(<< >>) = {}
BY DEF Rotator!Range

LEMMA OrUnlinkOldest == OrInv /\ Rotator!UnlinkOldest => OrInv'
<1>. SUFFICES ASSUME OrInv, Rotator!UnlinkOldest PROVE OrInv'
  OBVIOUS
<1>1. sweep = OrBackups /\ sweep' = OrBackups - 1 /\ UNCHANGED <<out, next, gap, hit>>
  BY DEF Rotator!UnlinkOldest
<1>2. CASE Rotator!Fault /\ UNCHANGED <<aged, backup>>
  BY <1>1, <1>2, OrFails, OrTypes
<1>3. CASE /\ aged' = aged \cup Rotator!Range(backup[OrBackups])
           /\ backup' = [backup EXCEPT ![OrBackups] = << >>] /\ UNCHANGED faults
  <2>1. \A n \in Rotator!Numbers : backup'[n] = IF n = OrBackups THEN << >> ELSE backup[n]
    BY <1>3, OrTypes
  <2>2. << >> \in Seq(Nat) /\ Len(<< >>) = 0
    OBVIOUS
  <2>3. backup' \in [Rotator!Numbers -> Seq(Nat)]
    BY <1>3, <2>2, OrTypes
  <2>4. OrTypeOK'
    BY <1>1, <1>3, <2>3, OrTypes DEF OrInv, OrTypeOK
  <2>5. LinesRise'
    BY <1>1, <2>1, <2>2 DEF OrInv, LinesRise
  <2>6. RoomMade'
    BY <1>1, <2>1, OrTypes DEF RoomMade
  <2>7. CopyDone'
    BY <1>1, OrTypes DEF CopyDone, Rotator!Truncate
  <2>8. NoneLost'
    <3>1. NoneLost
      BY DEF OrInv
    <3>2. ASSUME NEW n \in Rotator!Numbers, NEW l \in Rotator!Range(backup[n])
          PROVE  l \in aged' \/ l \in Rotator!Range(backup'[n])
      BY <1>3, <2>1, <3>2
    <3>. QED
      BY <1>1, <1>3, <3>1, <3>2, MovesLoseNothing
  <2>9. HitsBlamed'
    BY <1>1, <1>3 DEF OrInv, HitsBlamed
  <2>10. Aged'
    BY <1>3, <2>1 DEF OrInv, Aged
  <2>. QED
    BY <2>4, <2>5, <2>6, <2>7, <2>8, <2>9, <2>10 DEF OrInv
<1>. QED
  BY <1>2, <1>3 DEF Rotator!UnlinkOldest

LEMMA OrShiftBackup == OrInv /\ Rotator!ShiftBackup => OrInv'
<1>. SUFFICES ASSUME OrInv, Rotator!ShiftBackup PROVE OrInv'
  OBVIOUS
<1>1. sweep \in 1..(OrBackups - 1) /\ sweep' = sweep - 1 /\ UNCHANGED <<out, next, gap>>
  BY DEF Rotator!ShiftBackup
<1>2. sweep \in Rotator!Numbers /\ sweep + 1 \in Rotator!Numbers
  BY <1>1, OrTypes DEF Rotator!Numbers
<1>3. CASE backup[sweep] = << >> /\ UNCHANGED <<backup, faults, aged, hit>>
  <2>1. OrTypeOK'
    <3>1. sweep' \in -2..OrBackups
      BY <1>1, OrTypes
    <3>. QED
      BY <1>1, <1>3, <3>1 DEF OrInv, OrTypeOK
  <2>2. RoomMade' /\ CopyDone'
    BY <1>1, <1>3, OrTypes DEF RoomMade, CopyDone, Rotator!Truncate
  <2>. QED
    BY <1>1, <1>3, <2>1, <2>2 DEF OrInv, LinesRise, NoneLost, HitsBlamed, Aged
<1>4. CASE Rotator!Fault /\ UNCHANGED <<backup, aged, hit>>
  BY <1>1, <1>4, OrFails, OrTypes
<1>5. CASE /\ backup' = [backup EXCEPT ![sweep + 1] = backup[sweep], ![sweep] = << >>]
           /\ Rotator!Replaced(sweep + 1) /\ UNCHANGED faults
  <2>1. \A n \in Rotator!Numbers :
           backup'[n] = IF n = sweep THEN << >> ELSE IF n = sweep + 1 THEN backup[sweep] ELSE backup[n]
    BY <1>2, <1>5, OrTypes
  <2>2. << >> \in Seq(Nat) /\ Len(<< >>) = 0
    OBVIOUS
  <2>3. backup' \in [Rotator!Numbers -> Seq(Nat)]
    BY <1>2, <1>5, <2>2, OrTypes
  <2>4. OrTypeOK'
    <3>1. sweep' \in -2..OrBackups
      BY <1>1, OrTypes
    <3>. QED
      BY <1>1, <1>5, <2>3, <3>1 DEF OrInv, OrTypeOK
  <2>5. LinesRise'
    BY <1>1, <1>2, <2>1, <2>2 DEF OrInv, LinesRise
  <2>6. RoomMade'
    BY <1>1, <1>2, <2>1, OrTypes DEF RoomMade
  <2>7. CopyDone'
    BY <1>1, OrTypes DEF CopyDone, Rotator!Truncate
  <2>8. aged \subseteq aged' /\ hit \subseteq hit'
        /\ Rotator!Range(backup[sweep + 1]) \subseteq aged' \cup hit'
        /\ hit' \subseteq hit \cup Rotator!Range(backup[sweep + 1])
    BY <1>5 DEF Rotator!Replaced
  <2>9. NoneLost'
    <3>1. NoneLost
      BY DEF OrInv
    <3>2. ASSUME NEW n \in Rotator!Numbers, NEW l \in Rotator!Range(backup[n])
          PROVE  \/ l \in aged' \cup hit'
                 \/ \E m \in Rotator!Numbers : l \in Rotator!Range(backup'[m])
      <4>1. CASE n = sweep
        <5>1. backup'[sweep + 1] = backup[n]
          BY <1>1, <1>2, <2>1, <4>1
        <5>. QED
          BY <1>2, <3>2, <5>1
      <4>2. CASE n = sweep + 1
        BY <2>8, <3>2, <4>2
      <4>3. CASE n # sweep /\ n # sweep + 1
        BY <2>1, <3>2, <4>3
      <4>. QED
        BY <4>1, <4>2, <4>3
    <3>. QED
      BY <1>1, <2>8, <3>1, <3>2, MovesLoseNothing
  <2>10. HitsBlamed'
    <3>1. CASE faults = 0
      <4>1. backup[sweep + 1] = << >> /\ hit = {}
        BY <1>1, <3>1, OrTypes DEF OrInv, RoomMade, HitsBlamed
      <4>. QED
        BY <2>8, <4>1, RangeOfEmpty DEF HitsBlamed
    <3>2. CASE faults # 0
      BY <1>5, <3>2, OrTypes DEF HitsBlamed
    <3>. QED
      BY <3>1, <3>2
  <2>11. Aged'
    <3>. SUFFICES ASSUME faults = 0, NEW m \in Rotator!Numbers, NEW n \in Rotator!Numbers,
                         m < n, backup'[m] # << >>, backup'[n] # << >>
                  PROVE  backup'[m][Len(backup'[m])] >= backup'[n][Len(backup'[n])]
      BY <1>5 DEF Aged
    <3>1. m # sweep /\ n # sweep
      BY <2>1
    <3>2. PICK i \in Rotator!Numbers : backup'[m] = backup[i] /\ i = (IF m = sweep + 1 THEN sweep ELSE m)
      BY <1>2, <2>1, <3>1
    <3>3. PICK j \in Rotator!Numbers : backup'[n] = backup[j] /\ j = (IF n = sweep + 1 THEN sweep ELSE n)
      BY <1>2, <2>1, <3>1
    <3>4. i < j
      BY <3>1, <3>2, <3>3, OrTypes DEF Rotator!Numbers
    <3>. QED
      BY <3>2, <3>3, <3>4 DEF OrInv, Aged
  <2>. QED
    BY <2>4, <2>5, <2>6, <2>7, <2>9, <2>10, <2>11 DEF OrInv
<1>. QED
  BY <1>3, <1>4, <1>5 DEF Rotator!ShiftBackup
LEMMA OrCopyOut == OrInv /\ Rotator!CopyOut => OrInv'
<1>. SUFFICES ASSUME OrInv, Rotator!CopyOut PROVE OrInv'
  OBVIOUS
<1>1. sweep = 0 /\ UNCHANGED <<out, next, gap>>
  BY DEF Rotator!CopyOut, Rotator!Copy
<1>2. CASE Rotator!Fault /\ sweep' = Rotator!Idle /\ UNCHANGED <<backup, aged, hit>>
  <2>1. faults' \in Nat /\ (faults' = 0 => faults = 0)
    BY <1>2, OrTypes DEF Rotator!Fault
  <2>. QED
    BY <1>1, <1>2, <2>1, OrEnds
<1>3. ASSUME NEW length \in 0..Len(out),
             backup' = [backup EXCEPT ![1] = SubSeq(out, 1, length)], Rotator!Replaced(1),
             IF length = Len(out) THEN sweep' = Rotator!Truncate /\ UNCHANGED faults
             ELSE sweep' = Rotator!Idle /\ Rotator!Fault
      PROVE  OrInv'
  <2>. DEFINE part1 == SubSeq(out, 1, length)
  <2>1. /\ part1 \in Seq(Nat) /\ Len(part1) = length /\ \A i \in 1..length : part1[i] = out[i]
        /\ length = Len(out) => part1 = out
    BY RangeOfPart, OrTypes
  <2>. HIDE DEF part1
  <2>2. \A n \in Rotator!Numbers : backup'[n] = IF n = 1 THEN part1 ELSE backup[n]
    BY <1>3, OrTypes DEF part1
  <2>3. backup' \in [Rotator!Numbers -> Seq(Nat)]
    BY <1>3, <2>1, OrTypes DEF part1
  <2>4. /\ faults' \in Nat /\ (faults' = 0 => faults = 0 /\ length = Len(out)) /\ sweep' \in {-1, -2}
        /\ sweep' = -1 => length = Len(out)
    BY <1>3, OrTypes DEF Rotator!Fault, Rotator!Idle, Rotator!Truncate
  <2>5. OrTypeOK'
    <3>1. sweep' \in -2..OrBackups
      BY <2>4, OrTypes
    <3>. QED
      BY <1>1, <2>3, <2>4, <3>1 DEF OrInv, OrTypeOK
  <2>6. LinesRise'
    <3>1. \A i \in 1..length : part1[i] < next
      <4>. SUFFICES ASSUME NEW i \in 1..length PROVE part1[i] < next
        OBVIOUS
      <4>1. i \in 1..Len(out) /\ part1[i] = out[i]
        BY <2>1, OrTypes
      <4>. QED
        BY <4>1 DEF OrInv, LinesRise
    <3>. QED
      BY <1>1, <2>1, <2>2, <3>1 DEF OrInv, LinesRise
  <2>7. RoomMade'
    BY <2>4, OrTypes DEF RoomMade
  <2>8. CopyDone'
    <3>. SUFFICES ASSUME sweep' = -1 PROVE \A l \in Rotator!Range(out) : l \in Rotator!Range(backup'[1])
      BY <1>1 DEF CopyDone, Rotator!Truncate
    <3>1. backup'[1] = out
      BY <2>1, <2>2, <2>4, OrTypes
    <3>. QED
      BY <3>1
  <2>9. aged \subseteq aged' /\ hit \subseteq hit'
        /\ Rotator!Range(backup[1]) \subseteq aged' \cup hit'
        /\ hit' \subseteq hit \cup (IF OrBackups = 1 THEN {} ELSE Rotator!Range(backup[1]))
    BY <1>3 DEF Rotator!Replaced
  <2>10. NoneLost'
    <3>1. NoneLost
      BY DEF OrInv
    <3>2. ASSUME NEW n \in Rotator!Numbers, NEW l \in Rotator!Range(backup[n])
          PROVE  l \in aged' \cup hit' \/ l \in Rotator!Range(backup'[n])
      <4>1. CASE n = 1
        BY <2>9, <3>2, <4>1
      <4>2. CASE n # 1
        BY <2>2, <3>2, <4>2
      <4>. QED
        BY <4>1, <4>2
    <3>. QED
      BY <1>1, <2>9, <3>1, <3>2, MovesLoseNothing
  <2>11. HitsBlamed'
    <3>1. CASE faults' = 0
      <4>1. backup[1] = << >> /\ hit = {}
        BY <1>1, <2>4, <3>1, OrTypes DEF OrInv, RoomMade, HitsBlamed
      <4>. QED
        BY <2>9, <4>1, RangeOfEmpty DEF HitsBlamed
    <3>2. CASE faults' # 0
      BY <2>4, <3>2 DEF HitsBlamed
    <3>. QED
      BY <3>1, <3>2
  <2>12. Aged'
    <3>. SUFFICES ASSUME faults' = 0, NEW m \in Rotator!Numbers, NEW n \in Rotator!Numbers,
                         m < n, backup'[m] # << >>, backup'[n] # << >>
                  PROVE  backup'[m][Len(backup'[m])] >= backup'[n][Len(backup'[n])]
      BY DEF Aged
    <3>1. backup'[n] = backup[n] /\ n # 1
      BY <2>2 DEF Rotator!Numbers
    <3>2. CASE m = 1
      <4>1. backup'[m] = out /\ out # << >>
        BY <2>1, <2>2, <2>4, <3>2
      <4>2. out[Len(out)] = next - 1
        BY <4>1 DEF OrInv, LinesRise
      <4>3. backup[n] \in Seq(Nat) /\ Len(backup[n]) \in 1..Len(backup[n])
        BY <3>1, OrTypes
      <4>4. backup[n][Len(backup[n])] < next /\ backup[n][Len(backup[n])] \in Nat
        BY <4>3 DEF OrInv, LinesRise
      <4>. QED
        BY <3>1, <4>1, <4>2, <4>4, OrTypes
    <3>3. CASE m # 1
      BY <2>2, <2>4, <3>1, <3>3 DEF OrInv, Aged
    <3>. QED
      BY <3>2, <3>3
  <2>. QED
    BY <2>5, <2>6, <2>7, <2>8, <2>10, <2>11, <2>12 DEF OrInv
<1>. QED
  BY <1>2, <1>3 DEF Rotator!CopyOut

LEMMA OrTruncateOut == OrInv /\ Rotator!TruncateOut => OrInv'
<1>. SUFFICES ASSUME OrInv, Rotator!TruncateOut PROVE OrInv'
  OBVIOUS
<1>1. sweep = Rotator!Truncate /\ sweep' = Rotator!Idle /\ UNCHANGED <<backup, next, aged, gap, hit>>
  BY DEF Rotator!TruncateOut
<1>2. CASE Rotator!Fault /\ UNCHANGED out
  <2>1. faults' \in Nat /\ (faults' = 0 => faults = 0)
    BY <1>2, OrTypes DEF Rotator!Fault
  <2>. QED
    BY <1>1, <1>2, <2>1, OrEnds
<1>3. CASE out' = << >> /\ UNCHANGED faults
  <2>1. << >> \in Seq(Nat) /\ Len(<< >>) = 0
    OBVIOUS
  <2>2. OrTypeOK'
    BY <1>1, <1>3, <2>1, OrTypes DEF OrInv, OrTypeOK, Rotator!Idle
  <2>3. LinesRise'
    BY <1>1, <1>3, <2>1 DEF OrInv, LinesRise
  <2>4. RoomMade' /\ CopyDone'
    BY <1>1, OrTypes DEF RoomMade, CopyDone, Rotator!Truncate, Rotator!Idle
  <2>5. NoneLost'
    <3>. SUFFICES ASSUME NEW l \in 1..(next - 1)
                  PROVE  \/ l \in aged \cup gap \cup hit
                         \/ \E n \in Rotator!Numbers : l \in Rotator!Range(backup[n])
      BY <1>1 DEF NoneLost
    <3>1. l \in Rotator!Range(out) => l \in Rotator!Range(backup[1]) \cup gap
      BY <1>1 DEF OrInv, CopyDone
    <3>2. \/ l \in Rotator!Range(out) \cup aged \cup gap \cup hit
          \/ \E n \in Rotator!Numbers : l \in Rotator!Range(backup[n])
      BY DEF OrInv, NoneLost
    <3>. QED
      BY <3>1, <3>2, OrTypes
  <2>6. HitsBlamed' /\ Aged'
    BY <1>1, <1>3 DEF OrInv, HitsBlamed, Aged
  <2>. QED
    BY <2>2, <2>3, <2>4, <2>5, <2>6 DEF OrInv
<1>. QED
  BY <1>2, <1>3 DEF Rotator!TruncateOut

LEMMA OrInvariant == OrInv /\ [RcNext]_RcVars => OrInv'
<1>. SUFFICES ASSUME OrInv, [RcNext]_RcVars PROVE OrInv'
  OBVIOUS
<1>1. CASE UNCHANGED orAll
  <2>1. UNCHANGED <<out, backup, sweep, next, aged, gap, faults, hit>>
    BY <1>1 DEF orAll
  <2>2. OrTypeOK' /\ LinesRise'
    BY <2>1 DEF OrInv, OrTypeOK, LinesRise
  <2>3. RoomMade' /\ CopyDone' /\ NoneLost'
    BY <2>1 DEF OrInv, RoomMade, CopyDone, NoneLost
  <2>4. HitsBlamed' /\ Aged'
    BY <2>1 DEF OrInv, HitsBlamed, Aged
  <2>. QED
    BY <2>2, <2>3, <2>4 DEF OrInv
<1>2. CASE Rotator!KillSweep
  <2>1. UNCHANGED <<out, backup, next, aged, gap, faults, hit>> /\ sweep' = Rotator!Idle
    BY <1>2 DEF Rotator!KillSweep
  <2>. QED
    BY <2>1, OrEnds, OrTypes
<1>. QED
  BY <1>1, <1>2, OrSteps, OrWriteLine, OrSweep, OrUnlinkOldest, OrShiftBackup, OrCopyOut,
     OrTruncateOut DEF Rotator!OrNext

\* Rotation loses no line but those that went with the oldest backup, between
\* copy and truncation, or under a backup that could not be shifted, and keeps
\* the backups in order while nothing fails: for any number of backups, lines
\* and failures.
THEOREM LinesStayKept == RcSpec => []LinesAreKept
<1>1. OrInv => LinesAreKept
  <2>. SUFFICES ASSUME OrInv PROVE Rotator!LinesAreKept
    BY DEF LinesAreKept
  <2>1. /\ NoneLost /\ HitsBlamed /\ Aged
    BY DEF OrInv
  <2>. QED
    BY <2>1 DEF Rotator!LinesAreKept, Rotator!Last, NoneLost, HitsBlamed, Aged
<1>. QED
  BY <1>1, OrBegins, OrInvariant, PTL DEF RcSpec

-----------------------------------------------------------------------------
(* The debug logs *)

LoggerOf(kind) == IF kind = "call" THEN "call" ELSE "http"

FileTyped(f) ==
    /\ f.session \in ClSessions /\ f.name.kind \in {"call", "request", "response"}
    /\ f.nth \in Nat /\ f.name.ts \in Nat /\ f.name.seq \in Nat /\ f.name.sfx \in Nat
    /\ f.has.id \in Nat /\ f.has.index \in Nat

\* What has been written is numbered, and the next number, moment and suffix
\* are beyond those of all the files there are.
FilesInv ==
    /\ seqNo \in [Logs!Loggers -> [ClSessions -> Nat]] /\ time \in Nat
    /\ IsFiniteSet(logFiles)
    /\ \A f \in logFiles :
          /\ FileTyped(f)
          /\ f.name.sfx <= Cardinality(logFiles) /\ f.nth <= Cardinality(Logs!Of(f.session))
          /\ f.name.ts <= time /\ f.name.seq <= seqNo[LoggerOf(f.name.kind)][f.session]
    /\ Logs!NamesSort

CallRec ==
    [id : Nat, session : ClSessions, try : Nat, index : Nat,
     at : {"ready", "sent", "answered"}, parts : {Logs!Payload(ClParts[s]) : s \in ClSessions}]

\* Calls have ids of their own, which no ended call has, and a context that
\* carries the same.
CallsInv ==
    /\ logged \in [ClTasks -> CallRec \cup {Logs!NoCall}]
    /\ ctx \in [ClTasks -> [id : Nat, index : Nat]]
    /\ made \in Nat /\ count \in [written : Nat, ended : SUBSET Nat]
    /\ IsFiniteSet(count.ended) /\ \A i \in count.ended : i <= made
    /\ \A f \in logFiles : f.has.id <= made
    /\ \A t \in ClTasks :
          /\ ctx[t] # Logs!NoCtx => logged[t] # Logs!NoCall /\ ctx[t].id = logged[t].id
          /\ logged[t] # Logs!NoCall =>
                /\ logged[t].id \in 1..made /\ logged[t].id \notin count.ended
                /\ \A u \in ClTasks : logged[u] # Logs!NoCall /\ logged[u].id = logged[t].id => u = t

\* A request that is out has its file, and no response yet.
RequestFiled ==
    \A t \in ClTasks :
        ctx[t] # Logs!NoCtx =>
            /\ logged[t].at = "sent" =>
                  /\ logged[t].index = ctx[t].index
                  /\ \E q \in logFiles :
                        /\ q.name.kind = "request" /\ q.has.id = ctx[t].id
                        /\ q.has.index = ctx[t].index /\ q.session = logged[t].session
            /\ \A r \in logFiles :
                  r.name.kind = "response" /\ r.has.id = ctx[t].id =>
                      /\ r.has.index <= ctx[t].index
                      /\ logged[t].at = "sent" => r.has.index < ctx[t].index

ClInv ==
    /\ FilesInv /\ CallsInv /\ RequestFiled
    /\ Logs!NothingOverwritten /\ Logs!ResponsesPaired /\ Logs!CallsLogged

\* An instance has a copy of its own of the operators that its module extends.
LEMMA LogsCount == \A S : Logs!Cardinality(S) = Cardinality(S)
BY DEF Logs!Cardinality, Cardinality

LEMMA ClBegins == RcInit => ClInv
<1>. SUFFICES ASSUME RcInit PROVE ClInv
  OBVIOUS
<1>. USE DEF RcInit, Logs!ClInit
<1>1. IsFiniteSet({}) /\ Cardinality({}) = 0 /\ Logs!Cardinality({}) = 0
  BY FS_EmptySet, LogsCount
<1>2. FilesInv
  BY <1>1 DEF FilesInv, Logs!NamesSort
<1>3. CallsInv
  <2>1. Logs!NoCtx \in [id : Nat, index : Nat]
    BY DEF Logs!NoCtx
  <2>. QED
    BY <1>1, <2>1 DEF CallsInv
<1>4. RequestFiled
  BY DEF RequestFiled
<1>5. Logs!NothingOverwritten /\ Logs!ResponsesPaired
  BY <1>1 DEF Logs!NothingOverwritten, Logs!ResponsesPaired
<1>6. Logs!CallsLogged
  <2>1. {f \in logFiles : f.name.kind = "call"} = {}
    OBVIOUS
  <2>. QED
    BY <1>1, <2>1 DEF Logs!CallsLogged
<1>. QED
  BY <1>2, <1>3, <1>4, <1>5, <1>6 DEF ClInv

\* What a write leaves: one file more, with a name that no file had, whose
\* number, moment and suffix are beyond those of the others.
Written(f, logger, s, kind, content) ==
    /\ f \notin logFiles /\ logFiles' = logFiles \cup {f}
    /\ f.session = s /\ f.has = content
    /\ f.name.kind = kind /\ f.name.ts = time /\ f.name.seq = seqNo[logger][s] + 1
    /\ f.name.sfx \in {0, Cardinality(logFiles) + 1} /\ f.nth = Cardinality(Logs!Of(s)) + 1
    /\ seqNo' = [seqNo EXCEPT ![logger][s] = seqNo[logger][s] + 1]

LEMMA WriteAdds ==
    ASSUME FilesInv, NEW logger, NEW s, NEW kind, NEW content,
           Logs!Write(logger, s, kind, content)
    PROVE  \E f : Written(f, logger, s, kind, content)
<1>. DEFINE plain == [dir |-> ClDir[s], ts |-> time, seq |-> seqNo[logger][s] + 1,
                      kind |-> kind, sfx |-> 0]
            free == Logs!FreeName(plain)
            f == [name |-> free, nth |-> Cardinality(Logs!Of(s)) + 1, session |-> s, has |-> content]
<1>1. /\ seqNo' = [seqNo EXCEPT ![logger][s] = seqNo[logger][s] + 1]
      /\ logFiles' = {g \in logFiles : g.name # free} \cup {f}
  BY LogsCount DEF Logs!Write
<1>2. free = IF plain \in {g.name : g \in logFiles} THEN [plain EXCEPT !.sfx = Cardinality(logFiles) + 1]
             ELSE plain
  BY LogsCount DEF Logs!FreeName, Logs!Suffixed
<1>3. /\ free.ts = time /\ free.seq = seqNo[logger][s] + 1 /\ free.kind = kind
      /\ free.sfx \in {0, Cardinality(logFiles) + 1}
  BY <1>2
<1>4. \A g \in logFiles : g.name # free
  <2>. SUFFICES ASSUME NEW g \in logFiles, g.name = free PROVE FALSE
    OBVIOUS
  <2>1. plain \in {h.name : h \in logFiles}
    BY <1>2
  <2>2. g.name.sfx = Cardinality(logFiles) + 1
    BY <1>2, <2>1
  <2>3. g.name.sfx <= Cardinality(logFiles) /\ g.name.sfx \in Nat /\ Cardinality(logFiles) \in Nat
    BY FS_CardinalityType DEF FilesInv, FileTyped
  <2>. QED
    BY <2>2, <2>3
<1>. HIDE DEF free
<1>5. f.name = free /\ f.session = s /\ f.has = content /\ f.nth = Cardinality(Logs!Of(s)) + 1
  OBVIOUS
<1>. HIDE DEF f
<1>6. f \notin logFiles /\ logFiles' = logFiles \cup {f}
  BY <1>1, <1>4, <1>5
<1>. QED
  BY <1>1, <1>3, <1>5, <1>6 DEF Written

LEMMA FilesGrow ==
    ASSUME FilesInv, NEW f, NEW logger \in Logs!Loggers, NEW s \in ClSessions,
           NEW kind \in {"call", "request", "response"}, logger = LoggerOf(kind),
           NEW content, content.id \in Nat, content.index \in Nat,
           Written(f, logger, s, kind, content), time' = time
    PROVE  /\ FilesInv' /\ Cardinality(logFiles') = Cardinality(logFiles) + 1
           /\ \A g \in logFiles : g.session = s => g.nth < f.nth
<1>. USE DEF Written
<1>1. Cardinality(logFiles) \in Nat /\ IsFiniteSet(logFiles')
      /\ Cardinality(logFiles') = Cardinality(logFiles) + 1
  BY FS_AddElement, FS_CardinalityType DEF FilesInv
<1>2. \A t : /\ IsFiniteSet(Logs!Of(t)) /\ Cardinality(Logs!Of(t)) \in Nat
             /\ Cardinality(Logs!Of(t)) <= Cardinality(logFiles)
  BY FS_Subset, FS_CardinalityType DEF FilesInv, Logs!Of
<1>3. Logs!Of(s)' = Logs!Of(s) \cup {f} /\ f \notin Logs!Of(s)
  BY DEF Logs!Of
<1>4. Cardinality(Logs!Of(s)') = Cardinality(Logs!Of(s)) + 1
  BY <1>2, <1>3, FS_AddElement
<1>5. \A t : t # s => Logs!Of(t)' = Logs!Of(t)
  BY DEF Logs!Of
<1>6. \A g \in logFiles : /\ FileTyped(g) /\ g.name.sfx <= Cardinality(logFiles)
                          /\ g.nth <= Cardinality(Logs!Of(g.session)) /\ g.name.ts <= time
                          /\ g.name.seq <= seqNo[LoggerOf(g.name.kind)][g.session]
  BY DEF FilesInv
<1>7. seqNo \in [Logs!Loggers -> [ClSessions -> Nat]] /\ time \in Nat
  BY DEF FilesInv
<1>8. seqNo[logger][s] \in Nat
  BY <1>7
<1>9. seqNo' \in [Logs!Loggers -> [ClSessions -> Nat]]
  BY <1>7, <1>8
<1>10. \A l \in Logs!Loggers, t \in ClSessions :
          seqNo'[l][t] = IF l = logger /\ t = s THEN seqNo[logger][s] + 1 ELSE seqNo[l][t]
  BY <1>7
<1>11. FileTyped(f)
  BY <1>1, <1>2, <1>7, <1>8 DEF FileTyped
<1>12. ASSUME NEW g \in logFiles'
       PROVE  /\ FileTyped(g) /\ g.name.sfx <= Cardinality(logFiles')
              /\ g.nth <= Cardinality(Logs!Of(g.session)') /\ g.name.ts <= time
              /\ g.name.seq <= seqNo'[LoggerOf(g.name.kind)][g.session]
  <2>1. CASE g = f
    <3>1. g.name.sfx <= Cardinality(logFiles') /\ g.name.ts <= time
      BY <1>1, <1>7, <2>1
    <3>2. g.nth <= Cardinality(Logs!Of(g.session)')
      BY <1>2, <1>4, <2>1
    <3>3. g.name.seq <= seqNo'[LoggerOf(g.name.kind)][g.session]
      BY <1>8, <1>10, <2>1
    <3>. QED
      BY <1>11, <2>1, <3>1, <3>2, <3>3
  <2>2. CASE g \in logFiles
    <3>0. FileTyped(g) /\ g.session \in ClSessions /\ LoggerOf(g.name.kind) \in Logs!Loggers
          /\ g.name.sfx \in Nat /\ g.nth \in Nat /\ g.name.seq \in Nat
      BY <1>6, <2>2 DEF FileTyped, LoggerOf, Logs!Loggers
    <3>1. g.name.sfx <= Cardinality(logFiles')
      BY <1>1, <1>6, <2>2, <3>0
    <3>2. g.nth <= Cardinality(Logs!Of(g.session)')
      BY <1>2, <1>4, <1>5, <1>6, <2>2, <3>0
    <3>3. g.name.seq <= seqNo'[LoggerOf(g.name.kind)][g.session]
      BY <1>6, <1>8, <1>10, <2>2, <3>0
    <3>. QED
      BY <1>6, <2>2, <3>0, <3>1, <3>2, <3>3
  <2>. QED
    BY <2>1, <2>2
<1>13. \A g \in logFiles : g.session = s => g.nth < f.nth
  <2>. SUFFICES ASSUME NEW g \in logFiles, g.session = s PROVE g.nth < f.nth
    OBVIOUS
  <2>1. g.nth \in Nat /\ g.nth <= Cardinality(Logs!Of(s))
    BY <1>6 DEF FileTyped
  <2>. QED
    BY <1>2, <2>1
<1>14. Logs!NamesSort'
  <2>. SUFFICES ASSUME NEW g \in logFiles', NEW h \in logFiles', g.session = h.session, g.nth < h.nth,
                       g.name.kind = "call" <=> h.name.kind = "call",
                       g.name.seq < ClDigits /\ h.name.seq < ClDigits
                PROVE  Logs!Before(g.name, h.name)
    BY DEF Logs!NamesSort
  <2>1. CASE g \in logFiles /\ h \in logFiles
    BY <2>1 DEF FilesInv, Logs!NamesSort
  <2>2. CASE g \in logFiles /\ h = f
    <3>1. LoggerOf(g.name.kind) = logger /\ g.session = s
      BY <2>2 DEF LoggerOf
    <3>2. g.name.ts <= time /\ g.name.seq <= seqNo[logger][s] /\ g.name.ts \in Nat /\ g.name.seq \in Nat
      BY <1>6, <2>2, <3>1 DEF FileTyped
    <3>3. h.name.ts = time /\ h.name.seq = seqNo[logger][s] + 1
      BY <2>2
    <3>4. g.name.seq < h.name.seq /\ g.name.ts <= h.name.ts
      BY <1>8, <3>2, <3>3
    <3>5. h.name.ts \in Nat
      BY <1>7, <3>3
    <3>6. g.name.ts < h.name.ts \/ g.name.ts = h.name.ts
      BY <3>2, <3>4, <3>5
    <3>. QED
      BY <3>4, <3>6 DEF Logs!Before
  <2>3. CASE g = f /\ h \in logFiles
    <3>1. h.nth < f.nth /\ h.nth \in Nat /\ f.nth \in Nat
      BY <1>6, <1>11, <1>13, <2>3 DEF FileTyped
    <3>. QED
      BY <2>3, <3>1
  <2>4. CASE g = f /\ h = f
    BY <1>11, <2>4 DEF FileTyped
  <2>. QED
    BY <2>1, <2>2, <2>3, <2>4
<1>. QED
  BY <1>1, <1>7, <1>9, <1>12, <1>13, <1>14 DEF FilesInv
\* Without a write the files stay sound, whatever the clock does.
LEMMA FilesStay ==
    ASSUME FilesInv, UNCHANGED <<logFiles, seqNo>>, time' \in Nat, time' >= time
    PROVE  FilesInv'
<1>1. \A t : Logs!Of(t)' = Logs!Of(t)
  BY DEF Logs!Of
<1>2. \A f \in logFiles : f.name.ts <= time'
  BY DEF FilesInv, FileTyped
<1>3. Logs!NamesSort'
  BY DEF FilesInv, Logs!NamesSort
<1>. QED
  BY <1>1, <1>2, <1>3 DEF FilesInv

LEMMA PropertiesStay ==
    ASSUME ClInv, UNCHANGED <<logFiles, count>>
    PROVE  Logs!NothingOverwritten' /\ Logs!ResponsesPaired' /\ Logs!CallsLogged'
BY DEF ClInv, Logs!NothingOverwritten, Logs!ResponsesPaired, Logs!CallsLogged

LEMMA PairedStays ==
    ASSUME Logs!ResponsesPaired, NEW f, logFiles' = logFiles \cup {f}, f.name.kind # "response"
    PROVE  Logs!ResponsesPaired'
<1>. SUFFICES ASSUME NEW r \in logFiles', r.name.kind = "response"
              PROVE  /\ \E q \in logFiles' : /\ q.name.kind = "request" /\ q.has.id = r.has.id
                                             /\ q.has.index = r.has.index /\ q.nth < r.nth
                     /\ \A x \in logFiles' : x.name.kind = "response" /\ x.has.id = r.has.id
                                             /\ x.has.index = r.has.index => x = r
  BY DEF Logs!ResponsesPaired
<1>1. r \in {g \in logFiles : g.name.kind = "response"}
  OBVIOUS
<1>. QED
  BY <1>1 DEF Logs!ResponsesPaired

LEMMA LogsStay ==
    ASSUME Logs!CallsLogged, NEW f, logFiles' = logFiles \cup {f}, f.name.kind # "call",
           count'.ended = count.ended
    PROVE  Logs!CallsLogged'
<1>1. {g \in logFiles' : g.name.kind = "call"} = {g \in logFiles : g.name.kind = "call"}
  OBVIOUS
<1>. QED
  BY <1>1 DEF Logs!CallsLogged

\* The types, taken apart, and what is known of a task that makes a call.
LEMMA CallTypes ==
    ASSUME CallsInv, NEW t \in ClTasks
    PROVE  /\ logged[t] \in CallRec \cup {Logs!NoCall} /\ ctx[t] \in [id : Nat, index : Nat]
           /\ (logged[t].at # "idle" => logged[t] # Logs!NoCall /\ logged[t] \in CallRec)
           /\ (logged[t] # Logs!NoCall => logged[t] \in CallRec /\ logged[t].at # "idle")
           /\ made \in Nat /\ count.written \in Nat
<1>1. /\ logged \in [ClTasks -> CallRec \cup {Logs!NoCall}] /\ ctx \in [ClTasks -> [id : Nat, index : Nat]]
      /\ made \in Nat /\ count \in [written : Nat, ended : SUBSET Nat]
  BY DEF CallsInv
<1>2. logged[t] \in CallRec \cup {Logs!NoCall} /\ ctx[t] \in [id : Nat, index : Nat] /\ count.written \in Nat
  BY <1>1
<1>3. logged[t] \in CallRec => logged[t].at # "idle"
  BY DEF CallRec
<1>4. Logs!NoCall.at = "idle"
  BY DEF Logs!NoCall
<1>. QED
  BY <1>1, <1>2, <1>3, <1>4

LEMMA ClBegin == ASSUME ClInv, NEW t \in ClTasks, Logs!Begin(t) PROVE ClInv'
<1>1. /\ logged[t] = Logs!NoCall /\ made' = made + 1
      /\ ctx' = [ctx EXCEPT ![t] = IF http THEN [id |-> made + 1, index |-> 0] ELSE ctx[t]]
      /\ UNCHANGED <<seqNo, logFiles, time, count>>
  BY DEF Logs!Begin
<1>2. PICK s \in ClSessionOf[t] :
         logged' = [logged EXCEPT ![t] = [id |-> made + 1, session |-> s, try |-> 0, index |-> 0,
                                          at |-> "ready", parts |-> Logs!Payload(ClParts[s])]]
  BY DEF Logs!Begin
<1>. DEFINE new == [id |-> made + 1, session |-> s, try |-> 0, index |-> 0,
                    at |-> "ready", parts |-> Logs!Payload(ClParts[s])]
<1>3. made \in Nat /\ s \in ClSessions
  BY LogsAssumption DEF ClInv, CallsInv
<1>5. new \in CallRec /\ new.id = made + 1 /\ new.at = "ready"
  BY <1>3 DEF CallRec
<1>. HIDE DEF new
<1>6. \A u \in ClTasks : logged'[u] = IF u = t THEN new ELSE logged[u]
  BY <1>2 DEF ClInv, CallsInv, new
<1>7. \A u \in ClTasks : ctx'[u] = IF u = t /\ http THEN [id |-> made + 1, index |-> 0] ELSE ctx[u]
  BY <1>1 DEF ClInv, CallsInv
<1>8. ctx[t] = Logs!NoCtx
  BY <1>1 DEF ClInv, CallsInv
<1>9. CallsInv'
  <2>1. logged' \in [ClTasks -> CallRec \cup {Logs!NoCall}]
    BY <1>2, <1>5 DEF ClInv, CallsInv, new
  <2>2. ctx' \in [ClTasks -> [id : Nat, index : Nat]]
    BY <1>1, <1>3 DEF ClInv, CallsInv
  <2>3. /\ made' \in Nat /\ count' \in [written : Nat, ended : SUBSET Nat] /\ IsFiniteSet(count'.ended)
    BY <1>1, <1>3 DEF ClInv, CallsInv
  <2>4. \A i \in count'.ended : i <= made' /\ i # made'
    <3>. SUFFICES ASSUME NEW i \in count.ended PROVE i <= made + 1 /\ i # made + 1
      BY <1>1
    <3>1. i \in Nat /\ i <= made
      BY DEF ClInv, CallsInv
    <3>. QED
      BY <1>3, <3>1
  <2>5. \A f \in logFiles' : f.has.id <= made'
    <3>. SUFFICES ASSUME NEW f \in logFiles PROVE f.has.id <= made + 1
      BY <1>1
    <3>1. f.has.id \in Nat /\ f.has.id <= made
      BY DEF ClInv, CallsInv, FilesInv, FileTyped
    <3>. QED
      BY <1>3, <3>1
  <2>6. ASSUME NEW u \in ClTasks, u # t, logged[u] # Logs!NoCall
        PROVE  logged[u].id \in 1..made
    BY <2>6 DEF ClInv, CallsInv
  <2>7. ASSUME NEW u \in ClTasks
        PROVE  /\ ctx'[u] # Logs!NoCtx => logged'[u] # Logs!NoCall /\ ctx'[u].id = logged'[u].id
               /\ logged'[u] # Logs!NoCall =>
                     /\ logged'[u].id \in 1..made' /\ logged'[u].id \notin count'.ended
                     /\ \A v \in ClTasks :
                           logged'[v] # Logs!NoCall /\ logged'[v].id = logged'[u].id => v = u
    <3>1. CASE u = t
      <4>1. new # Logs!NoCall
        <5>1. Logs!NoCall.at = "idle"
          BY DEF Logs!NoCall
        <5>. QED
          BY <1>5, <5>1
      <4>2. ctx'[t] # Logs!NoCtx => ctx'[t].id = new.id
        BY <1>5, <1>7, <1>8
      <4>3. new.id \in 1..made' /\ new.id \notin count'.ended
        BY <1>1, <1>3, <1>5, <2>4
      <4>4. \A v \in ClTasks : v # t /\ logged'[v] # Logs!NoCall => logged'[v].id # new.id
        <5>. SUFFICES ASSUME NEW v \in ClTasks, v # t, logged[v] # Logs!NoCall PROVE logged[v].id # made + 1
          BY <1>5, <1>6
        <5>. QED
          BY <1>3, <2>6
      <4>. QED
        BY <1>6, <3>1, <4>1, <4>2, <4>3, <4>4
    <3>2. CASE u # t
      <4>1. ctx'[u] = ctx[u] /\ logged'[u] = logged[u]
        BY <1>6, <1>7, <3>2
      <4>2. logged[u] # Logs!NoCall => logged[u].id # made + 1 /\ logged[u].id \in 1..(made + 1)
        BY <1>3, <2>6, <3>2
      <4>. QED
        BY <1>1, <1>5, <1>6, <3>2, <4>1, <4>2 DEF ClInv, CallsInv
    <3>. QED
      BY <3>1, <3>2
  <2>. QED
    BY <2>1, <2>2, <2>3, <2>4, <2>5, <2>7 DEF CallsInv
<1>10. RequestFiled'
  <2>. SUFFICES ASSUME NEW u \in ClTasks, ctx'[u] # Logs!NoCtx
                PROVE  /\ logged'[u].at = "sent" =>
                             /\ logged'[u].index = ctx'[u].index
                             /\ \E q \in logFiles :
                                   /\ q.name.kind = "request" /\ q.has.id = ctx'[u].id
                                   /\ q.has.index = ctx'[u].index /\ q.session = logged'[u].session
                       /\ \A r \in logFiles :
                             r.name.kind = "response" /\ r.has.id = ctx'[u].id =>
                                 /\ r.has.index <= ctx'[u].index
                                 /\ logged'[u].at = "sent" => r.has.index < ctx'[u].index
    BY <1>1 DEF RequestFiled
  <2>1. CASE u = t
    <3>1. ctx'[u].id = made + 1 /\ logged'[u].at = "ready"
      BY <1>5, <1>6, <1>7, <1>8, <2>1
    <3>2. \A r \in logFiles : r.has.id # made + 1
      <4>. SUFFICES ASSUME NEW r \in logFiles PROVE r.has.id # made + 1
        OBVIOUS
      <4>1. r.has.id \in Nat /\ r.has.id <= made
        BY DEF ClInv, CallsInv, FilesInv, FileTyped
      <4>. QED
        BY <1>3, <4>1
    <3>. QED
      BY <3>1, <3>2
  <2>2. CASE u # t
    BY <1>6, <1>7, <2>2 DEF ClInv, RequestFiled
  <2>. QED
    BY <2>1, <2>2
<1>11. FilesInv'
  <2>. time \in Nat /\ time >= time
    BY DEF ClInv, FilesInv
  <2>. QED
    BY <1>1, FilesStay DEF ClInv
<1>. QED
  BY <1>1, <1>9, <1>10, <1>11, PropertiesStay DEF ClInv

\* A step of the call of one task, with its id, session and contents as before.
LEMMA CallGoesOn ==
    ASSUME CallsInv, NEW t \in ClTasks, logged[t] # Logs!NoCall,
           NEW new \in CallRec, new.id = logged[t].id, logged' = [logged EXCEPT ![t] = new],
           NEW at \in Nat,
           ctx' = [ctx EXCEPT ![t] = IF ctx[t] = Logs!NoCtx THEN ctx[t] ELSE [id |-> ctx[t].id, index |-> at]],
           made' = made, count' \in [written : Nat, ended : SUBSET Nat], count'.ended = count.ended,
           \A f \in logFiles' : f.has.id <= made
    PROVE  CallsInv'
<1>1. \A u \in ClTasks : logged'[u] = IF u = t THEN new ELSE logged[u]
  BY DEF CallsInv
<1>2. \A u \in ClTasks : ctx'[u] = IF u = t /\ ctx[t] # Logs!NoCtx THEN [id |-> ctx[t].id, index |-> at] ELSE ctx[u]
  BY DEF CallsInv
<1>3. new # Logs!NoCall
  <2>1. Logs!NoCall.at = "idle" /\ new.at # "idle"
    BY DEF Logs!NoCall, CallRec
  <2>. QED
    BY <2>1
<1>4. logged' \in [ClTasks -> CallRec \cup {Logs!NoCall}]
  BY DEF CallsInv
<1>5. ctx' \in [ClTasks -> [id : Nat, index : Nat]]
  <2>1. \A u \in ClTasks : ctx'[u] \in [id : Nat, index : Nat]
    BY <1>2 DEF CallsInv
  <2>. QED
    BY <2>1 DEF CallsInv
<1>6. \A u \in ClTasks : (logged'[u] # Logs!NoCall <=> logged[u] # Logs!NoCall)
                         /\ (logged[u] # Logs!NoCall => logged'[u].id = logged[u].id)
  BY <1>1, <1>3
<1>7. \A u \in ClTasks : ctx'[u] # Logs!NoCtx => ctx[u] # Logs!NoCtx /\ ctx'[u].id = ctx[u].id
  BY <1>2
<1>. QED
  BY <1>4, <1>5, <1>6, <1>7 DEF CallsInv

\* What is known of the requests of a task stays as it is when the call of
\* another one goes on.
LEMMA OthersStay ==
    ASSUME CallsInv, RequestFiled, NEW t \in ClTasks, NEW u \in ClTasks, u # t,
           ctx'[u] = ctx[u], logged'[u] = logged[u], ctx'[u] # Logs!NoCtx, logFiles \subseteq logFiles',
           \A r \in logFiles' \ logFiles : r.name.kind # "response"
               \/ (logged[t] # Logs!NoCall /\ r.has.id = logged[t].id)
    PROVE  /\ logged'[u].at = "sent" =>
                 /\ logged'[u].index = ctx'[u].index
                 /\ \E q \in logFiles' :
                       /\ q.name.kind = "request" /\ q.has.id = ctx'[u].id
                       /\ q.has.index = ctx'[u].index /\ q.session = logged'[u].session
           /\ \A r \in logFiles' :
                 r.name.kind = "response" /\ r.has.id = ctx'[u].id =>
                     /\ r.has.index <= ctx'[u].index
                     /\ logged'[u].at = "sent" => r.has.index < ctx'[u].index
<1>1. logged[u] # Logs!NoCall /\ ctx[u].id = logged[u].id
  BY DEF CallsInv
<1>2. logged[t] # Logs!NoCall => logged[t].id # ctx[u].id
  BY <1>1 DEF CallsInv
<1>3. \A r \in logFiles' : r.name.kind = "response" /\ r.has.id = ctx[u].id => r \in logFiles
  BY <1>2
<1>. QED
  BY <1>3 DEF RequestFiled

LEMMA ClSendRequest == ASSUME ClInv, NEW t \in ClTasks, Logs!SendRequest(t) PROVE ClInv'
<1>. USE DEF ClInv
<1>1. logged[t].at = "ready" /\ made' = made /\ time' = time
  BY DEF Logs!SendRequest
<1>0. logged' = [logged EXCEPT ![t] = [logged[t] EXCEPT !.try = logged[t].try + 1,
                                          !.index = ctx'[t].index, !.at = "sent"]]
  BY DEF Logs!SendRequest
<1>2. /\ logged[t] # Logs!NoCall /\ logged[t] \in CallRec /\ ctx[t] \in [id : Nat, index : Nat]
      /\ count.written \in Nat /\ made \in Nat
  BY <1>1, CallTypes
<1>. DEFINE new == [logged[t] EXCEPT !.try = logged[t].try + 1, !.index = ctx'[t].index, !.at = "sent"]
<1>3. ASSUME ctx'[t].index \in Nat
      PROVE  /\ new \in CallRec /\ new.id = logged[t].id /\ new.session = logged[t].session
             /\ new.index = ctx'[t].index
  <2>1. logged[t].try + 1 \in Nat /\ "sent" \in {"ready", "sent", "answered"}
    BY <1>2 DEF CallRec
  <2>. QED
    BY <1>2, <1>3, <2>1 DEF CallRec
<1>4. logged' = [logged EXCEPT ![t] = new] /\ logged'[t] = new
  BY <1>0 DEF CallsInv
<1>. HIDE DEF new
<1>5. \A u \in ClTasks : u # t => logged'[u] = logged[u]
  BY <1>0 DEF CallsInv
<1>6. CASE ctx[t] # Logs!NoCtx
  <2>1. /\ ctx' = [ctx EXCEPT ![t].index = ctx[t].index + 1]
        /\ Logs!Write("http", logged[t].session, "request",
                      [id |-> ctx[t].id, index |-> ctx[t].index + 1, parts |-> {}])
        /\ count' = [count EXCEPT !.written = count.written + 1]
    BY <1>6 DEF Logs!SendRequest, Logs!NoteIndex, Logs!WriteRequest
  <2>. DEFINE content == [id |-> ctx[t].id, index |-> ctx[t].index + 1, parts |-> {}]
              s == logged[t].session
  <2>2. PICK f : Written(f, "http", s, "request", content)
    BY <2>1, WriteAdds
  <2>3. content.id = ctx[t].id /\ content.index = ctx[t].index + 1 /\ content.id \in Nat
        /\ content.index \in Nat /\ s \in ClSessions /\ s = logged[t].session
    BY <1>2 DEF CallRec
  <2>. HIDE DEF content, s
  <2>4. FilesInv' /\ Cardinality(logFiles') = Cardinality(logFiles) + 1
    <3>1. "http" \in Logs!Loggers /\ "request" \in {"call", "request", "response"}
          /\ "http" = LoggerOf("request")
      BY DEF Logs!Loggers, LoggerOf
    <3>. QED
      BY <1>1, <2>2, <2>3, <3>1, FilesGrow
  <2>5. logFiles' = logFiles \cup {f} /\ f.name.kind = "request" /\ f.has = content /\ f.session = s
    BY <2>2 DEF Written
  <2>6. /\ ctx' = [ctx EXCEPT ![t] = [id |-> ctx[t].id, index |-> ctx[t].index + 1]]
        /\ ctx'[t].id = ctx[t].id /\ ctx'[t].index = ctx[t].index + 1 /\ ctx'[t].index \in Nat
    <3>1. [ctx[t] EXCEPT !.index = ctx[t].index + 1] = [id |-> ctx[t].id, index |-> ctx[t].index + 1]
      BY <1>2
    <3>2. ctx' = [ctx EXCEPT ![t] = [ctx[t] EXCEPT !.index = ctx[t].index + 1]]
      BY <2>1
    <3>3. ctx' = [ctx EXCEPT ![t] = [id |-> ctx[t].id, index |-> ctx[t].index + 1]]
      BY <3>1, <3>2
    <3>4. ctx'[t] = [id |-> ctx[t].id, index |-> ctx[t].index + 1]
      BY <3>3 DEF CallsInv
    <3>5. ctx[t].index + 1 \in Nat
      BY <1>2
    <3>. QED
      BY <3>3, <3>4, <3>5
  <2>7. ctx[t].id = logged[t].id /\ logged[t].id <= made
    BY <1>2, <1>6 DEF CallsInv
  <2>8. count'.ended = count.ended /\ count' \in [written : Nat, ended : SUBSET Nat]
        /\ count'.written = count.written + 1
    BY <1>2, <2>1 DEF CallsInv
  <2>9. CallsInv'
    <3>1. \A g \in logFiles' : g.has.id <= made
      BY <2>3, <2>5, <2>7 DEF CallsInv
    <3>. QED
      BY <1>1, <1>2, <1>3, <1>4, <1>6, <2>3, <2>6, <2>8, <3>1, CallGoesOn
  <2>10. RequestFiled'
    <3>. SUFFICES ASSUME NEW u \in ClTasks, ctx'[u] # Logs!NoCtx
                  PROVE  /\ logged'[u].at = "sent" =>
                               /\ logged'[u].index = ctx'[u].index
                               /\ \E q \in logFiles' :
                                     /\ q.name.kind = "request" /\ q.has.id = ctx'[u].id
                                     /\ q.has.index = ctx'[u].index /\ q.session = logged'[u].session
                         /\ \A r \in logFiles' :
                               r.name.kind = "response" /\ r.has.id = ctx'[u].id =>
                                   /\ r.has.index <= ctx'[u].index
                                   /\ logged'[u].at = "sent" => r.has.index < ctx'[u].index
      BY DEF RequestFiled
    <3>1. CASE u # t
      <4>1. ctx'[u] = ctx[u] /\ logged'[u] = logged[u]
        BY <1>5, <2>6, <3>1 DEF CallsInv
      <4>2. logFiles \subseteq logFiles' /\ \A r \in logFiles' \ logFiles : r.name.kind # "response"
        BY <2>5
      <4>. QED
        BY <3>1, <4>1, <4>2, OthersStay
    <3>2. CASE u = t
      <4>1. f \in logFiles' /\ f.name.kind = "request" /\ f.has.id = ctx'[t].id
            /\ f.has.index = ctx'[t].index /\ f.session = new.session
        BY <1>3, <2>3, <2>5, <2>6
      <4>2. logged'[t].index = ctx'[t].index
        BY <1>3, <1>4, <2>6
      <4>3. ASSUME NEW r \in logFiles', r.name.kind = "response", r.has.id = ctx'[t].id
            PROVE  r.has.index < ctx'[t].index /\ r.has.index <= ctx'[t].index
        <5>1. r \in logFiles /\ r.has.index <= ctx[t].index
          BY <1>6, <2>5, <2>6, <4>3 DEF RequestFiled
        <5>2. r.has.index \in Nat
          BY <5>1 DEF FilesInv, FileTyped
        <5>. QED
          BY <1>2, <2>6, <5>1, <5>2
      <4>. QED
        BY <1>4, <3>2, <4>1, <4>2, <4>3
    <3>. QED
      BY <3>1, <3>2
  <2>11. Logs!NothingOverwritten'
    BY <2>4, <2>8, LogsCount DEF Logs!NothingOverwritten
  <2>12. Logs!ResponsesPaired' /\ Logs!CallsLogged'
    BY <2>5, <2>8, PairedStays, LogsStay
  <2>. QED
    BY <2>4, <2>9, <2>10, <2>11, <2>12
<1>7. CASE ctx[t] = Logs!NoCtx
  <2>1. ctx' = ctx /\ UNCHANGED <<seqNo, logFiles, count>>
    BY <1>7 DEF Logs!SendRequest
  <2>2. CallsInv'
    <3>1. ctx' = [ctx EXCEPT ![t] = IF ctx[t] = Logs!NoCtx THEN ctx[t] ELSE [id |-> ctx[t].id, index |-> 0]]
      BY <1>7, <2>1 DEF CallsInv
    <3>2. ctx'[t].index \in Nat
      BY <1>2, <2>1
    <3>3. count' \in [written : Nat, ended : SUBSET Nat] /\ count'.ended = count.ended
          /\ \A f \in logFiles' : f.has.id <= made
      BY <2>1 DEF CallsInv
    <3>. QED
      BY <1>1, <1>2, <1>3, <1>4, <3>1, <3>2, <3>3, CallGoesOn
  <2>3. RequestFiled'
    BY <1>5, <1>7, <2>1 DEF RequestFiled
  <2>. QED
    BY <1>1, <2>1, <2>2, <2>3, FilesStay, PropertiesStay DEF FilesInv
<1>. QED
  BY <1>6, <1>7

LEMMA ClRespond == ASSUME ClInv, NEW t \in ClTasks, Logs!Respond(t) PROVE ClInv'
<1>. USE DEF ClInv
<1>1. logged[t].at = "sent" /\ made' = made /\ time' = time /\ ctx' = ctx
  BY DEF Logs!Respond
<1>2. PICK at \in {"ready", "answered"} : logged' = [logged EXCEPT ![t].at = at]
  BY DEF Logs!Respond
<1>3. /\ logged[t] # Logs!NoCall /\ logged[t] \in CallRec /\ ctx[t] \in [id : Nat, index : Nat]
      /\ count.written \in Nat /\ made \in Nat
  BY <1>1, CallTypes
<1>. DEFINE new == [logged[t] EXCEPT !.at = at]
<1>4. new \in CallRec /\ new.id = logged[t].id /\ new.at # "sent"
  BY <1>3 DEF CallRec
<1>5. logged' = [logged EXCEPT ![t] = new] /\ logged'[t] = new
  BY <1>2 DEF CallsInv
<1>. HIDE DEF new
<1>6. \A u \in ClTasks : u # t => logged'[u] = logged[u]
  BY <1>2 DEF CallsInv
<1>7. ASSUME count' \in [written : Nat, ended : SUBSET Nat], count'.ended = count.ended,
             \A g \in logFiles' : g.has.id <= made
      PROVE  CallsInv'
  <2>1. ctx' = [ctx EXCEPT ![t] = IF ctx[t] = Logs!NoCtx THEN ctx[t]
                                  ELSE [id |-> ctx[t].id, index |-> ctx[t].index]]
    <3>1. ctx[t] = [id |-> ctx[t].id, index |-> ctx[t].index]
      BY <1>3
    <3>. QED
      BY <1>1, <3>1 DEF CallsInv
  <2>2. ctx[t].index \in Nat
    BY <1>3
  <2>. QED
    BY <1>1, <1>3, <1>4, <1>5, <1>7, <2>1, <2>2, CallGoesOn
<1>8. CASE ctx[t] # Logs!NoCtx
  <2>. DEFINE content == [id |-> ctx[t].id, index |-> logged[t].index, parts |-> {}]
              s == logged[t].session
  <2>1. /\ Logs!Write("http", s, "response", content)
        /\ count' = [count EXCEPT !.written = count.written + 1]
    BY <1>8 DEF Logs!Respond, Logs!WriteResponse
  <2>2. PICK f : Written(f, "http", s, "response", content)
    BY <2>1, WriteAdds
  <2>3. /\ content.id = ctx[t].id /\ content.index = ctx[t].index /\ content.id \in Nat
        /\ content.index \in Nat /\ s \in ClSessions /\ s = logged[t].session
    BY <1>1, <1>3, <1>8 DEF CallRec, RequestFiled
  <2>. HIDE DEF content, s
  <2>4. /\ FilesInv' /\ Cardinality(logFiles') = Cardinality(logFiles) + 1
        /\ \A g \in logFiles : g.session = s => g.nth < f.nth
    <3>1. "http" \in Logs!Loggers /\ "response" \in {"call", "request", "response"}
          /\ "http" = LoggerOf("response")
      BY DEF Logs!Loggers, LoggerOf
    <3>. QED
      BY <1>1, <2>2, <2>3, <3>1, FilesGrow
  <2>5. /\ logFiles' = logFiles \cup {f} /\ f \notin logFiles /\ f.name.kind = "response"
        /\ f.has = content /\ f.session = s
    BY <2>2 DEF Written
  <2>6. ctx[t].id = logged[t].id /\ logged[t].id <= made
    BY <1>3, <1>8 DEF CallsInv
  <2>7. count'.ended = count.ended /\ count' \in [written : Nat, ended : SUBSET Nat]
        /\ count'.written = count.written + 1
    BY <1>3, <2>1 DEF CallsInv
  <2>8. CallsInv'
    <3>1. \A g \in logFiles' : g.has.id <= made
      BY <2>3, <2>5, <2>6 DEF CallsInv
    <3>. QED
      BY <1>7, <2>7, <3>1
  <2>9. RequestFiled'
    <3>. SUFFICES ASSUME NEW u \in ClTasks, ctx'[u] # Logs!NoCtx
                  PROVE  /\ logged'[u].at = "sent" =>
                               /\ logged'[u].index = ctx'[u].index
                               /\ \E q \in logFiles' :
                                     /\ q.name.kind = "request" /\ q.has.id = ctx'[u].id
                                     /\ q.has.index = ctx'[u].index /\ q.session = logged'[u].session
                         /\ \A r \in logFiles' :
                               r.name.kind = "response" /\ r.has.id = ctx'[u].id =>
                                   /\ r.has.index <= ctx'[u].index
                                   /\ logged'[u].at = "sent" => r.has.index < ctx'[u].index
      BY DEF RequestFiled
    <3>1. CASE u # t
      <4>1. logFiles \subseteq logFiles' /\ \A r \in logFiles' \ logFiles : r.has.id = logged[t].id
        BY <2>3, <2>5, <2>6
      <4>. QED
        BY <1>1, <1>3, <1>6, <3>1, <4>1, OthersStay
    <3>2. CASE u = t
      <4>1. ASSUME NEW r \in logFiles', r.name.kind = "response", r.has.id = ctx[t].id
            PROVE  r.has.index <= ctx[t].index
        <5>1. CASE r = f
          BY <1>3, <2>3, <2>5, <5>1
        <5>2. CASE r \in logFiles
          BY <1>8, <4>1, <5>2 DEF RequestFiled
        <5>. QED
          BY <2>5, <5>1, <5>2
      <4>. QED
        BY <1>1, <1>4, <1>5, <3>2, <4>1
    <3>. QED
      BY <3>1, <3>2
  <2>10. Logs!NothingOverwritten'
    BY <2>4, <2>7, LogsCount DEF Logs!NothingOverwritten
  <2>11. Logs!CallsLogged'
    BY <2>5, <2>7, LogsStay
  <2>12. \A r \in logFiles : r.name.kind = "response" /\ r.has.id = ctx[t].id => r.has.index # ctx[t].index
    <3>. SUFFICES ASSUME NEW r \in logFiles, r.name.kind = "response", r.has.id = ctx[t].id
                  PROVE  r.has.index # ctx[t].index
      OBVIOUS
    <3>1. r.has.index < ctx[t].index
      BY <1>1, <1>8 DEF RequestFiled
    <3>. QED
      BY <1>3, <3>1
  <2>13. PICK q \in logFiles : /\ q.name.kind = "request" /\ q.has.id = ctx[t].id
                              /\ q.has.index = ctx[t].index /\ q.session = s
    BY <1>1, <1>8, <2>3 DEF RequestFiled
  <2>14. Logs!ResponsesPaired'
    <3>. SUFFICES ASSUME NEW r \in logFiles', r.name.kind = "response"
                  PROVE  /\ \E w \in logFiles' : /\ w.name.kind = "request" /\ w.has.id = r.has.id
                                                 /\ w.has.index = r.has.index /\ w.nth < r.nth
                         /\ \A x \in logFiles' : x.name.kind = "response" /\ x.has.id = r.has.id
                                                 /\ x.has.index = r.has.index => x = r
      BY DEF Logs!ResponsesPaired
    <3>1. CASE r = f
      <4>1. q \in logFiles' /\ q.nth < f.nth
        BY <2>4, <2>5, <2>13
      <4>2. \A x \in logFiles' : x.name.kind = "response" /\ x.has.id = f.has.id
                                 /\ x.has.index = f.has.index => x = f
        BY <2>3, <2>5, <2>12
      <4>. QED
        BY <2>3, <2>5, <2>13, <3>1, <4>1, <4>2
    <3>2. CASE r \in logFiles
      <4>1. /\ \E w \in logFiles : /\ w.name.kind = "request" /\ w.has.id = r.has.id
                                   /\ w.has.index = r.has.index /\ w.nth < r.nth
            /\ \A x \in logFiles : x.name.kind = "response" /\ x.has.id = r.has.id
                                   /\ x.has.index = r.has.index => x = r
        BY <3>2 DEF Logs!ResponsesPaired
      <4>2. ~(f.has.id = r.has.id /\ f.has.index = r.has.index)
        BY <2>3, <2>5, <2>12, <3>2
      <4>. QED
        BY <2>5, <4>1, <4>2
    <3>. QED
      BY <2>5, <3>1, <3>2
  <2>. QED
    BY <2>4, <2>8, <2>9, <2>10, <2>11, <2>14
<1>9. CASE ctx[t] = Logs!NoCtx
  <2>1. UNCHANGED <<seqNo, logFiles, count>>
    BY <1>9 DEF Logs!Respond
  <2>2. CallsInv'
    BY <1>7, <2>1 DEF CallsInv
  <2>3. RequestFiled'
    BY <1>1, <1>6, <1>9, <2>1 DEF RequestFiled
  <2>. QED
    BY <1>1, <2>1, <2>2, <2>3, FilesStay, PropertiesStay DEF FilesInv
<1>. QED
  BY <1>8, <1>9

LEMMA ClBreak == ASSUME ClInv, NEW t \in ClTasks, Logs!Break(t) PROVE ClInv'
<1>. USE DEF ClInv
<1>1. /\ logged[t].at = "sent" /\ logged' = [logged EXCEPT ![t].at = "ready"]
      /\ UNCHANGED <<seqNo, ctx, logFiles, time, made, count>>
  BY DEF Logs!Break
<1>2. /\ logged[t] # Logs!NoCall /\ logged[t] \in CallRec /\ ctx[t] \in [id : Nat, index : Nat]
  BY <1>1, CallTypes
<1>. DEFINE new == [logged[t] EXCEPT !.at = "ready"]
<1>3. new \in CallRec /\ new.id = logged[t].id /\ new.at # "sent"
  BY <1>2 DEF CallRec
<1>4. logged' = [logged EXCEPT ![t] = new] /\ logged'[t] = new
  BY <1>1 DEF CallsInv
<1>. HIDE DEF new
<1>5. \A u \in ClTasks : u # t => logged'[u] = logged[u]
  BY <1>1 DEF CallsInv
<1>6. CallsInv'
  <2>1. ctx' = [ctx EXCEPT ![t] = IF ctx[t] = Logs!NoCtx THEN ctx[t]
                                  ELSE [id |-> ctx[t].id, index |-> ctx[t].index]]
    <3>1. ctx[t] = [id |-> ctx[t].id, index |-> ctx[t].index]
      BY <1>2
    <3>. QED
      BY <1>1, <3>1 DEF CallsInv
  <2>2. ctx[t].index \in Nat
    BY <1>2
  <2>3. count' \in [written : Nat, ended : SUBSET Nat] /\ count'.ended = count.ended
        /\ \A f \in logFiles' : f.has.id <= made
    BY <1>1 DEF CallsInv
  <2>. QED
    BY <1>1, <1>2, <1>3, <1>4, <2>1, <2>2, <2>3, CallGoesOn
<1>7. RequestFiled'
  <2>. SUFFICES ASSUME NEW u \in ClTasks, ctx'[u] # Logs!NoCtx
                  PROVE  /\ logged'[u].at = "sent" =>
                               /\ logged'[u].index = ctx'[u].index
                               /\ \E q \in logFiles' :
                                     /\ q.name.kind = "request" /\ q.has.id = ctx'[u].id
                                     /\ q.has.index = ctx'[u].index /\ q.session = logged'[u].session
                         /\ \A r \in logFiles' :
                               r.name.kind = "response" /\ r.has.id = ctx'[u].id =>
                                   /\ r.has.index <= ctx'[u].index
                                   /\ logged'[u].at = "sent" => r.has.index < ctx'[u].index
    BY DEF RequestFiled
  <2>1. CASE u = t
    BY <1>1, <1>3, <1>4, <2>1 DEF RequestFiled
  <2>2. CASE u # t
    BY <1>1, <1>5, <2>2 DEF RequestFiled
  <2>. QED
    BY <2>1, <2>2
<1>. QED
  BY <1>1, <1>6, <1>7, FilesStay, PropertiesStay DEF FilesInv

\* The call of a task ends, with or without a log.
LEMMA CallEnds ==
    ASSUME CallsInv, NEW t \in ClTasks, logged[t] # Logs!NoCall,
           ctx' = [ctx EXCEPT ![t] = Logs!NoCtx], logged' = [logged EXCEPT ![t] = Logs!NoCall],
           made' = made, count' \in [written : Nat, ended : SUBSET Nat],
           count'.ended = count.ended \/ count'.ended = count.ended \cup {logged[t].id},
           \A f \in logFiles' : f.has.id <= made
    PROVE  CallsInv'
<1>1. \A u \in ClTasks : logged'[u] = IF u = t THEN Logs!NoCall ELSE logged[u]
  BY DEF CallsInv
<1>2. \A u \in ClTasks : ctx'[u] = IF u = t THEN Logs!NoCtx ELSE ctx[u]
  BY DEF CallsInv
<1>3. logged' \in [ClTasks -> CallRec \cup {Logs!NoCall}]
  BY DEF CallsInv
<1>4. ctx' \in [ClTasks -> [id : Nat, index : Nat]]
  <2>1. Logs!NoCtx \in [id : Nat, index : Nat]
    BY DEF Logs!NoCtx
  <2>. QED
    BY <2>1 DEF CallsInv
<1>5. IsFiniteSet(count'.ended)
  BY FS_AddElement DEF CallsInv
<1>6. \A i \in count'.ended : i <= made
  BY DEF CallsInv
<1>7. ASSUME NEW u \in ClTasks, logged'[u] # Logs!NoCall
      PROVE  /\ logged'[u].id \in 1..made /\ logged'[u].id \notin count'.ended
             /\ \A v \in ClTasks : logged'[v] # Logs!NoCall /\ logged'[v].id = logged'[u].id => v = u
  <2>1. u # t /\ logged'[u] = logged[u]
    BY <1>1, <1>7
  <2>2. logged[u].id # logged[t].id
    BY <1>7, <2>1 DEF CallsInv
  <2>. QED
    BY <1>1, <1>7, <2>1, <2>2 DEF CallsInv
<1>8. \A u \in ClTasks : ctx'[u] # Logs!NoCtx => logged'[u] # Logs!NoCall /\ ctx'[u].id = logged'[u].id
  BY <1>1, <1>2 DEF CallsInv
<1>9. made' \in Nat
  BY DEF CallsInv
<1>. QED
  BY <1>3, <1>4, <1>5, <1>6, <1>7, <1>8, <1>9 DEF CallsInv

LEMMA ClCancel == ASSUME ClInv, NEW t \in ClTasks, Logs!CancelCall(t) PROVE ClInv'
<1>. USE DEF ClInv
<1>1. /\ logged[t] # Logs!NoCall /\ logged' = [logged EXCEPT ![t] = Logs!NoCall]
      /\ ctx' = [ctx EXCEPT ![t] = Logs!NoCtx] /\ UNCHANGED <<seqNo, logFiles, time, made, count>>
  BY DEF Logs!CancelCall, Logs!ResetCtx
<1>2. CallsInv'
  <2>1. count' \in [written : Nat, ended : SUBSET Nat] /\ count'.ended = count.ended
        /\ \A f \in logFiles' : f.has.id <= made
    BY <1>1 DEF CallsInv
  <2>. QED
    BY <1>1, <2>1, CallEnds
<1>3. RequestFiled'
  <2>1. \A u \in ClTasks : ctx'[u] # Logs!NoCtx => ctx'[u] = ctx[u] /\ logged'[u] = logged[u]
    BY <1>1 DEF CallsInv
  <2>. QED
    BY <1>1, <2>1 DEF RequestFiled
<1>. QED
  BY <1>1, <1>2, <1>3, FilesStay, PropertiesStay DEF FilesInv

LEMMA ClFinish == ASSUME ClInv, NEW t \in ClTasks, Logs!Finish(t) PROVE ClInv'
<1>. USE DEF ClInv
<1>1. /\ logged[t].at # "idle" /\ logged' = [logged EXCEPT ![t] = Logs!NoCall]
      /\ ctx' = [ctx EXCEPT ![t] = Logs!NoCtx] /\ UNCHANGED <<time, made>>
  BY DEF Logs!Finish, Logs!ResetCtx
<1>2. /\ logged[t] # Logs!NoCall /\ logged[t] \in CallRec /\ count.written \in Nat
  BY <1>1, CallTypes
<1>3. \A u \in ClTasks : ctx'[u] # Logs!NoCtx => u # t /\ ctx'[u] = ctx[u] /\ logged'[u] = logged[u]
  BY <1>1 DEF CallsInv
<1>4. CASE debug
  <2>. DEFINE content == [id |-> logged[t].id, index |-> 0, parts |-> Logs!Redacted(logged[t].parts)]
              s == logged[t].session
  <2>1. /\ Logs!Write("call", s, "call", content)
        /\ count' = [written |-> count.written + 1, ended |-> count.ended \cup {logged[t].id}]
    BY <1>4 DEF Logs!Finish
  <2>2. PICK f : Written(f, "call", s, "call", content)
    BY <2>1, WriteAdds
  <2>3. /\ content.id = logged[t].id /\ content.index = 0 /\ content.id \in Nat
        /\ content.index \in Nat /\ s \in ClSessions
        /\ "picture" \notin content.parts
    BY <1>2 DEF CallRec, Logs!Redacted
  <2>. HIDE DEF content, s
  <2>4. FilesInv' /\ Cardinality(logFiles') = Cardinality(logFiles) + 1
    <3>1. "call" \in Logs!Loggers /\ "call" \in {"call", "request", "response"}
          /\ "call" = LoggerOf("call")
      BY DEF Logs!Loggers, LoggerOf
    <3>. QED
      BY <1>1, <2>2, <2>3, <3>1, FilesGrow
  <2>5. logFiles' = logFiles \cup {f} /\ f \notin logFiles /\ f.name.kind = "call" /\ f.has = content
    BY <2>2 DEF Written
  <2>6. logged[t].id <= made /\ logged[t].id \notin count.ended
    BY <1>2 DEF CallsInv
  <2>7. CallsInv'
    <3>1. \A g \in logFiles' : g.has.id <= made
      BY <2>3, <2>5, <2>6 DEF CallsInv
    <3>2. count.ended \cup {logged[t].id} \in SUBSET Nat /\ count.written + 1 \in Nat
      BY <1>2, <2>3 DEF CallsInv
    <3>3. count' \in [written : Nat, ended : SUBSET Nat]
          /\ count'.ended = count.ended \cup {logged[t].id}
      BY <2>1, <3>2
    <3>. QED
      BY <1>1, <1>2, <3>1, <3>3, CallEnds
  <2>8. RequestFiled'
    <3>. SUFFICES ASSUME NEW u \in ClTasks, ctx'[u] # Logs!NoCtx
                  PROVE  /\ logged'[u].at = "sent" =>
                               /\ logged'[u].index = ctx'[u].index
                               /\ \E q \in logFiles' :
                                     /\ q.name.kind = "request" /\ q.has.id = ctx'[u].id
                                     /\ q.has.index = ctx'[u].index /\ q.session = logged'[u].session
                         /\ \A r \in logFiles' :
                               r.name.kind = "response" /\ r.has.id = ctx'[u].id =>
                                   /\ r.has.index <= ctx'[u].index
                                   /\ logged'[u].at = "sent" => r.has.index < ctx'[u].index
      BY DEF RequestFiled
    <3>1. logFiles \subseteq logFiles' /\ \A r \in logFiles' \ logFiles : r.name.kind # "response"
      BY <2>5
    <3>. QED
      BY <1>3, <3>1, OthersStay
  <2>9. Logs!NothingOverwritten'
    BY <2>1, <2>4, LogsCount DEF Logs!NothingOverwritten
  <2>10. Logs!ResponsesPaired'
    BY <2>5, PairedStays
  <2>11. Logs!CallsLogged'
    <3>. DEFINE logs == {g \in logFiles : g.name.kind = "call"}
                new == {g \in logFiles' : g.name.kind = "call"}
    <3>1. new = logs \cup {f} /\ f \notin logs
      BY <2>5
    <3>2. /\ {g.has.id : g \in logs} = count.ended /\ Cardinality(logs) = Cardinality(count.ended)
          /\ \A g \in logs : "picture" \notin g.has.parts
      BY LogsCount DEF Logs!CallsLogged
    <3>3. IsFiniteSet(logs) /\ IsFiniteSet(count.ended)
      BY FS_Subset DEF FilesInv, CallsInv
    <3>4. count'.ended = count.ended \cup {logged[t].id}
      BY <2>1
    <3>. HIDE DEF logs, new
    <3>5. Cardinality(new) = Cardinality(logs) + 1
          /\ Cardinality(count'.ended) = Cardinality(count.ended) + 1
      BY <2>6, <3>1, <3>3, <3>4, FS_AddElement
    <3>6. {g.has.id : g \in new} = count'.ended
      BY <2>3, <2>5, <3>1, <3>2, <3>4
    <3>7. \A g \in new : "picture" \notin g.has.parts
      BY <2>3, <2>5, <3>1, <3>2
    <3>8. Cardinality(new) = Cardinality(count'.ended)
      BY <3>2, <3>5
    <3>. QED
      BY <3>6, <3>7, <3>8, LogsCount DEF Logs!CallsLogged, new
  <2>. QED
    BY <2>4, <2>7, <2>8, <2>9, <2>10, <2>11
<1>5. CASE ~debug
  <2>1. UNCHANGED <<seqNo, logFiles, count>>
    BY <1>5 DEF Logs!Finish
  <2>2. CallsInv'
    <3>1. count' \in [written : Nat, ended : SUBSET Nat] /\ count'.ended = count.ended
          /\ \A f \in logFiles' : f.has.id <= made
      BY <2>1 DEF CallsInv
    <3>. QED
      BY <1>1, <1>2, <3>1, CallEnds
  <2>3. RequestFiled'
    BY <1>3, <2>1 DEF RequestFiled
  <2>. QED
    BY <1>1, <2>1, <2>2, <2>3, FilesStay, PropertiesStay DEF FilesInv
<1>. QED
  BY <1>4, <1>5

\* Steps that leave the calls and the files alone.
LEMMA ClIdle ==
    ASSUME ClInv, UNCHANGED <<seqNo, ctx, logged, logFiles, made, count>>, time' \in Nat, time' >= time
    PROVE  ClInv'
<1>1. FilesInv'
  BY FilesStay DEF ClInv
<1>2. CallsInv' /\ RequestFiled'
  BY DEF ClInv, CallsInv, RequestFiled
<1>. QED
  BY <1>1, <1>2, PropertiesStay DEF ClInv

\* Every file that a call leaves is there: none is written over, whoever shares a
\* directory and whatever the clock shows; a response is filed behind its request;
\* a call that ended has its log, without pictures; and names sort as written.
THEOREM CallLogsStaySound == RcSpec => []CallLogsSound
<1>1. RcInit => ClInv
  BY ClBegins
<1>2. ASSUME ClInv, [RcNext]_RcVars PROVE ClInv'
  <2>1. Logs!ClNext \/ UNCHANGED clAll
    BY <1>2, ClSteps
  <2>2. time \in Nat
    BY <1>2 DEF ClInv, FilesInv
  <2>3. CASE UNCHANGED clAll
    BY <1>2, <2>2, <2>3, ClIdle DEF clAll
  <2>4. CASE Logs!ReloadKnobs
    BY <1>2, <2>2, <2>4, ClIdle DEF Logs!ReloadKnobs
  <2>5. CASE Logs!Tick
    BY <1>2, <2>2, <2>5, ClIdle DEF Logs!Tick
  <2>6. ASSUME NEW t \in ClTasks,
               \/ Logs!Begin(t) \/ Logs!SendRequest(t) \/ Logs!Respond(t)
               \/ Logs!Break(t) \/ Logs!Finish(t) \/ Logs!CancelCall(t)
        PROVE  ClInv'
    BY <1>2, <2>6, ClBegin, ClSendRequest, ClRespond, ClBreak, ClFinish, ClCancel
  <2>. QED
    BY <2>1, <2>3, <2>4, <2>5, <2>6 DEF Logs!ClNext
<1>3. ClInv => CallLogsSound
  BY DEF ClInv, FilesInv, CallLogsSound, Logs!CallLogsSound
<1>. QED
  BY <1>1, <1>2, <1>3, PTL DEF RcSpec
=============================================================================
