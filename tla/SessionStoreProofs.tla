------------------------- MODULE SessionStoreProofs -------------------------
(***************************************************************************)
(* Proofs about SessionStore, for any callers, roles, Session objects and  *)
(* bounds, and for all events and races that the code has.  Each property  *)
(* comes from its own part of the invariant, and those that need a session *)
(* in use to stay in the cache, or a quiet shutdown, say so.               *)
(***************************************************************************)
EXTENDS SessionStore, SequenceTheorems, TLAPS

Hist == Seq(Int) \cup {None}

(***************************************************************************)
(* Histories.                                                              *)
(***************************************************************************)

\* A history without its last entry.
LEMMA FrontOf ==
    ASSUME NEW h \in Seq(Int), h # <<>>
    PROVE  LET g == Front(h) IN
           /\ g \in Seq(Int) /\ Len(h) \in Nat /\ Len(h) > 0
           /\ Len(g) = Len(h) - 1
           /\ \A i \in 1..Len(h) - 1 : g[i] = h[i]
           /\ Last(h) = h[Len(h)] /\ h[Len(h)] \in Int
<1>1. Len(h) \in Nat /\ Len(h) > 0
  OBVIOUS
<1>2. Front(h) = SubSeq(h, 1, Len(h) - 1)
  BY DEF Front
<1>3. Last(h) = h[Len(h)] /\ h[Len(h)] \in Int
  BY <1>1 DEF Last
<1>4. /\ SubSeq(h, 1, Len(h) - 1) \in Seq(Int)
      /\ Len(SubSeq(h, 1, Len(h) - 1)) = Len(h) - 1
      /\ \A i \in 1..Len(h) - 1 : SubSeq(h, 1, Len(h) - 1)[i] = h[i]
  <2> DEFINE n == Len(h) - 1
  <2>1. n \in Int /\ n >= 0 /\ \A i \in 1..n : h[i] \in Int
    BY <1>1
  <2> HIDE DEF n
  <2>2. /\ SubSeq(h, 1, n) \in Seq(Int)
        /\ Len(SubSeq(h, 1, n)) = IF 1 <= n THEN n - 1 + 1 ELSE 0
        /\ \A i \in 1..n - 1 + 1 : SubSeq(h, 1, n)[i] = h[1 + i - 1]
    BY <2>1, SubSeqProperties
  <2>3. Len(SubSeq(h, 1, n)) = n /\ \A i \in 1..n : SubSeq(h, 1, n)[i] = h[i]
    BY <2>1, <2>2
  <2>. QED BY <2>2, <2>3 DEF n
<1>. QED BY <1>1, <1>2, <1>3, <1>4

\* The history of a turn that has ended: its open entry is completed.
LEMMA ClosedHistory ==
    ASSUME NEW h \in Hist
    PROVE  LET g == Close(h) IN
           /\ g \in Hist
           /\ h = None <=> g = None
           /\ h # None =>
                /\ h \in Seq(Int) /\ g \in Seq(Int)
                /\ Len(h) \in Nat /\ Len(g) = Len(h)
                /\ \A i \in 1..Len(h) :
                      g[i] = IF i = Len(h) /\ h[i] < 0 THEN -h[i] ELSE h[i]
<1>0. None \notin Seq(Int)
  BY StoreAssumption
<1>1. CASE IsOpen(h)
  <2>1. h \in Seq(Int) /\ h # <<>> /\ Last(h) < 0
    BY <1>1 DEF IsOpen, Hist
  <2>2. Close(h) = Append(Front(h), -Last(h))
    BY <1>1 DEF Close
  <2> DEFINE f == Front(h)
             x == -Last(h)
  <2>3. /\ f \in Seq(Int) /\ Len(h) \in Nat /\ Len(h) > 0 /\ Len(f) = Len(h) - 1
        /\ \A i \in 1..Len(h) - 1 : f[i] = h[i]
        /\ h[Len(h)] \in Int /\ h[Len(h)] < 0 /\ x = -h[Len(h)] /\ x \in Int
    BY <2>1, FrontOf
  <2> HIDE DEF f, x
  <2>4. /\ Append(f, x) \in Seq(Int) /\ Len(Append(f, x)) = Len(h)
        /\ \A i \in 1..Len(h) - 1 : Append(f, x)[i] = h[i]
        /\ Append(f, x)[Len(h)] = x
    BY <2>3
  <2>5. Close(h) = Append(f, x)
    BY <2>2 DEF f, x
  <2> DEFINE g == Append(f, x)
  <2>6. g # None
    BY <1>0, <2>4
  <2>7. h # None
    BY <1>0, <2>1
  <2> HIDE DEF g
  <2>8. \A i \in 1..Len(h) : g[i] = IF i = Len(h) /\ h[i] < 0 THEN -h[i] ELSE h[i]
    BY <2>3, <2>4 DEF g
  <2>. QED BY <2>1, <2>3, <2>4, <2>5, <2>6, <2>7, <2>8 DEF Hist, g
<1>2. CASE ~IsOpen(h)
  <2>1. Close(h) = h
    BY <1>2 DEF Close
  <2>2. ASSUME h # None
        PROVE  /\ h \in Seq(Int) /\ Len(h) \in Nat
               /\ Len(h) > 0 => h[Len(h)] >= 0
    <3>1. h \in Seq(Int) /\ (h = <<>> \/ ~(Last(h) < 0))
      BY <1>2, <2>2 DEF IsOpen, Hist
    <3>. QED BY <3>1, FrontOf
  <2>. QED BY <1>0, <2>1, <2>2 DEF Hist
<1>. QED BY <1>1, <1>2

\* The history of a turn that was cut: its open entry is gone.
LEMMA RolledBackHistory ==
    ASSUME NEW h \in Hist
    PROVE  LET g == Rollback(h) IN
           /\ g \in Hist
           /\ h = None <=> g = None
           /\ h # None =>
                /\ h \in Seq(Int) /\ g \in Seq(Int)
                /\ Len(h) \in Nat /\ Len(g) \in Nat /\ Len(g) <= Len(h)
                /\ \A i \in 1..Len(g) : g[i] = h[i]
                /\ \A i \in Len(g) + 1..Len(h) : h[i] < 0 /\ i = Len(h)
                /\ Len(g) = Len(h) /\ Len(h) > 0 => h[Len(h)] >= 0
<1>0. None \notin Seq(Int)
  BY StoreAssumption
<1>1. CASE IsOpen(h)
  <2>1. h \in Seq(Int) /\ h # <<>> /\ Last(h) < 0
    BY <1>1 DEF IsOpen, Hist
  <2>2. Rollback(h) = Front(h)
    BY <1>1 DEF Rollback
  <2>. QED BY <1>0, <2>1, <2>2, FrontOf DEF Hist
<1>2. CASE ~IsOpen(h)
  <2>1. Rollback(h) = h
    BY <1>2 DEF Rollback
  <2>2. ASSUME h # None
        PROVE  /\ h \in Seq(Int) /\ Len(h) \in Nat
               /\ Len(h) > 0 => h[Len(h)] >= 0
    <3>1. h \in Seq(Int) /\ (h = <<>> \/ ~(Last(h) < 0))
      BY <1>2, <2>2 DEF IsOpen, Hist
    <3>. QED BY <3>1, FrontOf
  <2>. QED BY <1>0, <2>1, <2>2 DEF Hist
<1>. QED BY <1>1, <1>2

\* A history to which a turn appends.
LEMMA LongerHistory ==
    ASSUME NEW h \in Seq(Int), NEW x \in Int
    PROVE  LET g == Append(h, x) IN
           /\ g \in Hist /\ g \in Seq(Int) /\ g # None
           /\ Len(h) \in Nat /\ Len(g) = Len(h) + 1
           /\ \A i \in 1..Len(h) : g[i] = h[i]
           /\ g[Len(h) + 1] = x
BY StoreAssumption DEF Hist

(***************************************************************************)
(* What each action leaves of the session's histories.                     *)
(***************************************************************************)

\* The parts of a session.
LEMMA SessionParts ==
    ASSUME TypeOK, NEW o \in Objs
    PROVE  /\ mem[o] \in Session /\ mem[o].cur \in Roles /\ mem[o].transfers \in Nat
           /\ \A r \in Roles : mem[o].agents[r] \in Hist /\ mem[o].restored[r] \in Hist
BY DEF TypeOK, Session, Hist

LEMMA MaterialisedIsHistory ==
    ASSUME TypeOK, NEW o \in Objs, NEW r \in Roles
    PROVE  /\ Materialised(o, r) \in Seq(Int)
           /\ Known(o, r) \in Hist
           /\ Known(o, r) # None => Materialised(o, r) = Known(o, r)
           /\ Known(o, r) = None => Materialised(o, r) = <<>>
           /\ Materialised(o, r) \in {<<>>, mem[o].agents[r], mem[o].restored[r]}
<1>1. <<>> \in Seq(Int)
  OBVIOUS
<1>. QED BY <1>1, SessionParts DEF Materialised, Known, Hist

\* Whoever is past the lookup has a session.
LEMMA HasSession ==
    ASSUME TypeOK, Attached, NEW c \in Callers,
           pc[c] \in {"held", "waiting", "turn", "forced", "post"}
    PROVE  sess[c] \in Objs /\ sess[c] # None
BY DEF TypeOK, Attached

\* Only the session o is changed, to one with role u and these histories.
Only(o) == mem' \in [Objs -> Session] /\ \A p \in Objs : p # o => mem'[p] = mem[p]

LEMMA BeginMem ==
    ASSUME TypeOK, Attached, NEW c \in Callers, BeginTurn(c)
    PROVE  LET o == sess[c]
               r == mem[o].cur
               h == Materialised(o, r)
           IN  /\ o \in Objs /\ r \in Roles /\ c \in Turners /\ h \in Seq(Int)
               /\ turns' = turns + 1 /\ -(turns + 1) \in Int
               /\ Only(o)
               /\ mem'[o].cur = r
               /\ mem'[o].agents[r] = Append(h, -(turns + 1)) /\ mem'[o].restored[r] = None
               /\ \A q \in Roles : q # r => /\ mem'[o].agents[q] = mem[o].agents[q]
                                            /\ mem'[o].restored[q] = mem[o].restored[q]
<1> DEFINE o == sess[c]
           r == mem[o].cur
           h == Materialised(o, r)
           g == Append(h, -(turns + 1))
<1>1. o \in Objs /\ c \in Turners
  BY HasSession DEF BeginTurn, Attached
<1>2. r \in Roles /\ mem[o] \in Session /\ mem \in [Objs -> Session]
  BY <1>1, SessionParts DEF TypeOK
<1>3. h \in Seq(Int)
  BY <1>1, <1>2, MaterialisedIsHistory
<1>4. turns' = turns + 1 /\ -(turns + 1) \in Int
  BY DEF BeginTurn, TypeOK
<1>5. g \in Hist
  BY <1>3, <1>4, LongerHistory
<1>6. mem' = [mem EXCEPT ![o].agents[r] = g, ![o].restored[r] = None]
  BY <1>4 DEF BeginTurn
<1>7. None \in Hist
  BY DEF Hist
<1> HIDE DEF h, g, r, o
<1>8. /\ Only(o) /\ mem'[o].cur = mem[o].cur
      /\ mem'[o].agents[r] = g /\ mem'[o].restored[r] = None
      /\ \A q \in Roles : q # r => /\ mem'[o].agents[q] = mem[o].agents[q]
                                   /\ mem'[o].restored[q] = mem[o].restored[q]
  BY <1>1, <1>2, <1>5, <1>6, <1>7 DEF Only, Session, Hist
<1>. QED BY <1>1, <1>2, <1>3, <1>4, <1>8 DEF o, r, h, g

LEMMA TransferMem ==
    ASSUME TypeOK, Attached, NEW c \in Callers, Transfer(c)
    PROVE  LET o == sess[c]
               q == mem[o].cur
           IN  /\ o \in Objs /\ q \in Roles /\ -turnOf[c] \in Int
               /\ Only(o)
               /\ \E r \in Roles \ {q} :
                     /\ Materialised(o, r) \in Seq(Int)
                     /\ mem'[o].cur = r
                     /\ mem'[o].agents[q] = Close(mem[o].agents[q])
                     /\ mem'[o].restored[q] = mem[o].restored[q]
                     /\ mem'[o].agents[r] = Append(Materialised(o, r), -turnOf[c])
                     /\ mem'[o].restored[r] = None
                     /\ \A p \in Roles \ {q, r} : /\ mem'[o].agents[p] = mem[o].agents[p]
                                                  /\ mem'[o].restored[p] = mem[o].restored[p]
<1> DEFINE o == sess[c]
           q == mem[o].cur
           k == Close(mem[o].agents[q])
<1>1. o \in Objs /\ -turnOf[c] \in Int
  BY HasSession DEF Transfer, TypeOK
<1>2. q \in Roles /\ mem[o] \in Session /\ mem \in [Objs -> Session]
  BY <1>1, SessionParts DEF TypeOK
<1>3. k \in Hist /\ None \in Hist
  <2>1. mem[o].agents[q] \in Hist
    BY <1>1, <1>2, SessionParts
  <2>. QED BY <2>1, ClosedHistory DEF Hist
<1>4. PICK r \in Roles \ {q} :
          mem' = [mem EXCEPT ![o].agents[q] = Close(@),
                             ![o].agents[r] = Append(Materialised(o, r), -turnOf[c]),
                             ![o].restored[r] = None,
                             ![o].cur = r,
                             ![o].transfers = @ + 1]
  BY DEF Transfer
<1> DEFINE h == Materialised(o, r)
           g == Append(h, -turnOf[c])
<1>5. h \in Seq(Int) /\ g \in Hist
  BY <1>1, <1>2, MaterialisedIsHistory, LongerHistory
<1>6. mem' = [mem EXCEPT ![o].agents[q] = k,
                         ![o].agents[r] = g,
                         ![o].restored[r] = None,
                         ![o].cur = r,
                         ![o].transfers = @ + 1]
  BY <1>4
<1> HIDE DEF h, g, k, q, o
<1>7. /\ Only(o) /\ mem'[o].cur = r
      /\ mem'[o].agents[q] = k /\ mem'[o].restored[q] = mem[o].restored[q]
      /\ mem'[o].agents[r] = g /\ mem'[o].restored[r] = None
      /\ \A p \in Roles \ {q, r} : /\ mem'[o].agents[p] = mem[o].agents[p]
                                   /\ mem'[o].restored[p] = mem[o].restored[p]
  <2> DEFINE ag == [mem[o].agents EXCEPT ![q] = k, ![r] = g]
             re == [mem[o].restored EXCEPT ![r] = None]
             s == [cur |-> r, agents |-> ag, restored |-> re,
                   transfers |-> mem[o].transfers + 1]
  <2>1. ag \in [Roles -> Hist] /\ re \in [Roles -> Hist]
    BY <1>2, <1>3, <1>5 DEF Session, Hist
  <2>2. s.agents = ag /\ s.restored = re /\ s.cur = r /\ s \in Session
    <3> HIDE DEF ag, re
    <3>. QED BY <1>2, <1>4, <2>1 DEF Session, Hist
  <2>3. mem' = [mem EXCEPT ![o] = s]
    BY <1>1, <1>2, <1>6 DEF Session
  <2>4. /\ ag[q] = k /\ ag[r] = g /\ re[r] = None /\ re[q] = mem[o].restored[q]
        /\ \A p \in Roles \ {q, r} : ag[p] = mem[o].agents[p] /\ re[p] = mem[o].restored[p]
    BY <1>2, <1>4 DEF Session
  <2> HIDE DEF s, ag, re
  <2>. QED BY <1>1, <1>2, <2>2, <2>3, <2>4 DEF Only
<1>. QED BY <1>1, <1>2, <1>4, <1>5, <1>7 DEF o, q, h, g, k

\* One history of o is replaced, that of the current role.
LEMMA EditMem ==
    ASSUME TypeOK, NEW o \in Objs, NEW g \in Hist, NEW n \in Nat,
           mem' = [mem EXCEPT ![o].agents[mem[o].cur] = g, ![o].transfers = n]
    PROVE  /\ Only(o) /\ mem'[o].cur = mem[o].cur /\ mem'[o].restored = mem[o].restored
           /\ \A r \in Roles :
                 mem'[o].agents[r] = IF r = mem[o].cur THEN g ELSE mem[o].agents[r]
<1> DEFINE q == mem[o].cur
<1>1. q \in Roles /\ mem[o] \in Session /\ mem \in [Objs -> Session]
  BY SessionParts DEF TypeOK
<1>2. mem' = [mem EXCEPT ![o].agents[q] = g, ![o].transfers = n]
  OBVIOUS
<1> HIDE DEF q
<1>3. Only(o)
  <2> DEFINE ag == [mem[o].agents EXCEPT ![q] = g]
  <2>1. ag \in [Roles -> Seq(Int) \cup {None}]
    BY <1>1 DEF Session, Hist
  <2> DEFINE x == [mem[o] EXCEPT !.agents = ag]
             y == [x EXCEPT !.transfers = n]
  <2>2. x \in Session
    <3> HIDE DEF ag
    <3>. QED BY <1>1, <2>1 DEF Session
  <2>3. y \in Session
    <3> HIDE DEF x
    <3>. QED BY <2>2 DEF Session
  <2>4. mem' = [mem EXCEPT ![o] = y]
    BY <1>1, <1>2
  <2> HIDE DEF y
  <2>. QED BY <1>1, <2>3, <2>4 DEF Only
<1>4. mem'[o].cur = mem[o].cur /\ mem'[o].restored = mem[o].restored
  BY <1>1, <1>2 DEF Session
<1>5. mem'[o].agents[q] = g
  BY <1>1, <1>2 DEF Session
<1>6. \A r \in Roles : r # q => mem'[o].agents[r] = mem[o].agents[r]
  BY <1>1, <1>2 DEF Session
<1>. QED BY <1>3, <1>4, <1>5, <1>6 DEF q

LEMMA ForceMem ==
    ASSUME TypeOK, Attached, NEW c \in Callers, ForceAnswer(c)
    PROVE  LET o == sess[c]
               h == mem[o].agents[mem[o].cur]
           IN  /\ o \in Objs /\ mem[o].cur \in Roles /\ h \in Hist /\ -turnOf[c] \in Int
               /\ Only(o) /\ mem'[o].cur = mem[o].cur /\ mem'[o].restored = mem[o].restored
               /\ \A r \in Roles : mem'[o].agents[r] =
                     IF r # mem[o].cur THEN mem[o].agents[r]
                     ELSE IF h = None THEN None ELSE Append(Close(h), -turnOf[c])
<1> DEFINE o == sess[c]
           h == mem[o].agents[mem[o].cur]
           g == IF h = None THEN None ELSE Append(Close(h), -turnOf[c])
           n == mem[o].transfers + 1
<1>1. o \in Objs /\ -turnOf[c] \in Int
  BY HasSession DEF ForceAnswer, TypeOK
<1>2. mem[o].cur \in Roles /\ h \in Hist /\ n \in Nat
  BY <1>1, SessionParts
<1>3. g \in Hist
  <2>1. CASE h = None
    BY <2>1 DEF Hist
  <2>2. CASE h # None
    <3>1. Close(h) \in Seq(Int)
      BY <1>2, <2>2, ClosedHistory
    <3>. QED BY <1>1, <2>2, <3>1, LongerHistory
  <2>. QED BY <2>1, <2>2
<1>4. mem' = [mem EXCEPT ![o].agents[mem[o].cur] = g, ![o].transfers = n]
  BY <1>1, <1>2 DEF ForceAnswer, TypeOK, Session
<1> HIDE DEF g, n
<1>5. /\ Only(o) /\ mem'[o].cur = mem[o].cur /\ mem'[o].restored = mem[o].restored
      /\ \A r \in Roles :
            mem'[o].agents[r] = IF r = mem[o].cur THEN g ELSE mem[o].agents[r]
  BY <1>1, <1>2, <1>3, <1>4, EditMem
<1>. QED BY <1>1, <1>2, <1>5 DEF g

\* A turn's history is closed, or rolled back.
LEMMA EndMem ==
    ASSUME TypeOK, Attached, NEW c \in Callers,
           EndTurn(c) \/ (StopTurn(c) /\ pc[c] \in {"turn", "forced"})
    PROVE  LET o == sess[c]
               h == mem[o].agents[mem[o].cur]
           IN  /\ o \in Objs /\ mem[o].cur \in Roles /\ h \in Hist
               /\ Only(o) /\ mem'[o].cur = mem[o].cur /\ mem'[o].restored = mem[o].restored
               /\ \E g \in {Close(h), Rollback(h)} : \A r \in Roles :
                     mem'[o].agents[r] = IF r = mem[o].cur THEN g ELSE mem[o].agents[r]
<1> DEFINE o == sess[c]
           h == mem[o].agents[mem[o].cur]
<1>1. o \in Objs
  BY HasSession DEF EndTurn
<1>2. mem[o].cur \in Roles /\ h \in Hist
  BY <1>1, SessionParts
<1>3. PICK g \in {Close(h), Rollback(h)} :
         mem' = [mem EXCEPT ![o].agents[mem[o].cur] = g, ![o].transfers = 0]
  BY <1>1, <1>2 DEF EndTurn, StopTurn, TypeOK, Session
<1>4. g \in Hist
  BY <1>2, <1>3, ClosedHistory, RolledBackHistory
<1>5. /\ Only(o) /\ mem'[o].cur = mem[o].cur /\ mem'[o].restored = mem[o].restored
      /\ \A r \in Roles :
            mem'[o].agents[r] = IF r = mem[o].cur THEN g ELSE mem[o].agents[r]
  BY <1>1, <1>3, <1>4, EditMem
<1>. QED BY <1>1, <1>2, <1>3, <1>5

\* Nothing else that /stop cancels has touched the histories.
LEMMA StopMem ==
    ASSUME NEW c \in Callers, StopTurn(c), pc[c] \notin {"turn", "forced"}
    PROVE  mem' = mem
BY DEF StopTurn

LEMMA ResetMem ==
    ASSUME TypeOK, Attached, NEW c \in Callers, Reset(c)
    PROVE  LET o == sess[c] IN
           /\ o \in Objs /\ Only(o) /\ mem'[o].cur = mem[o].cur
           /\ mem'[o].agents = NoHistories /\ mem'[o].restored = NoHistories
           /\ disk' \in Snapshot /\ disk'.hist = NoHistories
           /\ \A r \in Roles : NoHistories[r] = None
<1> DEFINE o == sess[c]
<1>1. o \in Objs /\ mem[o] \in Session /\ mem \in [Objs -> Session]
  BY HasSession DEF Reset, TypeOK
<1>2. /\ NoHistories \in [Roles -> Seq(Int) \cup {None}]
      /\ \A r \in Roles : NoHistories[r] = None
  BY DEF NoHistories
<1> DEFINE nh == NoHistories
<1>3. mem' = [mem EXCEPT ![o].agents = nh, ![o].restored = nh]
  BY DEF Reset
<1> HIDE DEF nh, o
<1>4. /\ Only(o) /\ mem'[o].cur = mem[o].cur
      /\ mem'[o].agents = nh /\ mem'[o].restored = nh
  <2>1. nh \in [Roles -> Seq(Int) \cup {None}]
    BY <1>2 DEF nh
  <2>. QED BY <1>1, <1>3, <2>1 DEF Only, Session
<1>5. disk' = [cur |-> mem[o].cur, hist |-> NoHistories]
  BY DEF Reset, o
<1>6. disk' \in Snapshot /\ disk'.hist = NoHistories
  BY <1>1, <1>2, <1>5 DEF Snapshot, Session
<1>. QED BY <1>1, <1>2, <1>4, <1>6 DEF nh, o

LEMMA InsertMem ==
    ASSUME TypeOK, Attached, NEW c \in Callers, InsertSession(c)
    PROVE  /\ built[c] \in Snapshot
           /\ \E o \in Free :
                 /\ o \in Objs /\ Only(o)
                 /\ cached' = o /\ sess' = [sess EXCEPT ![c] = o]
                 /\ mem'[o].cur = built[c].cur /\ mem'[o].restored = built[c].hist
                 /\ \A r \in Roles : mem'[o].agents[r] = None
<1>1. built[c] \in Snapshot
  BY DEF InsertSession, TypeOK, Attached
<1>0. NewObject \in Free
  BY DEF InsertSession, NewObject
<1>2. PICK o \in Free :
          /\ mem' = [mem EXCEPT ![o] = [cur |-> built[c].cur, agents |-> NoHistories,
                                        restored |-> built[c].hist, transfers |-> 0]]
          /\ cached' = o /\ sess' = [sess EXCEPT ![c] = o]
  BY <1>0 DEF InsertSession
<1> DEFINE s == [cur |-> built[c].cur, agents |-> NoHistories,
                 restored |-> built[c].hist, transfers |-> 0]
<1>3. /\ NoHistories \in [Roles -> Seq(Int) \cup {None}]
      /\ \A r \in Roles : NoHistories[r] = None
  BY DEF NoHistories
<1>4. s \in Session /\ s.cur = built[c].cur /\ s.restored = built[c].hist
      /\ s.agents = NoHistories
  <2> HIDE DEF NoHistories
  <2>. QED BY <1>1, <1>3 DEF Session, Snapshot
<1>5. o \in Objs /\ mem \in [Objs -> Session]
  BY <1>2 DEF Free, TypeOK
<1> HIDE DEF s, NoHistories
<1>6. mem' = [mem EXCEPT ![o] = s]
  BY <1>2 DEF s
<1>. QED BY <1>1, <1>2, <1>3, <1>4, <1>5, <1>6 DEF Only

\* The evicted session is dropped, unless a caller still has it.
LEMMA DropMem ==
    ASSUME TypeOK, FlushVictim
    PROVE  /\ mem' \in [Objs -> Session]
           /\ \A o \in Objs : mem'[o] = mem[o] \/ mem'[o] = Blank
           /\ \A r \in Roles : Blank.agents[r] = None /\ Blank.restored[r] = None
<1>1. NoHistories \in [Roles -> Seq(Int) \cup {None}] /\ \A r \in Roles : NoHistories[r] = None
  BY DEF NoHistories
<1>2. /\ Blank \in Session
      /\ Blank.agents = NoHistories /\ Blank.restored = NoHistories
  <2> HIDE DEF NoHistories
  <2>. QED BY <1>1, StoreAssumption DEF Blank, Session
<1> HIDE DEF NoHistories, Blank
<1>3. mem \in [Objs -> Session]
  BY DEF TypeOK
<1>4. mem' = mem \/ mem' = [mem EXCEPT ![victim] = Blank]
  BY DEF FlushVictim
<1>. QED BY <1>1, <1>2, <1>3, <1>4

\* A snapshot of a session.
LEMMA SnapshotParts ==
    ASSUME TypeOK, NEW o \in Objs
    PROVE  /\ SnapshotOf(o) \in Snapshot /\ SnapshotOf(o) # None
           /\ SnapshotOf(o).hist = mem[o].agents
BY SessionParts, StoreAssumption DEF SnapshotOf, Snapshot, TypeOK, Session

(***************************************************************************)
(* Types, and who has a session.                                           *)
(***************************************************************************)

TypeInv == TypeOK /\ Attached

\* Boot leaves a process in which nobody has a session.
LEMMA BootType ==
    ASSUME TypeOK, Boot
    PROVE  TypeInv'
<1>1. Blank \in Session
  BY StoreAssumption DEF Blank, NoHistories, Session
<1>2. TypeOK'
  BY <1>1 DEF TypeOK, Boot, ghosts, PCs
<1>3. Attached'
  BY DEF Attached, Boot, PCs
<1>. QED BY <1>2, <1>3 DEF TypeInv

\* The caller c has left.
LEMMA LeaveType ==
    ASSUME TypeInv, NEW c \in Callers, Leave(c)
    PROVE  /\ cached' \in Objs \cup {None} /\ createLock' \in Callers \cup {Evictor, None}
           /\ victim' \in Objs \cup {None} /\ victimSnap' \in Snapshot \cup {None}
           /\ lock' \in [Objs -> Callers \cup {None}]
           /\ pc' \in [Callers -> PCs] /\ sess' \in [Callers -> Objs \cup {None}]
           /\ built' \in [Callers -> Snapshot \cup {None}] /\ turnOf' \in [Callers -> Nat]
           /\ Attached'
<1>1. Attached'
  BY DEF TypeInv, TypeOK, Attached, Leave
<1>. QED BY <1>1 DEF TypeInv, TypeOK, Leave, PCs

LEMMA TypeInit == Init => TypeInv
<1>1. Blank \in Session
  BY StoreAssumption DEF Blank, NoHistories, Session
<1>2. ASSUME Init
      PROVE  TypeOK
  BY <1>1, <1>2 DEF Init, TypeOK, PCs
<1>3. ASSUME Init
      PROVE  Attached
  BY <1>3 DEF Init, Attached
<1>. QED BY <1>2, <1>3 DEF TypeInv

LEMMA TypeStep ==
    ASSUME TypeInv, [Next]_vars
    PROVE  TypeInv'
<1>0. TypeOK /\ Attached /\ mem \in [Objs -> Session]
  BY DEF TypeInv, TypeOK
<1>1. ASSUME NEW c \in Callers, Lookup(c)
      PROVE  TypeInv'
  <2>1. TypeOK'
    BY <1>0, <1>1 DEF TypeOK, Lookup, Hit, Miss, cacheVars, flushVars, ghosts, PCs
  <2>2. Attached'
    BY <1>0, <1>1 DEF TypeOK, Attached, Lookup, Hit, Miss, cacheVars, flushVars, ghosts
  <2>. QED BY <2>1, <2>2 DEF TypeInv
<1>2. ASSUME NEW c \in Callers, LockAndRecheck(c)
      PROVE  TypeInv'
  <2>1. TypeOK'
    BY <1>0, <1>2 DEF TypeOK, LockAndRecheck, flushVars, ghosts, PCs
  <2>2. Attached'
    BY <1>0, <1>2 DEF TypeOK, Attached, LockAndRecheck, flushVars, ghosts
  <2>. QED BY <2>1, <2>2 DEF TypeInv
<1>3. ASSUME NEW c \in Callers, LoadState(c)
      PROVE  TypeInv'
  <2>1. FreshState \in Snapshot
    BY StoreAssumption DEF FreshState, NoHistories, Snapshot
  <2>2. built' \in [Callers -> Snapshot \cup {None}] /\ built'[c] \in Snapshot
    BY <1>0, <1>3, <2>1 DEF TypeOK, LoadState
  <2>3. TypeOK'
    BY <1>0, <1>3, <2>2 DEF TypeOK, LoadState, cacheVars, flushVars, ghosts, PCs
  <2>4. built'[c] # None
    BY <2>2, StoreAssumption
  <2>5. Attached'
    BY <1>0, <1>3, <2>4 DEF TypeOK, Attached, LoadState
  <2>. QED BY <2>3, <2>5 DEF TypeInv
<1>4. ASSUME NEW c \in Callers, InsertSession(c)
      PROVE  TypeInv'
  <2>1. PICK o \in Objs : /\ mem' \in [Objs -> Session] /\ cached' = o
                          /\ sess' = [sess EXCEPT ![c] = o]
    BY <1>0, <1>4, InsertMem DEF Only
  <2>2. o # None
    BY StoreAssumption
  <2>3. TypeOK'
    BY <1>0, <1>4, <2>1 DEF TypeOK, InsertSession, flushVars, ghosts, PCs
  <2>4. Attached'
    BY <1>0, <1>4, <2>1, <2>2 DEF TypeOK, Attached, InsertSession
  <2>. QED BY <2>3, <2>4 DEF TypeInv
<1>5. ASSUME NEW c \in Callers, EnterHandle(c)
      PROVE  TypeInv'
  <2>1. TypeOK'
    BY <1>0, <1>5 DEF TypeOK, EnterHandle, cacheVars, flushVars, ghosts, PCs
  <2>2. Attached'
    BY <1>0, <1>5 DEF TypeOK, Attached, EnterHandle
  <2>. QED BY <2>1, <2>2 DEF TypeInv
<1>6. ASSUME NEW c \in Callers, BeginTurn(c)
      PROVE  TypeInv'
  <2>1. mem' \in [Objs -> Session] /\ sess[c] \in Objs
    BY <1>0, <1>6, BeginMem DEF Only
  <2>2. TypeOK'
    BY <1>0, <1>6, <2>1 DEF TypeOK, BeginTurn, cacheVars, flushVars, PCs
  <2>3. Attached'
    BY <1>0, <1>6 DEF TypeOK, Attached, BeginTurn
  <2>. QED BY <2>2, <2>3 DEF TypeInv
<1>7. ASSUME NEW c \in Callers, EndTurn(c)
      PROVE  TypeInv'
  <2>1. mem' \in [Objs -> Session]
    BY <1>0, <1>7, EndMem DEF Only
  <2>2. TypeOK'
    BY <1>0, <1>7, <2>1 DEF TypeOK, EndTurn, cacheVars, flushVars, ghosts, PCs
  <2>3. Attached'
    BY <1>0, <1>7 DEF TypeOK, Attached, EndTurn
  <2>. QED BY <2>2, <2>3 DEF TypeInv
<1>8. ASSUME NEW c \in Callers, PostTurn(c)
      PROVE  TypeInv'
  <2>1. SnapshotOf(sess[c]) \in Snapshot
    BY <1>0, <1>8, HasSession, SnapshotParts DEF PostTurn
  <2>2. TypeOK'
    BY <1>0, <1>8, <2>1, LeaveType DEF TypeOK, PostTurn, ghosts
  <2>. QED BY <1>8, <2>2, LeaveType DEF TypeInv, PostTurn
<1>9. ASSUME NEW c \in Callers, Reset(c)
      PROVE  TypeInv'
  <2>1. mem' \in [Objs -> Session] /\ disk' \in Snapshot
    BY <1>0, <1>9, ResetMem DEF Only
  <2>2. TypeOK'
    BY <1>0, <1>9, <2>1, LeaveType DEF TypeOK, Reset
  <2>. QED BY <1>9, <2>2, LeaveType DEF TypeInv, Reset
<1>10. ASSUME NEW c \in Callers, Transfer(c)
       PROVE  TypeInv'
  <2>1. mem' \in [Objs -> Session]
    BY <1>0, <1>10, TransferMem DEF Only
  <2>2. TypeOK'
    BY <1>0, <1>10, <2>1 DEF TypeOK, Transfer, cacheVars, callerVars, flushVars, ghosts
  <2>3. Attached'
    BY <1>0, <1>10 DEF Attached, Transfer, callerVars
  <2>. QED BY <2>2, <2>3 DEF TypeInv
<1>11. ASSUME NEW c \in Callers, ForceAnswer(c)
       PROVE  TypeInv'
  <2>1. mem' \in [Objs -> Session]
    BY <1>0, <1>11, ForceMem DEF Only
  <2>2. TypeOK'
    BY <1>0, <1>11, <2>1 DEF TypeOK, ForceAnswer, cacheVars, flushVars, ghosts, PCs
  <2>3. Attached'
    BY <1>0, <1>11 DEF TypeOK, Attached, ForceAnswer
  <2>. QED BY <2>2, <2>3 DEF TypeInv
<1>12. ASSUME NEW c \in Callers, StopTurn(c)
       PROVE  TypeInv'
  <2>1. mem' \in [Objs -> Session]
    BY <1>0, <1>12, EndMem, StopMem DEF Only
  <2>2. busy' \in BOOLEAN
    BY <1>12 DEF StopTurn
  <2>3. TypeOK'
    BY <1>0, <1>12, <2>1, <2>2, LeaveType DEF TypeOK, StopTurn, flushVars, ghosts
  <2>. QED BY <1>12, <2>3, LeaveType DEF TypeInv, StopTurn
<1>13. ASSUME Flush \/ Evict \/ Shutdown
       PROVE  TypeInv'
  <2>1. Attached'
    BY <1>0, <1>13 DEF Attached, Flush, SnapshotVictim, FlushVictim, FlushDue, FlushWrite,
                       Evict, Shutdown, callerVars
  <2>2. \A o \in Objs : SnapshotOf(o) \in Snapshot
    BY <1>0, SnapshotParts
  <2>3. CASE Flush
    <3> SUFFICES TypeOK'
      BY <2>1 DEF TypeInv
    <3>1. CASE SnapshotVictim
      <4>1. victimSnap' \in Snapshot
        BY <1>0, <2>2, <3>1 DEF TypeOK, SnapshotVictim
      <4>. QED BY <1>0, <3>1, <4>1 DEF TypeOK, SnapshotVictim, callerVars, flushVars, ghosts
    <3>2. CASE FlushVictim
      BY <1>0, <3>2, DropMem DEF TypeOK, FlushVictim, callerVars, ghosts
    <3>3. CASE FlushDue
      <4>1. writes' \subseteq Snapshot /\ disk' \in Snapshot \cup {None}
        BY <1>0, <3>3 DEF TypeOK, FlushDue, StartWrite
      <4>. QED BY <1>0, <3>3, <4>1 DEF TypeOK, FlushDue, cacheVars, callerVars, ghosts
    <3>4. CASE FlushWrite
      BY <1>0, <3>4 DEF TypeOK, FlushWrite, cacheVars, callerVars, ghosts
    <3>. QED BY <2>3, <3>1, <3>2, <3>3, <3>4 DEF Flush
  <2>4. CASE Evict
    <3>1. TypeOK'
      <4>1. /\ victim' \in Objs \cup {None} /\ cached' \in Objs \cup {None}
            /\ createLock' \in Callers \cup {Evictor, None}
        BY <1>0, <2>4 DEF TypeOK, Evict
      <4>2. UNCHANGED <<victimSnap, mem, lock, callerVars, busy, flushVars, closing, ghosts>>
        BY <2>4 DEF Evict
      <4>. QED BY <1>0, <4>1, <4>2 DEF TypeOK, callerVars, flushVars, ghosts
    <3>. QED BY <2>1, <3>1 DEF TypeInv
  <2>5. CASE Shutdown
    <3>1. disk' \in Snapshot \cup {None}
      BY <1>0, <2>2, <2>5 DEF TypeOK, Shutdown
    <3>2. TypeOK'
      BY <1>0, <2>5, <3>1 DEF TypeOK, Shutdown, cacheVars, callerVars, ghosts
    <3>. QED BY <2>1, <3>2 DEF TypeInv
  <2>. QED BY <1>13, <2>3, <2>4, <2>5
<1>14. ASSUME Exit \/ Crash
       PROVE  TypeInv'
  BY <1>0, <1>14, BootType DEF Exit, Crash
<1>15. CASE UNCHANGED vars
  <2>1. TypeOK'
    BY <1>0, <1>15 DEF TypeOK, vars, cacheVars, flushVars, ghosts, callerVars
  <2>2. Attached'
    BY <1>0, <1>15 DEF Attached, vars, callerVars
  <2>. QED BY <2>1, <2>2 DEF TypeInv
<1>. QED BY <1>1, <1>2, <1>3, <1>4, <1>5, <1>6, <1>7, <1>8, <1>9, <1>10, <1>11,
            <1>12, <1>13, <1>14, <1>15 DEF Next, Step

\* Every variable keeps its type, and only who is past the lookup has a
\* session, whatever happens and whatever the timing.
THEOREM TypesHold == Spec => []TypeInv
<1>. QED BY TypeInit, TypeStep, PTL DEF Spec

(***************************************************************************)
(* One Session object: as long as the cache holds the sessions in use,     *)
(* everybody who has the session has the cached object, and its lock.      *)
(***************************************************************************)

LEMMA OneObjectInit == Init => OneObject
BY DEF Init, OneObject, InTurn

\* Who leaves takes nothing that another caller has.
LEMMA LeaveOneObject ==
    ASSUME TypeInv, OneObject, NEW c \in Callers, Leave(c)
    PROVE  OneObject'
<1>1. /\ c # None /\ c # Evictor
      /\ \A d \in Callers : sess[d] # None => sess[d] \in Objs
  BY StoreAssumption DEF TypeInv, TypeOK, Callers
<1>2. \A d \in Callers : /\ sess'[d] # None => d # c /\ sess'[d] = sess[d]
                         /\ pc'[d] # "idle" => d # c /\ pc'[d] = pc[d]
  BY DEF Leave, TypeInv, TypeOK
<1>3. \A d \in Callers : InTurn(d)' => InTurn(d) /\ sess'[d] = sess[d] /\ lock'[sess[d]] = d
  <2> SUFFICES ASSUME NEW d \in Callers, InTurn(d)'
               PROVE  InTurn(d) /\ sess'[d] = sess[d] /\ lock'[sess[d]] = d
    OBVIOUS
  <2>1. d # c /\ InTurn(d) /\ sess'[d] = sess[d]
    BY <1>2 DEF InTurn, Leave, TypeInv, TypeOK
  <2>2. sess[d] \in Objs /\ lock[sess[d]] = d
    BY <2>1, <1>1 DEF InTurn, OneObject, TypeInv, Attached
  <2>. QED BY <2>1, <2>2 DEF Leave
<1>4. /\ UNCHANGED <<cached, victim, victimSnap>>
      /\ createLock' = IF createLock = c THEN None ELSE createLock
  BY DEF Leave
<1>. QED BY <1>1, <1>2, <1>3, <1>4 DEF OneObject

LEMMA OneObjectStep ==
    ASSUME "evict_busy" \notin Races, TypeInv, OneObject, [Next]_vars
    PROVE  OneObject'
<1>0. TypeOK /\ Attached
  BY DEF TypeInv
<1>1. ASSUME NEW c \in Callers, Lookup(c)
      PROVE  OneObject'
  BY <1>0, <1>1 DEF OneObject, InTurn, Attached, TypeOK, Lookup, Hit, Miss, cacheVars
<1>2. ASSUME NEW c \in Callers, LockAndRecheck(c)
      PROVE  OneObject'
  BY <1>0, <1>2, StoreAssumption
     DEF OneObject, InTurn, Attached, TypeOK, LockAndRecheck, Callers
<1>3. ASSUME NEW c \in Callers, LoadState(c)
      PROVE  OneObject'
  BY <1>0, <1>3 DEF OneObject, InTurn, Attached, TypeOK, LoadState, cacheVars
<1>4. ASSUME NEW c \in Callers, InsertSession(c)
      PROVE  OneObject'
  <2>1. PICK o \in Free : o \in Objs /\ cached' = o /\ sess' = [sess EXCEPT ![c] = o]
    BY <1>0, <1>4, InsertMem
  <2>2. c # Evictor /\ o # None
    BY <2>1, StoreAssumption DEF Callers
  <2>3. createLock = c /\ cached = None /\ victim = None
    BY <1>4, <2>2 DEF OneObject, InsertSession
  <2>4. \A d \in Callers : sess[d] = None
    BY <2>3 DEF OneObject
  <2>. QED BY <1>0, <1>4, <2>1, <2>2, <2>3, <2>4
           DEF OneObject, InTurn, Attached, TypeOK, InsertSession
<1>5. ASSUME NEW c \in Callers, EnterHandle(c)
      PROVE  OneObject'
  BY <1>0, <1>5 DEF OneObject, InTurn, Attached, TypeOK, EnterHandle, cacheVars
<1>6. ASSUME NEW c \in Callers, BeginTurn(c)
      PROVE  OneObject'
  <2>1. sess[c] \in Objs /\ c # None /\ lock[sess[c]] = None
    BY <1>0, <1>6, HasSession, StoreAssumption DEF BeginTurn, Callers
  <2>2. \A d \in Callers : InTurn(d) => sess[d] # sess[c]
    BY <2>1, StoreAssumption DEF OneObject, Callers
  <2>. QED BY <1>0, <1>6, <2>1, <2>2
           DEF OneObject, InTurn, Attached, TypeOK, BeginTurn, cacheVars
<1>7. ASSUME NEW c \in Callers, EndTurn(c)
      PROVE  OneObject'
  BY <1>0, <1>7 DEF OneObject, InTurn, Attached, TypeOK, EndTurn, cacheVars
<1>8. ASSUME NEW c \in Callers, PostTurn(c) \/ Reset(c) \/ StopTurn(c)
      PROVE  OneObject'
  BY <1>8, LeaveOneObject DEF PostTurn, Reset, StopTurn
<1>9. ASSUME NEW c \in Callers, Transfer(c)
      PROVE  OneObject'
  BY <1>9 DEF OneObject, InTurn, Transfer, cacheVars, callerVars
<1>10. ASSUME NEW c \in Callers, ForceAnswer(c)
       PROVE  OneObject'
  BY <1>0, <1>10 DEF OneObject, InTurn, Attached, TypeOK, ForceAnswer, cacheVars
<1>11. CASE SnapshotVictim \/ FlushVictim
  <2>1. CASE SnapshotVictim
    BY <2>1 DEF OneObject, InTurn, SnapshotVictim, callerVars
  <2>2. CASE FlushVictim
    <3>1. \A c \in Callers : pc[c] \notin {"building", "loaded"}
      BY <2>2, StoreAssumption DEF OneObject, FlushVictim, Callers
    <3>. QED BY <2>2, <3>1 DEF OneObject, InTurn, FlushVictim, callerVars
  <2>. QED BY <1>11, <2>1, <2>2
<1>12. CASE FlushDue \/ FlushWrite \/ Shutdown
  BY <1>12 DEF OneObject, InTurn, FlushDue, FlushWrite, Shutdown, cacheVars, callerVars
<1>13. CASE Evict
  <2>1. \A c \in Callers : sess[c] = None
    BY <1>13 DEF OneObject, Evict, InUse
  <2>2. \A c \in Callers : pc[c] \notin {"building", "loaded"} /\ ~InTurn(c)
    BY <1>0, <1>13, <2>1, StoreAssumption DEF OneObject, Evict, InTurn, Attached, Callers
  <2>. QED BY <1>13, <2>1, <2>2 DEF OneObject, InTurn, Evict, callerVars
<1>14. CASE Exit \/ Crash
  BY <1>14 DEF Exit, Crash, Boot, OneObject, InTurn
<1>15. CASE UNCHANGED vars
  BY <1>15 DEF OneObject, InTurn, vars, cacheVars, callerVars
<1>. QED BY <1>1, <1>2, <1>3, <1>4, <1>5, <1>6, <1>7, <1>8, <1>9, <1>10, <1>11,
            <1>12, <1>13, <1>14, <1>15 DEF Next, Step, Flush

\* Two turns of a session are never under way at once, whatever is stopped,
\* reset, evicted or killed, unless the cache drops a session that is in use:
\* all callers share one Session object, hence one lock.
THEOREM OneTurnAtATime ==
    ASSUME "evict_busy" \notin Races
    PROVE  Spec => []TurnsExclusive
<1>1. Init => TypeInv /\ OneObject
  BY TypeInit, OneObjectInit
<1>2. TypeInv /\ OneObject /\ [Next]_vars => (TypeInv /\ OneObject)'
  BY TypeStep, OneObjectStep
<1>3. TypeInv /\ OneObject => TurnsExclusive
  <2> SUFFICES ASSUME TypeInv, OneObject, NEW c \in Turners, NEW d \in Turners,
                      InTurn(c), InTurn(d)
               PROVE  c = d
    BY DEF TurnsExclusive
  <2>1. sess[c] = cached /\ sess[d] = cached
    BY DEF InTurn, TypeInv, Attached, OneObject, Callers
  <2>. QED BY <2>1 DEF OneObject, Callers
<1>. QED BY <1>1, <1>2, <1>3, PTL DEF Spec

\* A turn under way is the only one, and works on the cached session.
LEMMA OnlyTurn ==
    ASSUME TypeInv, OneObject, NEW c \in Callers, InTurn(c)
    PROVE  /\ sess[c] = cached /\ cached \in Objs /\ cached # None
           /\ \A d \in Callers : InTurn(d) => d = c
           /\ pc[c] \in {"turn", "forced"} => Working
<1>1. c \in Turners /\ sess[c] # None /\ sess[c] \in Objs
  BY HasSession DEF InTurn, TypeInv, Attached
<1>2. \A d \in Callers : InTurn(d) => sess[d] # None /\ sess[d] = cached
  BY DEF InTurn, TypeInv, Attached, OneObject
<1>. QED BY <1>1, <1>2 DEF OneObject, Working

\* Nobody works on a session that nobody has.
LEMMA NoTurn ==
    ASSUME TypeInv, OneObject, \/ cached = None
                              \/ ~InUse(cached)
                              \/ lock[cached] = None
    PROVE  ~Working
<1> SUFFICES ASSUME NEW c \in Turners, pc[c] \in {"turn", "forced"}
             PROVE  FALSE
  BY DEF Working
<1>1. c \in Callers /\ InTurn(c)
  BY DEF InTurn, Callers
<1>2. sess[c] = cached /\ cached # None /\ lock[sess[c]] = c /\ c # None
  BY <1>1, OnlyTurn, StoreAssumption DEF OneObject, Callers
<1>. QED BY <1>1, <1>2 DEF InUse

(***************************************************************************)
(* Whole turns: only the agent of the current role of the cached session   *)
(* has an open turn, and only while its lock is held.                      *)
(***************************************************************************)

\* A turn that ends leaves its history whole, and one that begins opens it.
LEMMA WholeEnds ==
    ASSUME NEW h \in Hist, Whole(h) \/ WholeButLast(h)
    PROVE  Whole(Close(h)) /\ Whole(Rollback(h))
<1>1. CASE h = None
  BY <1>1, ClosedHistory, RolledBackHistory DEF Whole
<1>2. CASE h # None
  <2>1. /\ h \in Seq(Int) /\ Len(h) \in Nat
        /\ \A i \in 1..Len(h) : h[i] \in Int /\ h[i] # 0 /\ (i < Len(h) => h[i] > 0)
    BY <1>2 DEF Hist, Whole, WholeButLast
  <2>2. Whole(Close(h))
    BY <1>2, <2>1, ClosedHistory DEF Whole
  <2>3. Whole(Rollback(h))
    <3> DEFINE g == Rollback(h)
    <3>1. /\ Len(g) \in Nat /\ Len(g) <= Len(h)
          /\ \A i \in 1..Len(g) : g[i] = h[i]
          /\ Len(g) = Len(h) /\ Len(h) > 0 => h[Len(h)] >= 0
      BY <1>2, RolledBackHistory
    <3> HIDE DEF g
    <3>2. \A i \in 1..Len(g) : g[i] > 0
      BY <2>1, <3>1
    <3>. QED BY <3>2 DEF Whole, g
  <2>. QED BY <2>2, <2>3
<1>. QED BY <1>1, <1>2

LEMMA WholeBegins ==
    ASSUME NEW h \in Seq(Int), Whole(h), NEW x \in Int, x # 0
    PROVE  WholeButLast(Append(h, x))
<1> DEFINE g == Append(h, x)
<1>1. /\ Len(h) \in Nat /\ Len(g) = Len(h) + 1 /\ g[Len(h) + 1] = x
      /\ \A i \in 1..Len(h) : g[i] = h[i]
  BY LongerHistory
<1>2. \A i \in 1..Len(h) : h[i] > 0 /\ h[i] \in Int
  BY StoreAssumption DEF Whole
<1> HIDE DEF g
<1>3. \A i \in 1..Len(g) : g[i] # 0 /\ (i < Len(g) => g[i] > 0)
  BY <1>1, <1>2
<1>. QED BY <1>3 DEF WholeButLast, g

\* What an agent of a whole session starts from.
LEMMA WholeStart ==
    ASSUME TypeOK, NEW o \in Objs, NEW r \in Roles,
           Whole(mem[o].agents[r]), Whole(mem[o].restored[r])
    PROVE  Materialised(o, r) \in Seq(Int) /\ Whole(Materialised(o, r))
<1>1. Whole(<<>>)
  BY DEF Whole
<1>. QED BY <1>1, MaterialisedIsHistory DEF Materialised

\* The agents, after a step that leaves the histories and who works alone.
LEMMA SameAgents ==
    ASSUME WholeAgents, mem' = mem, Working' = Working, Working => cached' = cached
    PROVE  WholeAgents'
BY DEF WholeAgents

\* Turn numbers count from 1.
NumberedTurns == \A c \in Callers : pc[c] \in {"turn", "forced"} => turnOf[c] > 0

LEMMA NumberedStep ==
    ASSUME TypeInv, NumberedTurns, [Next]_vars
    PROVE  NumberedTurns'
<1>0. TypeOK
  BY DEF TypeInv
<1>1. ASSUME NEW c \in Callers, BeginTurn(c)
      PROVE  NumberedTurns'
  <2>1. turns' = turns + 1 /\ turns \in Nat /\ turnOf' = [turnOf EXCEPT ![c] = turns']
    BY <1>0, <1>1 DEF BeginTurn, TypeOK
  <2>. QED BY <1>0, <1>1, <2>1 DEF NumberedTurns, TypeOK, BeginTurn
<1>2. ASSUME NEW c \in Callers,
             Lookup(c) \/ LockAndRecheck(c) \/ LoadState(c) \/ InsertSession(c)
             \/ EnterHandle(c) \/ EndTurn(c) \/ ForceAnswer(c)
      PROVE  NumberedTurns'
  BY <1>0, <1>2 DEF NumberedTurns, TypeOK, Lookup, Hit, Miss, LockAndRecheck, LoadState,
                    InsertSession, EnterHandle, EndTurn, ForceAnswer
<1>3. ASSUME NEW c \in Callers, PostTurn(c) \/ Reset(c) \/ StopTurn(c)
      PROVE  NumberedTurns'
  <2>1. Leave(c)
    BY <1>3 DEF PostTurn, Reset, StopTurn
  <2>. QED BY <1>0, <2>1 DEF NumberedTurns, TypeOK, Leave
<1>4. ASSUME \/ \E c \in Callers : Transfer(c)
             \/ Flush \/ Evict \/ Shutdown \/ UNCHANGED vars
      PROVE  NumberedTurns'
  <2>1. UNCHANGED <<pc, turnOf>>
    BY <1>4 DEF Transfer, Flush, SnapshotVictim, FlushVictim, FlushDue, FlushWrite,
                Evict, Shutdown, vars, callerVars
  <2>. QED BY <2>1 DEF NumberedTurns
<1>5. CASE Exit \/ Crash
  BY <1>5 DEF Exit, Crash, Boot, NumberedTurns
<1>. QED BY <1>1, <1>2, <1>3, <1>4, <1>5 DEF Next, Step

LEMMA AgentsStep ==
    ASSUME "evict_busy" \notin Races, TypeInv, OneObject, WholeInv, [Next]_vars
    PROVE  WholeAgents'
<1>0. TypeOK /\ Attached /\ WholeAgents /\ NumberedTurns
  BY DEF TypeInv, WholeInv, NumberedTurns
<1>1. ASSUME NEW c \in Callers, Lookup(c) \/ LockAndRecheck(c) \/ LoadState(c) \/ EnterHandle(c)
      PROVE  WholeAgents'
  <2>1. mem' = mem /\ cached' = cached
    BY <1>1 DEF Lookup, LockAndRecheck, LoadState, EnterHandle, cacheVars
  <2>2. \A d \in Callers : pc'[d] \in {"turn", "forced"} <=> pc[d] \in {"turn", "forced"}
    BY <1>0, <1>1 DEF TypeOK, Lookup, Hit, Miss, LockAndRecheck, LoadState, EnterHandle
  <2>3. Working' = Working
    BY <2>2 DEF Working, Callers
  <2>. QED BY <1>0, <2>1, <2>3, SameAgents
<1>2. ASSUME NEW c \in Callers, InsertSession(c)
      PROVE  WholeAgents'
  <2>1. c # Evictor
    BY StoreAssumption DEF Callers
  <2>2. ~Working
    BY <1>2, <2>1, NoTurn DEF OneObject, InsertSession
  <2>3. PICK o \in Objs : /\ Only(o) /\ mem'[o].restored = built[c].hist
                          /\ \A r \in Roles : mem'[o].agents[r] = None
    BY <1>0, <1>2, InsertMem
  <2>4. \A r \in Roles : Whole(built[c].hist[r])
    BY <1>0, <1>2, InsertMem, StoreAssumption DEF WholeInv, WholeFiles, WholeSnapshot
  <2>. QED BY <1>0, <2>2, <2>3, <2>4 DEF WholeAgents, Only, Whole
<1>3. ASSUME NEW c \in Callers, BeginTurn(c)
      PROVE  WholeAgents'
  <2> DEFINE o == sess[c]
             q == mem[o].cur
             h == Materialised(o, q)
  <2>1. /\ o \in Objs /\ q \in Roles /\ c \in Turners /\ h \in Seq(Int)
        /\ -(turns + 1) \in Int
        /\ Only(o) /\ mem'[o].cur = q
        /\ mem'[o].agents[q] = Append(h, -(turns + 1)) /\ mem'[o].restored[q] = None
        /\ \A r \in Roles : r # q => /\ mem'[o].agents[r] = mem[o].agents[r]
                                     /\ mem'[o].restored[r] = mem[o].restored[r]
    BY <1>0, <1>3, BeginMem
  <2>2. o = cached /\ cached' = cached
    BY <1>0, <1>3, HasSession DEF BeginTurn, OneObject, cacheVars
  <2>3. ~Working
    BY <1>3, <2>2, NoTurn DEF BeginTurn
  <2>4. \A p \in Objs, r \in Roles : Whole(mem[p].restored[r]) /\ Whole(mem[p].agents[r])
    BY <1>0, <2>3 DEF WholeAgents
  <2>5. WholeButLast(Append(h, -(turns + 1)))
    <3>1. Whole(h)
      BY <1>0, <2>1, <2>4, WholeStart
    <3>2. -(turns + 1) # 0
      BY <1>0 DEF TypeOK
    <3>. QED BY <2>1, <3>1, <3>2, WholeBegins
  <2>6. Working'
    BY <1>0, <1>3, <2>1 DEF Working, BeginTurn, TypeOK
  <2> HIDE DEF o, q, h
  <2>7. Whole(None)
    BY DEF Whole
  <2>8. ASSUME NEW p \in Objs, NEW r \in Roles
        PROVE  /\ Whole(mem'[p].restored[r])
               /\ \/ Whole(mem'[p].agents[r])
                  \/ p = o /\ r = q /\ WholeButLast(mem'[p].agents[r])
    <3>1. CASE p # o
      BY <2>1, <2>4, <3>1 DEF Only
    <3>2. CASE p = o
      BY <2>1, <2>4, <2>5, <2>7, <3>2
    <3>. QED BY <3>1, <3>2
  <2>. QED BY <2>1, <2>2, <2>6, <2>8 DEF WholeAgents
<1>4. ASSUME NEW c \in Callers, EndTurn(c) \/ (StopTurn(c) /\ pc[c] \in {"turn", "forced"})
      PROVE  WholeAgents'
  <2> DEFINE o == sess[c]
             q == mem[o].cur
             h == mem[o].agents[q]
  <2>1. /\ o \in Objs /\ q \in Roles /\ h \in Hist
        /\ Only(o) /\ mem'[o].cur = q /\ mem'[o].restored = mem[o].restored
    BY <1>0, <1>4, EndMem
  <2>2. PICK g \in {Close(h), Rollback(h)} :
           \A r \in Roles : mem'[o].agents[r] = IF r = q THEN g ELSE mem[o].agents[r]
    BY <1>0, <1>4, EndMem
  <2>3. o = cached /\ \A d \in Callers : InTurn(d) => d = c
    BY <1>4, OnlyTurn DEF InTurn, EndTurn
  <2>4. Whole(g)
    BY <1>0, <2>1, <2>2, WholeEnds DEF WholeAgents
  <2>5. \A p \in Objs, r \in Roles :
           Whole(mem[p].restored[r]) /\ (Whole(mem[p].agents[r]) \/ (p = o /\ r = q))
    BY <1>0, <2>3 DEF WholeAgents
  <2> HIDE DEF o, q, h
  <2>6. ASSUME NEW p \in Objs, NEW r \in Roles
        PROVE  Whole(mem'[p].restored[r]) /\ Whole(mem'[p].agents[r])
    <3>1. CASE p # o
      BY <2>1, <2>5, <3>1 DEF Only
    <3>2. CASE p = o
      BY <2>1, <2>2, <2>4, <2>5, <3>2
    <3>. QED BY <3>1, <3>2
  <2>. QED BY <2>6 DEF WholeAgents
<1>5. ASSUME NEW c \in Callers, StopTurn(c), pc[c] \notin {"turn", "forced"}
      PROVE  WholeAgents'
  <2>1. mem' = mem /\ cached' = cached
    BY <1>5, StopMem DEF StopTurn, Leave
  <2>2. \A d \in Callers : pc'[d] \in {"turn", "forced"} <=> pc[d] \in {"turn", "forced"}
    BY <1>0, <1>5 DEF TypeOK, StopTurn, Leave
  <2>3. Working' = Working
    BY <2>2 DEF Working, Callers
  <2>. QED BY <1>0, <2>1, <2>3, SameAgents
<1>6. ASSUME NEW c \in Callers, PostTurn(c)
      PROVE  WholeAgents'
  <2>1. mem' = mem /\ cached' = cached
    BY <1>6 DEF PostTurn, Leave
  <2>2. \A d \in Callers : pc'[d] \in {"turn", "forced"} <=> pc[d] \in {"turn", "forced"}
    BY <1>0, <1>6 DEF TypeOK, PostTurn, Leave
  <2>3. Working' = Working
    BY <2>2 DEF Working, Callers
  <2>. QED BY <1>0, <2>1, <2>3, SameAgents
<1>7. ASSUME NEW c \in Callers, Reset(c)
      PROVE  WholeAgents'
  <2> DEFINE o == sess[c]
  <2>1. /\ o \in Objs /\ Only(o) /\ mem'[o].cur = mem[o].cur
        /\ \A r \in Roles : mem'[o].agents[r] = None /\ mem'[o].restored[r] = None
    BY <1>0, <1>7, ResetMem
  <2>2. cached' = cached
    BY <1>7 DEF Reset, Leave
  <2>3. \A d \in Callers : pc'[d] \in {"turn", "forced"} <=> pc[d] \in {"turn", "forced"}
    BY <1>0, <1>7 DEF TypeOK, Reset, Leave
  <2>4. Working' = Working
    BY <2>3 DEF Working, Callers
  <2> HIDE DEF o
  <2>. QED BY <1>0, <2>1, <2>2, <2>4 DEF WholeAgents, Only, Whole
<1>8. ASSUME NEW c \in Callers, Transfer(c)
      PROVE  WholeAgents'
  <2> DEFINE o == sess[c]
             q == mem[o].cur
  <2>1. /\ o \in Objs /\ q \in Roles /\ -turnOf[c] \in Int /\ Only(o)
    BY <1>0, <1>8, TransferMem
  <2>2. PICK r \in Roles \ {q} :
           /\ mem'[o].cur = r
           /\ mem'[o].agents[q] = Close(mem[o].agents[q])
           /\ mem'[o].restored[q] = mem[o].restored[q]
           /\ mem'[o].agents[r] = Append(Materialised(o, r), -turnOf[c])
           /\ mem'[o].restored[r] = None
           /\ \A p \in Roles \ {q, r} : /\ mem'[o].agents[p] = mem[o].agents[p]
                                        /\ mem'[o].restored[p] = mem[o].restored[p]
    BY <1>0, <1>8, TransferMem
  <2>3. o = cached /\ cached' = cached /\ Working /\ Working'
    <3>1. InTurn(c) /\ pc[c] = "turn" /\ cached' = cached /\ pc' = pc
      BY <1>8 DEF InTurn, Transfer, cacheVars, callerVars
    <3>. QED BY <3>1, OnlyTurn DEF Working
  <2>4. \A p \in Objs, s \in Roles :
           Whole(mem[p].restored[s]) /\ (Whole(mem[p].agents[s]) \/ (p = o /\ s = q))
    BY <1>0, <2>3 DEF WholeAgents
  <2>5. Whole(Close(mem[o].agents[q]))
    <3>1. mem[o].agents[q] \in Hist
      BY <1>0, <2>1, SessionParts
    <3>2. Whole(mem[o].agents[q]) \/ WholeButLast(mem[o].agents[q])
      BY <1>0, <2>1 DEF WholeAgents
    <3>. QED BY <3>1, <3>2, WholeEnds
  <2>6. WholeButLast(Append(Materialised(o, r), -turnOf[c]))
    <3>1. Materialised(o, r) \in Seq(Int) /\ Whole(Materialised(o, r))
      BY <1>0, <2>1, <2>2, <2>4, WholeStart
    <3>2. turnOf[c] > 0 /\ turnOf[c] \in Nat
      BY <1>0, <1>8 DEF NumberedTurns, Transfer, TypeOK
    <3>3. -turnOf[c] # 0
      BY <3>2
    <3>. QED BY <2>1, <3>1, <3>3, WholeBegins
  <2> HIDE DEF o, q
  <2>7. Whole(None)
    BY DEF Whole
  <2>8. ASSUME NEW p \in Objs, NEW s \in Roles
        PROVE  /\ Whole(mem'[p].restored[s])
               /\ \/ Whole(mem'[p].agents[s])
                  \/ p = o /\ s = r /\ WholeButLast(mem'[p].agents[s])
    <3>1. CASE p # o
      BY <2>1, <2>4, <3>1 DEF Only
    <3>2. CASE p = o
      BY <2>2, <2>4, <2>5, <2>6, <2>7, <3>2
    <3>. QED BY <3>1, <3>2
  <2>. QED BY <2>1, <2>2, <2>3, <2>8 DEF WholeAgents
<1>9. ASSUME NEW c \in Callers, ForceAnswer(c)
      PROVE  WholeAgents'
  <2> DEFINE o == sess[c]
             q == mem[o].cur
             h == mem[o].agents[q]
             g == IF h = None THEN None ELSE Append(Close(h), -turnOf[c])
  <2>1. /\ o \in Objs /\ q \in Roles /\ h \in Hist /\ -turnOf[c] \in Int
        /\ Only(o) /\ mem'[o].cur = q /\ mem'[o].restored = mem[o].restored
        /\ \A r \in Roles : mem'[o].agents[r] = IF r # q THEN mem[o].agents[r] ELSE g
    BY <1>0, <1>9, ForceMem
  <2>2. o = cached /\ cached' = cached /\ Working /\ Working'
    <3>1. InTurn(c) /\ pc[c] = "turn" /\ cached' = cached /\ pc'[c] = "forced"
      BY <1>0, <1>9 DEF InTurn, ForceAnswer, cacheVars, TypeOK
    <3>2. c \in Turners
      BY <1>0, <3>1 DEF Attached
    <3>. QED BY <3>1, <3>2, OnlyTurn DEF Working
  <2>3. \A p \in Objs, s \in Roles :
           Whole(mem[p].restored[s]) /\ (Whole(mem[p].agents[s]) \/ (p = o /\ s = q))
    BY <1>0, <2>2 DEF WholeAgents
  <2>4. WholeButLast(g)
    <3>1. CASE h = None
      BY <3>1 DEF WholeButLast
    <3>2. CASE h # None
      <4>1. Close(h) \in Seq(Int) /\ Whole(Close(h))
        BY <1>0, <2>1, <3>2, ClosedHistory, WholeEnds DEF WholeAgents
      <4>2. turnOf[c] > 0 /\ turnOf[c] \in Nat
        BY <1>0, <1>9 DEF NumberedTurns, ForceAnswer, TypeOK
      <4>3. -turnOf[c] # 0
        BY <4>2
      <4>. QED BY <2>1, <3>2, <4>1, <4>3, WholeBegins
    <3>. QED BY <3>1, <3>2
  <2> HIDE DEF o, q, h, g
  <2>. QED BY <2>1, <2>2, <2>3, <2>4 DEF WholeAgents, Only
<1>10. CASE Evict
  <2>1. ~Working /\ mem' = mem /\ pc' = pc
    BY <1>10, NoTurn DEF Evict, callerVars
  <2>. QED BY <1>0, <2>1 DEF WholeAgents, Working
<1>11. CASE SnapshotVictim \/ FlushDue \/ FlushWrite \/ Shutdown \/ UNCHANGED vars
  <2>1. mem' = mem /\ cached' = cached /\ pc' = pc
    BY <1>11 DEF SnapshotVictim, FlushDue, FlushWrite, Shutdown, vars, cacheVars, callerVars
  <2>. QED BY <1>0, <2>1, SameAgents DEF Working
<1>13. CASE FlushVictim
  <2>1. cached' = cached /\ pc' = pc
    BY <1>13 DEF FlushVictim, callerVars
  <2>2. Working' = Working
    BY <2>1 DEF Working
  <2>3. /\ \A o \in Objs : mem'[o] = mem[o] \/ mem'[o] = Blank
        /\ \A r \in Roles : Blank.agents[r] = None /\ Blank.restored[r] = None
    BY <1>0, <1>13, DropMem
  <2>4. Whole(None)
    BY DEF Whole
  <2> SUFFICES ASSUME NEW o \in Objs, NEW r \in Roles
               PROVE  /\ Whole(mem'[o].restored[r])
                      /\ \/ Whole(mem'[o].agents[r])
                         \/ /\ Working /\ o = cached /\ r = mem'[o].cur
                            /\ WholeButLast(mem'[o].agents[r])
    BY <2>1, <2>2 DEF WholeAgents, Whole, WholeButLast
  <2>. QED BY <1>0, <2>3, <2>4 DEF WholeAgents
<1>12. CASE Exit \/ Crash
  <2>1. \A o \in Objs, r \in Roles : mem'[o].agents[r] = None /\ mem'[o].restored[r] = None
    BY <1>12 DEF Exit, Crash, Boot, Blank, NoHistories
  <2>. QED BY <2>1 DEF WholeAgents, Whole
<1>. QED BY <1>1, <1>2, <1>3, <1>4, <1>5, <1>6, <1>7, <1>8, <1>9, <1>10, <1>11,
            <1>12, <1>13 DEF Next, Step, Flush

LEMMA FilesStep ==
    ASSUME Races \cap {"evict_busy", "shutdown_busy"} = {},
           TypeInv, OneObject, WholeInv, [Next]_vars
    PROVE  WholeFiles'
<1>0. TypeOK /\ Attached /\ WholeFiles /\ WholeAgents
  BY DEF TypeInv, WholeInv
<1>1. WholeSnapshot(None)
  BY DEF WholeSnapshot
\* A snapshot of a session on which nobody works is whole.
<1>2. ASSUME NEW o \in Objs, ~Working \/ o # cached
      PROVE  WholeSnapshot(SnapshotOf(o))
  <2>1. \A r \in Roles : Whole(mem[o].agents[r])
    BY <1>0, <1>2 DEF WholeAgents
  <2>. QED BY <1>0, <2>1, SnapshotParts DEF WholeSnapshot
<1>3. ASSUME NEW c \in Callers, PostTurn(c)
      PROVE  WholeFiles'
  <2>1. sess[c] = cached /\ sess[c] \in Objs /\ ~Working
    BY <1>3, OnlyTurn DEF PostTurn, InTurn, Working, Callers
  <2>2. WholeSnapshot(pending')
    BY <1>2, <1>3, <2>1 DEF PostTurn
  <2>3. \A d \in Callers : WholeSnapshot(built'[d])
    BY <1>0, <1>1, <1>3 DEF PostTurn, Leave, TypeOK, WholeFiles
  <2>. QED BY <1>0, <1>3, <2>2, <2>3 DEF WholeFiles, PostTurn, Leave
<1>4. ASSUME NEW c \in Callers, Reset(c)
      PROVE  WholeFiles'
  <2>1. \A r \in Roles : disk'.hist[r] = None
    BY <1>0, <1>4, ResetMem
  <2>2. WholeSnapshot(disk')
    BY <2>1 DEF WholeSnapshot, Whole
  <2>3. \A d \in Callers : WholeSnapshot(built'[d])
    BY <1>0, <1>1, <1>4 DEF Reset, Leave, TypeOK, WholeFiles
  <2>. QED BY <1>0, <1>1, <1>4, <2>2, <2>3 DEF WholeFiles, Reset, Leave
<1>5. ASSUME NEW c \in Callers, StopTurn(c)
      PROVE  WholeFiles'
  <2>1. \A d \in Callers : WholeSnapshot(built'[d])
    BY <1>0, <1>1, <1>5 DEF StopTurn, Leave, TypeOK, WholeFiles
  <2>. QED BY <1>0, <1>5, <2>1 DEF WholeFiles, StopTurn, Leave, flushVars
<1>6. ASSUME NEW c \in Callers, LoadState(c)
      PROVE  WholeFiles'
  <2>1. WholeSnapshot(FreshState)
    BY DEF WholeSnapshot, FreshState, NoHistories, Whole
  <2>2. \A d \in Callers : WholeSnapshot(built'[d])
    BY <1>0, <1>6, <2>1 DEF LoadState, TypeOK, WholeFiles
  <2>. QED BY <1>0, <1>6, <2>2 DEF WholeFiles, LoadState, cacheVars, flushVars
<1>7. ASSUME NEW c \in Callers, InsertSession(c)
      PROVE  WholeFiles'
  <2>1. \A d \in Callers : WholeSnapshot(built'[d])
    BY <1>0, <1>1, <1>7 DEF InsertSession, TypeOK, WholeFiles
  <2>. QED BY <1>0, <1>7, <2>1 DEF WholeFiles, InsertSession, flushVars
<1>8. ASSUME NEW c \in Callers,
             Lookup(c) \/ LockAndRecheck(c) \/ EnterHandle(c) \/ BeginTurn(c) \/ EndTurn(c)
             \/ Transfer(c) \/ ForceAnswer(c)
      PROVE  WholeFiles'
  <2>1. UNCHANGED <<disk, pending, victimSnap, writes, built>>
    BY <1>8 DEF Lookup, LockAndRecheck, EnterHandle, BeginTurn, EndTurn, Transfer, ForceAnswer,
                cacheVars, flushVars, callerVars
  <2>. QED BY <1>0, <2>1 DEF WholeFiles
<1>9. CASE SnapshotVictim
  <2>1. victim \in Objs /\ victim # cached
    BY <1>0, <1>9 DEF SnapshotVictim, TypeOK, OneObject
  <2>. QED BY <1>0, <1>2, <1>9, <2>1 DEF WholeFiles, SnapshotVictim, callerVars, flushVars
<1>10. CASE FlushVictim
  BY <1>0, <1>1, <1>10 DEF WholeFiles, FlushVictim, callerVars
<1>11. CASE FlushDue
  BY <1>0, <1>1, <1>11 DEF WholeFiles, FlushDue, StartWrite, cacheVars, callerVars
<1>12. CASE FlushWrite
  BY <1>0, <1>12 DEF WholeFiles, FlushWrite, cacheVars, callerVars
<1>13. CASE Evict \/ UNCHANGED vars
  <2>1. UNCHANGED <<disk, pending, victimSnap, writes, built>>
    BY <1>13 DEF Evict, vars, cacheVars, flushVars, callerVars
  <2>. QED BY <1>0, <2>1 DEF WholeFiles
<1>14. CASE Shutdown
  <2>1. ~Working
    BY <1>14 DEF Shutdown
  <2>2. cached # None => cached \in Objs
    BY <1>0 DEF TypeOK
  <2>3. WholeSnapshot(disk')
    BY <1>0, <1>2, <1>14, <2>1, <2>2 DEF Shutdown, WholeFiles
  <2>. QED BY <1>0, <1>1, <1>14, <2>3 DEF WholeFiles, Shutdown, cacheVars, callerVars
<1>15. CASE Exit \/ Crash
  BY <1>0, <1>1, <1>15 DEF WholeFiles, Exit, Crash, Boot
<1>. QED BY <1>3, <1>4, <1>5, <1>6, <1>7, <1>8, <1>9, <1>10, <1>11, <1>12, <1>13,
            <1>14, <1>15 DEF Next, Step, Flush

LEMMA WholeInit == Init => WholeInv
<1> SUFFICES ASSUME Init
             PROVE  WholeInv
  OBVIOUS
<1>1. \A o \in Objs, r \in Roles : mem[o].agents[r] = None /\ mem[o].restored[r] = None
  BY DEF Init, Blank, NoHistories
<1>2. WholeAgents
  BY <1>1 DEF WholeAgents, Whole
<1>3. WholeFiles
  BY DEF Init, WholeFiles, WholeSnapshot
<1>. QED BY <1>2, <1>3 DEF WholeInv, Init

LEMMA WholeStep ==
    ASSUME Races \cap {"evict_busy", "shutdown_busy"} = {},
           TypeInv, OneObject, WholeInv, [Next]_vars
    PROVE  WholeInv'
<1>1. WholeFiles' /\ WholeAgents'
  BY FilesStep, AgentsStep
<1>2. NumberedTurns'
  BY NumberedStep DEF WholeInv, NumberedTurns
<1>. QED BY <1>1, <1>2 DEF WholeInv, NumberedTurns

\* session.json never holds a turn of which only a part has been appended,
\* even when writes are slow, a turn starts during /new, is stopped, or the
\* process dies; only a shutdown in the middle of a turn, and an eviction of
\* a session that is in use, can leave one there.
THEOREM DiskHoldsWholeTurns ==
    ASSUME Races \cap {"evict_busy", "shutdown_busy"} = {}
    PROVE  Spec => []NoHalfTurnOnDisk
<1> DEFINE Inv == TypeInv /\ OneObject /\ WholeInv
<1>1. Init => Inv
  BY TypeInit, OneObjectInit, WholeInit
<1>2. Inv /\ [Next]_vars => Inv'
  BY TypeStep, OneObjectStep, WholeStep
<1>3. Inv => NoHalfTurnOnDisk
  BY DEF WholeInv, WholeFiles, WholeSnapshot, Whole, NoHalfTurnOnDisk
<1>. QED BY <1>1, <1>2, <1>3, PTL DEF Spec

(***************************************************************************)
(* Erased turns: a /new that has the session to itself leaves no record of *)
(* a turn from before it anywhere from where one could come back.          *)
(***************************************************************************)

LEMMA ClearEnds ==
    ASSUME TypeOK, NEW h \in Hist, Clear(h)
    PROVE  Clear(Close(h)) /\ Clear(Rollback(h))
<1>1. CASE h = None
  BY <1>1, ClosedHistory, RolledBackHistory DEF Clear
<1>2. CASE h # None
  <2>0. firm \in Nat
    BY DEF TypeOK
  <2>1. /\ h \in Seq(Int) /\ Len(h) \in Nat
        /\ \A i \in 1..Len(h) : h[i] \in Int /\ (h[i] > firm \/ h[i] < -firm)
    BY <1>2 DEF Hist, Clear
  <2>2. Clear(Close(h))
    BY <1>2, <2>0, <2>1, ClosedHistory DEF Clear
  <2>3. Clear(Rollback(h))
    <3> DEFINE g == Rollback(h)
    <3>1. /\ Len(g) \in Nat /\ Len(g) <= Len(h)
          /\ \A i \in 1..Len(g) : g[i] = h[i]
      BY <1>2, RolledBackHistory
    <3> HIDE DEF g
    <3>2. \A i \in 1..Len(g) : g[i] > firm \/ g[i] < -firm
      BY <2>0, <2>1, <3>1
    <3>. QED BY <3>2 DEF Clear, g
  <2>. QED BY <2>2, <2>3
<1>. QED BY <1>1, <1>2

LEMMA ClearMore ==
    ASSUME TypeOK, NEW h \in Seq(Int), Clear(h), NEW t \in Nat, t > firm
    PROVE  Clear(Append(h, -t))
<1> DEFINE g == Append(h, -t)
<1>0. firm \in Nat /\ -t \in Int /\ -t < -firm
  BY DEF TypeOK
<1>1. /\ Len(h) \in Nat /\ Len(g) = Len(h) + 1 /\ g[Len(h) + 1] = -t
      /\ \A i \in 1..Len(h) : g[i] = h[i]
  BY <1>0, LongerHistory
<1>2. \A i \in 1..Len(h) : h[i] > firm \/ h[i] < -firm
  BY StoreAssumption DEF Clear
<1> HIDE DEF g
<1>3. \A i \in 1..Len(g) : g[i] > firm \/ g[i] < -firm
  BY <1>0, <1>1, <1>2
<1>. QED BY <1>3 DEF Clear, g

LEMMA ClearStart ==
    ASSUME TypeOK, NEW o \in Objs, NEW r \in Roles,
           Clear(mem[o].agents[r]), Clear(mem[o].restored[r])
    PROVE  Materialised(o, r) \in Seq(Int) /\ Clear(Materialised(o, r))
<1>1. Clear(<<>>)
  BY DEF Clear
<1>. QED BY <1>1, MaterialisedIsHistory DEF Materialised

\* The histories of one session change, and stay clear.
LEMMA ClearEdit ==
    ASSUME ClearAgents, firm' = firm, NEW o \in Objs, Only(o),
           \A p \in Objs : Referenced(p)' => Referenced(p),
           \A r \in Roles : Clear(mem'[o].restored[r]) /\ Clear(mem'[o].agents[r])
    PROVE  ClearAgents'
<1> SUFFICES ASSUME NEW p \in Objs, NEW r \in Roles, Referenced(p)
             PROVE  Clear(mem'[p].restored[r]) /\ Clear(mem'[p].agents[r])
  BY DEF ClearAgents, Clear
<1>1. CASE p = o
  BY <1>1
<1>2. CASE p # o
  BY <1>2 DEF Only, ClearAgents
<1>. QED BY <1>1, <1>2

\* No history changes, and no other session is looked at.
LEMMA ClearSame ==
    ASSUME ClearAgents, firm' = firm, mem' = mem,
           \A p \in Objs : Referenced(p)' => Referenced(p)
    PROVE  ClearAgents'
BY DEF ClearAgents, Clear

\* Only by the insertion of a session does one more object come into use.
LEMMA UsedStep ==
    ASSUME TypeOK, [Next]_vars, \A c \in Callers : ~InsertSession(c)
    PROVE  \A p \in Objs : Referenced(p)' => Referenced(p)
<1> SUFFICES ASSUME NEW p \in Objs, Referenced(p)'
             PROVE  Referenced(p)
  OBVIOUS
<1>0. p # None
  BY StoreAssumption
<1>1. ASSUME NEW c \in Callers, Lookup(c)
      PROVE  Referenced(p)
  BY <1>1 DEF TypeOK, Referenced, InUse, Lookup, Hit, Miss, cacheVars
<1>2. ASSUME NEW c \in Callers, LockAndRecheck(c)
      PROVE  Referenced(p)
  BY <1>2 DEF TypeOK, Referenced, InUse, LockAndRecheck
<1>3. ASSUME NEW c \in Callers, Leave(c)
      PROVE  Referenced(p)
  BY <1>0, <1>3 DEF TypeOK, Referenced, InUse, Leave
<1>4. ASSUME \/ \E c \in Callers : \/ LoadState(c) \/ EnterHandle(c) \/ BeginTurn(c)
                                   \/ EndTurn(c) \/ Transfer(c) \/ ForceAnswer(c)
             \/ Flush \/ Evict \/ Shutdown \/ UNCHANGED vars
      PROVE  Referenced(p)
  <2>1. sess' = sess
    BY <1>4 DEF LoadState, EnterHandle, BeginTurn, EndTurn, Transfer, ForceAnswer,
                Flush, SnapshotVictim, FlushVictim, FlushDue, FlushWrite, Evict,
                Shutdown, vars, callerVars
  <2>2. /\ cached' \in {cached, victim, None} /\ victim' \in {cached, victim, None}
    BY <1>4 DEF LoadState, EnterHandle, BeginTurn, EndTurn, Transfer, ForceAnswer,
                Flush, SnapshotVictim, FlushVictim, FlushDue, FlushWrite, Evict,
                Shutdown, vars, cacheVars
  <2>. QED BY <1>0, <2>1, <2>2 DEF Referenced, InUse
<1>5. CASE Exit \/ Crash
  <2>1. cached' = None /\ victim' = None /\ \A c \in Callers : sess'[c] = None
    BY <1>5 DEF Exit, Crash, Boot
  <2>. QED BY <1>0, <2>1 DEF Referenced, InUse
<1>. QED BY <1>1, <1>2, <1>3, <1>4, <1>5
         DEF Next, Step, PostTurn, Reset, StopTurn

\* The session that a caller has is in use.
LEMMA UsesIt ==
    ASSUME NEW c \in Callers
    PROVE  Referenced(sess[c])
BY DEF Referenced, InUse

\* Who has the session to itself: nothing else holds a history.
LEMMA NothingElse ==
    ASSUME TypeInv, NEW c \in Callers, Reset(c), HasItAlone(c),
           victimSnap # None => victim # None
    PROVE  /\ \A p \in Objs : Referenced(p)' => p = sess[c]
           /\ \A d \in Callers : built'[d] = None /\ pc'[d] \notin {"turn", "forced"}
           /\ writes' = {} /\ victimSnap' = None
<1>0. \A p \in Objs : p # None
  BY StoreAssumption
<1>1. /\ Leave(c) /\ writes' = writes
      /\ writes = {} /\ victim = None /\ cached = sess[c] /\ victimSnap = None
      /\ \A d \in Callers : sess[d] \in {None, cached} /\ built[d] = None
  BY DEF Reset, HasItAlone
<1>2. \A d \in Callers : pc[d] \notin {"turn", "forced"}
  BY DEF HasItAlone, Working, TypeInv, Attached
<1>3. \A d \in Callers : pc'[d] \notin {"turn", "forced"} /\ built'[d] = None
  BY <1>1, <1>2 DEF Leave, TypeInv, TypeOK
<1>4. \A p \in Objs : Referenced(p)' => p = sess[c]
  BY <1>0, <1>1 DEF Referenced, InUse, Leave, TypeInv, TypeOK
<1>. QED BY <1>1, <1>3, <1>4 DEF Leave

\* After the step, turns that are under way are younger than the last /new
\* that had the session to itself.
YoungTurns == \A c \in Callers : pc[c] \in {"turn", "forced"} => turnOf[c] > firm

LEMMA YoungStep ==
    ASSUME TypeInv, YoungTurns, firm <= turns, [Next]_vars
    PROVE  YoungTurns' /\ firm' <= turns'
<1>0. TypeOK /\ Attached /\ firm \in Nat /\ turns \in Nat
  BY DEF TypeInv, TypeOK
<1>1. ASSUME NEW c \in Callers, BeginTurn(c)
      PROVE  YoungTurns' /\ firm' <= turns'
  <2>1. turns' = turns + 1 /\ turnOf' = [turnOf EXCEPT ![c] = turns'] /\ firm' = firm
    BY <1>0, <1>1 DEF BeginTurn, TypeOK
  <2>. QED BY <1>0, <1>1, <2>1 DEF YoungTurns, TypeOK, BeginTurn
<1>2. ASSUME NEW c \in Callers,
             Lookup(c) \/ LockAndRecheck(c) \/ LoadState(c) \/ InsertSession(c)
             \/ EnterHandle(c) \/ EndTurn(c) \/ ForceAnswer(c)
      PROVE  YoungTurns' /\ firm' <= turns'
  BY <1>0, <1>2 DEF YoungTurns, TypeOK, Lookup, Hit, Miss, LockAndRecheck, LoadState,
                    InsertSession, EnterHandle, EndTurn, ForceAnswer, ghosts
<1>3. ASSUME NEW c \in Callers,
             PostTurn(c) \/ StopTurn(c) \/ (Reset(c) /\ ~HasItAlone(c))
      PROVE  YoungTurns' /\ firm' <= turns'
  <2>1. Leave(c) /\ UNCHANGED <<firm, turns>>
    BY <1>3 DEF PostTurn, StopTurn, Reset, ghosts
  <2>. QED BY <1>0, <2>1 DEF YoungTurns, TypeOK, Leave
<1>4. ASSUME NEW c \in Callers, Reset(c), HasItAlone(c)
      PROVE  YoungTurns' /\ firm' <= turns'
  <2>1. ~Working /\ Leave(c) /\ firm' = turns /\ turns' = turns
    BY <1>4 DEF Reset, HasItAlone
  <2>2. \A d \in Callers : pc'[d] \notin {"turn", "forced"}
    <3>1. \A d \in Callers : pc[d] \notin {"turn", "forced"}
      BY <1>0, <2>1 DEF Working, Attached
    <3>. QED BY <1>0, <2>1, <3>1 DEF Leave, TypeOK
  <2>. QED BY <1>0, <2>1, <2>2 DEF YoungTurns
<1>5. ASSUME \/ \E c \in Callers : Transfer(c)
             \/ Flush \/ Evict \/ Shutdown \/ UNCHANGED vars
      PROVE  YoungTurns' /\ firm' <= turns'
  <2>1. UNCHANGED <<pc, turnOf, firm, turns>>
    BY <1>5 DEF Transfer, Flush, SnapshotVictim, FlushVictim, FlushDue, FlushWrite,
                Evict, Shutdown, vars, callerVars, ghosts
  <2>. QED BY <2>1 DEF YoungTurns
<1>6. CASE Exit \/ Crash
  BY <1>6 DEF Exit, Crash, Boot, YoungTurns, ghosts
<1>. QED BY <1>1, <1>2, <1>3, <1>4, <1>5, <1>6 DEF Next, Step

LEMMA ClearInsert ==
    ASSUME TypeInv, ClearInv, NEW c \in Callers, InsertSession(c)
    PROVE  ClearAgents'
<1>0. TypeOK /\ Attached /\ ClearAgents /\ ClearFiles
  BY DEF TypeInv, ClearInv
<1>1. PICK o \in Objs : /\ Only(o) /\ cached' = o /\ sess' = [sess EXCEPT ![c] = o]
                        /\ mem'[o].restored = built[c].hist
                        /\ \A r \in Roles : mem'[o].agents[r] = None
  BY <1>0, InsertMem
<1>2. \A r \in Roles : Clear(built[c].hist[r])
  BY <1>0, InsertMem, StoreAssumption DEF ClearFiles, ClearSnapshot
<1>3. victim' = victim /\ firm' = firm
  BY DEF InsertSession, ghosts
<1>4. Clear(None)
  BY DEF Clear
<1>5. ASSUME NEW p \in Objs, NEW r \in Roles, Referenced(p)'
      PROVE  Clear(mem'[p].restored[r]) /\ Clear(mem'[p].agents[r])
  <2>1. CASE p = o
    BY <1>1, <1>2, <1>4, <2>1
  <2>2. CASE p # o
    <3>1. Referenced(p)
      BY <1>0, <1>1, <1>3, <1>5, <2>2 DEF Referenced, InUse, TypeOK
    <3>. QED BY <1>0, <1>1, <2>2, <3>1 DEF ClearAgents, Only
  <2>. QED BY <2>1, <2>2
<1>. QED BY <1>3, <1>5 DEF ClearAgents, Clear

LEMMA ClearKept ==
    ASSUME TypeInv, ClearInv, [Next]_vars, \A c \in Callers : ~InsertSession(c)
    PROVE  ClearAgents'
<1>0. TypeOK /\ Attached /\ ClearAgents /\ ClearFiles /\ firm \in Nat /\ turns \in Nat
  BY DEF TypeInv, TypeOK, ClearInv
<1>1. \A p \in Objs : Referenced(p)' => Referenced(p)
  BY <1>0, UsedStep
<1>2. ASSUME NEW c \in Callers, Lookup(c) \/ LockAndRecheck(c) \/ LoadState(c) \/ EnterHandle(c)
      PROVE  ClearAgents'
  BY <1>0, <1>1, <1>2, ClearSame
     DEF Lookup, LockAndRecheck, LoadState, EnterHandle, ghosts
<1>3. ASSUME NEW c \in Callers, BeginTurn(c)
      PROVE  ClearAgents'
  <2> DEFINE o == sess[c]
             q == mem[o].cur
             h == Materialised(o, q)
  <2>1. /\ o \in Objs /\ q \in Roles /\ h \in Seq(Int)
        /\ Only(o)
        /\ mem'[o].agents[q] = Append(h, -(turns + 1)) /\ mem'[o].restored[q] = None
        /\ \A r \in Roles : r # q => /\ mem'[o].agents[r] = mem[o].agents[r]
                                     /\ mem'[o].restored[r] = mem[o].restored[r]
    BY <1>0, <1>3, BeginMem
  <2>2. Referenced(o) /\ firm' = firm
    BY <1>3, UsesIt DEF BeginTurn
  <2>3. \A r \in Roles : Clear(mem[o].restored[r]) /\ Clear(mem[o].agents[r])
    BY <1>0, <2>1, <2>2 DEF ClearAgents
  <2>4. Clear(Append(h, -(turns + 1)))
    <3>1. Clear(h)
      BY <1>0, <2>1, <2>3, ClearStart
    <3>2. turns + 1 \in Nat /\ turns + 1 > firm
      BY <1>0 DEF ClearInv
    <3>. QED BY <1>0, <2>1, <3>1, <3>2, ClearMore
  <2>5. Clear(None)
    BY DEF Clear
  <2> HIDE DEF o, q, h
  <2>6. ASSUME NEW r \in Roles
        PROVE  Clear(mem'[o].restored[r]) /\ Clear(mem'[o].agents[r])
    <3>1. CASE r = q
      BY <2>1, <2>4, <2>5, <3>1
    <3>2. CASE r # q
      BY <2>1, <2>3, <3>2
    <3>. QED BY <3>1, <3>2
  <2>. QED BY <1>0, <1>1, <2>1, <2>2, <2>6, ClearEdit
<1>4. ASSUME NEW c \in Callers, EndTurn(c) \/ (StopTurn(c) /\ pc[c] \in {"turn", "forced"})
      PROVE  ClearAgents'
  <2> DEFINE o == sess[c]
             q == mem[o].cur
             h == mem[o].agents[q]
  <2>1. /\ o \in Objs /\ q \in Roles /\ h \in Hist
        /\ Only(o) /\ mem'[o].restored = mem[o].restored
    BY <1>0, <1>4, EndMem
  <2>2. PICK g \in {Close(h), Rollback(h)} :
           \A r \in Roles : mem'[o].agents[r] = IF r = q THEN g ELSE mem[o].agents[r]
    BY <1>0, <1>4, EndMem
  <2>3. Referenced(o) /\ firm' = firm
    BY <1>4, UsesIt DEF EndTurn, StopTurn, ghosts
  <2>4. \A r \in Roles : Clear(mem[o].restored[r]) /\ Clear(mem[o].agents[r])
    BY <1>0, <2>1, <2>3 DEF ClearAgents
  <2>5. Clear(g)
    BY <1>0, <2>1, <2>2, <2>4, ClearEnds
  <2> HIDE DEF o, q, h
  <2>6. \A r \in Roles : Clear(mem'[o].restored[r]) /\ Clear(mem'[o].agents[r])
    BY <2>1, <2>2, <2>4, <2>5
  <2>. QED BY <1>0, <1>1, <2>1, <2>3, <2>6, ClearEdit
<1>5. ASSUME NEW c \in Callers, PostTurn(c) \/ (StopTurn(c) /\ pc[c] \notin {"turn", "forced"})
      PROVE  ClearAgents'
  BY <1>0, <1>1, <1>5, StopMem, ClearSame DEF PostTurn, StopTurn, ghosts
<1>6. ASSUME NEW c \in Callers, Reset(c)
      PROVE  ClearAgents'
  <2> DEFINE o == sess[c]
  <2>1. /\ o \in Objs /\ Only(o)
        /\ \A r \in Roles : mem'[o].agents[r] = None /\ mem'[o].restored[r] = None
    BY <1>0, <1>6, ResetMem
  <2> HIDE DEF o
  <2>2. CASE HasItAlone(c)
    <3>1. \A p \in Objs : Referenced(p)' => p = o
      BY <2>2, <1>6, NothingElse DEF ClearInv, o
    <3>. QED BY <2>1, <3>1 DEF ClearAgents, Clear
  <2>3. CASE ~HasItAlone(c)
    <3>1. firm' = firm
      BY <1>6, <2>3 DEF Reset
    <3>2. Clear(None)
      BY DEF Clear
    <3>. QED BY <1>0, <1>1, <2>1, <3>1, <3>2, ClearEdit
  <2>. QED BY <2>2, <2>3
<1>7. ASSUME NEW c \in Callers, Transfer(c)
      PROVE  ClearAgents'
  <2> DEFINE o == sess[c]
             q == mem[o].cur
  <2>1. /\ o \in Objs /\ q \in Roles /\ -turnOf[c] \in Int /\ Only(o)
    BY <1>0, <1>7, TransferMem
  <2>2. PICK r \in Roles \ {q} :
           /\ mem'[o].agents[q] = Close(mem[o].agents[q])
           /\ mem'[o].restored[q] = mem[o].restored[q]
           /\ mem'[o].agents[r] = Append(Materialised(o, r), -turnOf[c])
           /\ mem'[o].restored[r] = None
           /\ \A p \in Roles \ {q, r} : /\ mem'[o].agents[p] = mem[o].agents[p]
                                        /\ mem'[o].restored[p] = mem[o].restored[p]
    BY <1>0, <1>7, TransferMem
  <2>3. Referenced(o) /\ firm' = firm
    BY <1>7, UsesIt DEF Transfer, ghosts
  <2>4. \A s \in Roles : Clear(mem[o].restored[s]) /\ Clear(mem[o].agents[s])
    BY <1>0, <2>1, <2>3 DEF ClearAgents
  <2>5. Clear(Close(mem[o].agents[q]))
    BY <1>0, <2>1, <2>4, SessionParts, ClearEnds
  <2>6. Clear(Append(Materialised(o, r), -turnOf[c]))
    <3>1. Materialised(o, r) \in Seq(Int) /\ Clear(Materialised(o, r))
      BY <1>0, <2>1, <2>2, <2>4, ClearStart
    <3>2. turnOf[c] > firm /\ turnOf[c] \in Nat
      BY <1>0, <1>7 DEF ClearInv, Transfer, TypeOK
    <3>. QED BY <1>0, <3>1, <3>2, ClearMore
  <2>7. Clear(None)
    BY DEF Clear
  <2> HIDE DEF o, q
  <2>8. \A s \in Roles : Clear(mem'[o].restored[s]) /\ Clear(mem'[o].agents[s])
    BY <2>2, <2>4, <2>5, <2>6, <2>7
  <2>. QED BY <1>0, <1>1, <2>1, <2>3, <2>8, ClearEdit
<1>8. ASSUME NEW c \in Callers, ForceAnswer(c)
      PROVE  ClearAgents'
  <2> DEFINE o == sess[c]
             q == mem[o].cur
             h == mem[o].agents[q]
             g == IF h = None THEN None ELSE Append(Close(h), -turnOf[c])
  <2>1. /\ o \in Objs /\ q \in Roles /\ h \in Hist
        /\ Only(o) /\ mem'[o].restored = mem[o].restored
        /\ \A r \in Roles : mem'[o].agents[r] = IF r # q THEN mem[o].agents[r] ELSE g
    BY <1>0, <1>8, ForceMem
  <2>2. Referenced(o) /\ firm' = firm
    BY <1>8, UsesIt DEF ForceAnswer, ghosts
  <2>3. \A r \in Roles : Clear(mem[o].restored[r]) /\ Clear(mem[o].agents[r])
    BY <1>0, <2>1, <2>2 DEF ClearAgents
  <2>4. Clear(g)
    <3>1. CASE h = None
      BY <3>1 DEF Clear
    <3>2. CASE h # None
      <4>1. Close(h) \in Seq(Int) /\ Clear(Close(h))
        BY <1>0, <2>1, <2>3, <3>2, ClosedHistory, ClearEnds
      <4>2. turnOf[c] > firm /\ turnOf[c] \in Nat
        BY <1>0, <1>8 DEF ClearInv, ForceAnswer, TypeOK
      <4>. QED BY <1>0, <3>2, <4>1, <4>2, ClearMore
    <3>. QED BY <3>1, <3>2
  <2> HIDE DEF o, q, h, g
  <2>5. \A r \in Roles : Clear(mem'[o].restored[r]) /\ Clear(mem'[o].agents[r])
    BY <2>1, <2>3, <2>4
  <2>. QED BY <1>0, <1>1, <2>1, <2>2, <2>5, ClearEdit
<1>9. CASE \/ SnapshotVictim \/ FlushDue \/ FlushWrite
          \/ Evict \/ Shutdown \/ UNCHANGED vars
  <2>1. mem' = mem /\ firm' = firm
    BY <1>9 DEF SnapshotVictim, FlushDue, FlushWrite, Evict, Shutdown, vars, ghosts
  <2>. QED BY <1>0, <1>1, <2>1, ClearSame
<1>11. CASE FlushVictim
  <2>1. /\ firm' = firm
        /\ \A o \in Objs : mem'[o] = mem[o] \/ mem'[o] = Blank
        /\ \A r \in Roles : Blank.agents[r] = None /\ Blank.restored[r] = None
    BY <1>0, <1>11, DropMem DEF FlushVictim, ghosts
  <2>2. Clear(None)
    BY DEF Clear
  <2>3. ASSUME NEW o \in Objs, NEW r \in Roles, Referenced(o)'
        PROVE  Clear(mem'[o].restored[r]) /\ Clear(mem'[o].agents[r])
    BY <1>0, <1>1, <2>1, <2>2, <2>3 DEF ClearAgents
  <2>. QED BY <2>1, <2>3 DEF ClearAgents, Clear
<1>10. CASE Exit \/ Crash
  <2>1. \A o \in Objs, r \in Roles : mem'[o].agents[r] = None /\ mem'[o].restored[r] = None
    BY <1>10 DEF Exit, Crash, Boot, Blank, NoHistories
  <2>. QED BY <2>1 DEF ClearAgents, Clear
<1>. QED BY <1>2, <1>3, <1>4, <1>5, <1>6, <1>7, <1>8, <1>9, <1>10, <1>11
         DEF Next, Step, Flush

LEMMA ClearAgentsStep ==
    ASSUME TypeInv, ClearInv, [Next]_vars
    PROVE  ClearAgents'
BY ClearInsert, ClearKept

LEMMA ClearFilesStep ==
    ASSUME TypeInv, ClearInv, [Next]_vars
    PROVE  ClearFiles'
<1>0. TypeOK /\ Attached /\ ClearFiles /\ ClearAgents
  BY DEF TypeInv, ClearInv
<1>1. ClearSnapshot(None)
  BY DEF ClearSnapshot
\* A snapshot of the session that may be written is clear.
<1>2. ASSUME NEW o \in Objs, Referenced(o)
      PROVE  ClearSnapshot(SnapshotOf(o))
  <2>1. \A r \in Roles : Clear(mem[o].agents[r])
    BY <1>0, <1>2 DEF ClearAgents
  <2>. QED BY <1>0, <2>1, SnapshotParts DEF ClearSnapshot
\* It is enough to look at the snapshots, as long as nothing is firm.
<1>3. ASSUME firm' = firm, \A s \in writes' : ClearSnapshot(s),
             ClearSnapshot(disk'), ClearSnapshot(pending'), ClearSnapshot(victimSnap'),
             \A c \in Callers : ClearSnapshot(built'[c])
      PROVE  ClearFiles'
  BY <1>3 DEF ClearFiles, ClearSnapshot, Clear
<1>4. ASSUME NEW c \in Callers, PostTurn(c)
      PROVE  ClearFiles'
  <2>1. sess[c] \in Objs /\ Referenced(sess[c])
    BY <1>0, <1>4, HasSession, UsesIt DEF PostTurn
  <2>2. ClearSnapshot(pending')
    BY <1>2, <1>4, <2>1 DEF PostTurn
  <2>3. \A d \in Callers : ClearSnapshot(built'[d])
    BY <1>0, <1>1, <1>4 DEF PostTurn, Leave, TypeOK, ClearFiles
  <2>4. firm' = firm /\ UNCHANGED <<writes, disk, victimSnap>>
    BY <1>4 DEF PostTurn, Leave, ghosts
  <2>. QED BY <1>0, <1>3, <2>2, <2>3, <2>4 DEF ClearFiles
<1>5. ASSUME NEW c \in Callers, Reset(c)
      PROVE  ClearFiles'
  <2>1. \A r \in Roles : disk'.hist[r] = None
    BY <1>0, <1>5, ResetMem
  <2>2. pending' = None /\ victimSnap' = victimSnap /\ writes' = writes
    BY <1>5 DEF Reset, Leave
  <2>3. CASE HasItAlone(c)
    <3>1. (\A d \in Callers : built'[d] = None) /\ writes' = {} /\ victimSnap' = None
      BY <1>5, <2>3, NothingElse DEF ClearInv
    <3>. QED BY <2>1, <2>2, <3>1 DEF ClearFiles, ClearSnapshot, Clear
  <2>4. CASE ~HasItAlone(c)
    <3>1. firm' = firm
      BY <1>5, <2>4 DEF Reset
    <3>2. \A d \in Callers : ClearSnapshot(built'[d])
      BY <1>0, <1>1, <1>5 DEF Reset, Leave, TypeOK, ClearFiles
    <3>3. ClearSnapshot(disk')
      BY <2>1 DEF ClearSnapshot, Clear
    <3>. QED BY <1>0, <1>1, <1>3, <2>2, <3>1, <3>2, <3>3 DEF ClearFiles
  <2>. QED BY <2>3, <2>4
<1>6. ASSUME NEW c \in Callers, StopTurn(c)
      PROVE  ClearFiles'
  <2>1. \A d \in Callers : ClearSnapshot(built'[d])
    BY <1>0, <1>1, <1>6 DEF StopTurn, Leave, TypeOK, ClearFiles
  <2>2. UNCHANGED <<firm, writes, disk, pending, victimSnap>>
    BY <1>6 DEF StopTurn, Leave, flushVars, ghosts
  <2>. QED BY <1>0, <1>3, <2>1, <2>2 DEF ClearFiles
<1>7. ASSUME NEW c \in Callers, LoadState(c)
      PROVE  ClearFiles'
  <2>1. ClearSnapshot(FreshState)
    BY DEF ClearSnapshot, FreshState, NoHistories, Clear
  <2>2. \A d \in Callers : ClearSnapshot(built'[d])
    BY <1>0, <1>7, <2>1 DEF LoadState, TypeOK, ClearFiles
  <2>3. UNCHANGED <<firm, writes, disk, pending, victimSnap>>
    BY <1>7 DEF LoadState, cacheVars, flushVars, ghosts
  <2>. QED BY <1>0, <1>3, <2>2, <2>3 DEF ClearFiles
<1>8. ASSUME NEW c \in Callers, InsertSession(c)
      PROVE  ClearFiles'
  <2>1. \A d \in Callers : ClearSnapshot(built'[d])
    BY <1>0, <1>1, <1>8 DEF InsertSession, TypeOK, ClearFiles
  <2>2. UNCHANGED <<firm, writes, disk, pending, victimSnap>>
    BY <1>8 DEF InsertSession, flushVars, ghosts
  <2>. QED BY <1>0, <1>3, <2>1, <2>2 DEF ClearFiles
<1>9. ASSUME NEW c \in Callers,
             Lookup(c) \/ LockAndRecheck(c) \/ EnterHandle(c) \/ BeginTurn(c) \/ EndTurn(c)
             \/ Transfer(c) \/ ForceAnswer(c)
      PROVE  ClearFiles'
  <2>1. UNCHANGED <<firm, disk, pending, victimSnap, writes, built>>
    BY <1>9 DEF Lookup, LockAndRecheck, EnterHandle, BeginTurn, EndTurn, Transfer, ForceAnswer,
                cacheVars, flushVars, callerVars, ghosts
  <2>. QED BY <1>0, <1>3, <2>1 DEF ClearFiles
<1>10. CASE SnapshotVictim
  <2>1. victim \in Objs
    BY <1>0, <1>10 DEF SnapshotVictim, TypeOK
  <2>2. ClearSnapshot(victimSnap') /\ UNCHANGED <<firm, writes, disk, pending, built>>
    BY <1>2, <1>10, <2>1 DEF Referenced, SnapshotVictim, callerVars, flushVars, ghosts
  <2>. QED BY <1>0, <1>3, <2>2 DEF ClearFiles
<1>11. CASE FlushVictim
  <2>1. disk' = victimSnap /\ victimSnap' = None /\ UNCHANGED <<firm, writes, pending, built>>
    BY <1>11 DEF FlushVictim, callerVars, ghosts
  <2>. QED BY <1>0, <1>1, <1>3, <2>1 DEF ClearFiles
<1>12. CASE FlushDue
  <2>1. /\ pending' = None /\ UNCHANGED <<firm, victimSnap, built>>
        /\ disk' \in {disk, pending} /\ writes' \subseteq writes \cup {pending}
    BY <1>12 DEF FlushDue, StartWrite, cacheVars, callerVars, ghosts
  <2>. QED BY <1>0, <1>1, <1>3, <2>1 DEF ClearFiles
<1>13. CASE FlushWrite
  <2>1. /\ UNCHANGED <<firm, victimSnap, built, pending>>
        /\ disk' \in writes /\ writes' \subseteq writes
    BY <1>13 DEF FlushWrite, cacheVars, callerVars, ghosts
  <2>. QED BY <1>0, <1>3, <2>1 DEF ClearFiles
<1>14. CASE Evict \/ UNCHANGED vars
  <2>1. UNCHANGED <<firm, disk, pending, victimSnap, writes, built>>
    BY <1>14 DEF Evict, vars, cacheVars, flushVars, callerVars, ghosts
  <2>. QED BY <1>0, <1>3, <2>1 DEF ClearFiles
<1>15. CASE Shutdown
  <2>1. cached # None => cached \in Objs
    BY <1>0 DEF TypeOK
  <2>2. ClearSnapshot(disk')
    BY <1>0, <1>2, <1>15, <2>1 DEF Referenced, Shutdown, ClearFiles
  <2>3. pending' = None /\ UNCHANGED <<firm, writes, victimSnap, built>>
    BY <1>15 DEF Shutdown, cacheVars, callerVars, ghosts
  <2>. QED BY <1>0, <1>1, <1>3, <2>2, <2>3 DEF ClearFiles
<1>16. CASE Exit \/ Crash
  <2>1. /\ pending' = None /\ victimSnap' = None /\ writes' = {} /\ UNCHANGED <<disk, firm>>
        /\ \A c \in Callers : built'[c] = None
    BY <1>16 DEF Exit, Crash, Boot, ghosts
  <2>. QED BY <1>0, <1>1, <1>3, <2>1 DEF ClearFiles
<1>. QED BY <1>4, <1>5, <1>6, <1>7, <1>8, <1>9, <1>10, <1>11, <1>12, <1>13, <1>14,
            <1>15, <1>16 DEF Next, Step, Flush

LEMMA ClearInit == Init => ClearInv
<1> SUFFICES ASSUME Init
             PROVE  ClearInv
  OBVIOUS
<1>1. ClearAgents
  BY DEF Init, ClearAgents, Blank, NoHistories, Clear
<1>2. ClearFiles
  BY DEF Init, ClearFiles, ClearSnapshot
<1>. QED BY <1>1, <1>2 DEF ClearInv, Init

\* The snapshot of an evicted session is there while it is being flushed.
LEMMA VictimStep ==
    ASSUME victimSnap # None => victim # None, [Next]_vars
    PROVE  victimSnap' # None => victim' # None
<1>1. ASSUME NEW c \in Callers, Lookup(c) \/ Step(c) \/ Transfer(c) \/ ForceAnswer(c) \/ StopTurn(c)
      PROVE  UNCHANGED <<victim, victimSnap>>
  BY <1>1 DEF Lookup, Step, LockAndRecheck, LoadState, InsertSession, EnterHandle, BeginTurn,
              EndTurn, PostTurn, Reset, Leave, Transfer, ForceAnswer, StopTurn, cacheVars
<1>2. CASE Flush \/ Evict \/ Shutdown \/ Exit \/ Crash \/ UNCHANGED vars
  BY <1>2, StoreAssumption
     DEF Flush, SnapshotVictim, FlushVictim, FlushDue, FlushWrite, Evict, Shutdown, Exit, Crash,
         Boot, vars, cacheVars
<1>. QED BY <1>1, <1>2 DEF Next

LEMMA ClearStep ==
    ASSUME TypeInv, ClearInv, [Next]_vars
    PROVE  ClearInv'
<1>1. ClearFiles' /\ ClearAgents'
  BY ClearFilesStep, ClearAgentsStep
<1>2. YoungTurns' /\ firm' <= turns'
  BY YoungStep DEF ClearInv, YoungTurns
<1>3. victimSnap' # None => victim' # None
  BY VictimStep DEF ClearInv
<1>. QED BY <1>1, <1>2, <1>3 DEF ClearInv, YoungTurns

\* After a /new that had the session to itself no turn from before it is on
\* disk, or comes back to disk or to memory: not by the flush that was pending,
\* an eviction (of a busy session too), a slow thread, a shutdown in the middle
\* of a turn, a crash, or another /new that meets a turn.
THEOREM NewForgets == Spec => []ResetSticks
<1> DEFINE Inv == TypeInv /\ ClearInv
<1>1. Init => Inv
  BY TypeInit, ClearInit
<1>2. Inv /\ [Next]_vars => Inv'
  BY TypeStep, ClearStep
<1>3. ASSUME Inv
      PROVE  ResetSticks
  <2>0. firm \in Nat /\ TypeOK /\ ClearFiles /\ ClearAgents
    BY <1>3 DEF TypeInv, TypeOK, ClearInv
  <2>1. ASSUME NEW h \in Hist, Clear(h), NEW t \in 1..firm
        PROVE  ~Remembers(h, t)
    <3> SUFFICES ASSUME h # None, NEW i \in 1..Len(h), h[i] \in {t, -t}
                 PROVE  FALSE
      BY DEF Remembers
    <3>1. h \in Seq(Int) /\ h[i] \in Int
      BY DEF Hist
    <3>2. h[i] > firm \/ h[i] < -firm
      BY <2>1 DEF Clear
    <3>. QED BY <2>0, <3>1, <3>2
  <2>2. ASSUME NEW r \in Roles, disk # None
        PROVE  disk.hist[r] \in Hist /\ Clear(disk.hist[r])
    BY <2>0, <2>2 DEF ClearFiles, ClearSnapshot, TypeOK, Snapshot, Hist
  <2>3. ASSUME NEW r \in Roles, cached # None
        PROVE  Known(cached, r) \in Hist /\ Clear(Known(cached, r))
    <3>1. cached \in Objs /\ Referenced(cached)
      BY <2>0, <2>3 DEF TypeOK, Referenced
    <3>. QED BY <2>0, <3>1, MaterialisedIsHistory DEF ClearAgents, Known
  <2>. QED BY <2>1, <2>2, <2>3 DEF ResetSticks, Forgotten
<1>. QED BY <1>1, <1>2, <1>3, PTL DEF Spec

\* Types and /new, whatever happens and however slow the threads are.
THEOREM DiskStaysSound == Spec => []DiskSound
<1>1. TypeInv /\ ResetSticks => DiskSound
  BY DEF TypeInv, DiskSound
<1>. QED BY <1>1, TypesHold, NewForgets, PTL
=============================================================================
