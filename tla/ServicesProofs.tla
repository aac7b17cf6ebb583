--------------------------- MODULE ServicesProofs ---------------------------
(***************************************************************************)
(* Theorems about the parts that wait for others, as MCServices has them:  *)
(* about LlmCall for any callers, pairs and number of keys; about LlmStream*)
(* for any bounds on texts and attempts and any window and step of the loop*)
(* check; about Workspace for any number of commands, whatever their       *)
(* processes do; about McpServers for any sequence of servers and any      *)
(* calls; about Daemon for any pids and commands.                          *)
(***************************************************************************)
EXTENDS MCServices, FiniteSetTheorems, WellFoundedInduction, SequenceTheorems, TLAPS

\* An entry of key_order is the index of a key.
LEMMA KeyInRange ==
    ASSUME NEW b \in Keys, NEW i \in Keys
    PROVE  (b + i) % NKeys \in Keys
BY CallAssumption DEF Keys

\* key_order goes all the way round: every key is in it.
LEMMA KeyReached ==
    ASSUME NEW b \in Keys, NEW k \in Keys
    PROVE  \E i \in Keys : (b + i) % NKeys = k
<1>1. CASE k >= b
  <2>1. k - b \in Keys
    BY <1>1, CallAssumption DEF Keys
  <2>2. (b + (k - b)) % NKeys = k
    BY <1>1, CallAssumption DEF Keys
  <2> QED BY <2>1, <2>2
<1>2. CASE k < b
  <2>1. k - b + NKeys \in Keys
    BY <1>2, CallAssumption DEF Keys
  <2>2. (b + (k - b + NKeys)) % NKeys = k
    BY <1>2, CallAssumption DEF Keys
  <2> QED BY <2>1, <2>2
<1> QED BY <1>1, <1>2, CallAssumption DEF Keys

-----------------------------------------------------------------------------
(* The inductive invariant *)

\* The variables of a call, for arithmetic.
LEMMA CallTypes ==
    ASSUME TypeOK, NEW c \in Callers
    PROVE  /\ attempt[c] \in Nat /\ limit[c] \in Nat /\ least[c] \in Nat
           /\ maxRetries \in Nat
           /\ pos[c] \in Keys /\ bound[c] \in Keys
           /\ tried[c] \in [Keys -> Nat]
<1>1. Retries \cup {0} \subseteq Nat
  BY CallAssumption
<1>2. limit[c] \in Retries \cup {0} /\ least[c] \in Retries \cup {0}
  BY DEF TypeOK
<1>3. maxRetries \in Retries /\ attempt[c] \in Nat
  BY DEF TypeOK
<1>4. pos[c] \in Keys /\ bound[c] \in Keys /\ tried[c] \in [Keys -> Nat]
  BY DEF TypeOK
<1> QED BY <1>1, <1>2, <1>3, <1>4

\* A call whose own variables do not move keeps its invariant.
LEMMA Untouched ==
    ASSUME IInv, NEW d \in Callers,
           pc'[d] = pc[d], bound'[d] = bound[d], pos'[d] = pos[d],
           attempt'[d] = attempt[d], limit'[d] = limit[d], tried'[d] = tried[d],
           refused'[d] = refused[d], least'[d] = least[d],
           maxRetries' = maxRetries
    PROVE  CallInv(d)'
BY DEF IInv, CallInv, Served, KeyAt, KeyNo

\* The current key of a call that has not begun to wind up, and its successor,
\* are keys.
LEMMA CurrentKey ==
    ASSUME TypeOK, NEW c \in Callers, NEW i \in Keys
    PROVE  KeyNo(c, i) \in Keys
BY KeyInRange DEF TypeOK, KeyNo

\* GiveUpKey keeps the invariant if the key that is given up has had its
\* chance: the next key starts a range of its own, or the call is raised with
\* the circle complete.
LEMMA GiveUpKeepsInv ==
    ASSUME IInv, NEW c \in Callers,
           pc[c] \in {"calling", "backoff"},
           GiveUpKey(c),
           UNCHANGED <<routerVars, maxRetries, bound, least>>,
           refused' \in [Callers -> SUBSET Keys],
           \A d \in Callers \ {c} : refused'[d] = refused[d],
           refused[c] \subseteq refused'[c],
           KeyAt(c) \in refused'[c] \/ tried[c][KeyAt(c)] >= least[c]
    PROVE  IInv'
<1> USE DEF IInv
<1>1. pos[c] \in Keys /\ bound[c] \in Keys /\ tried[c] \in [Keys -> Nat]
  BY DEF TypeOK
<1>2. KeyAt(c) \in Keys
  BY <1>1, CurrentKey DEF KeyAt
<1>3. CallInv(c) /\ least[c] \in Nat /\ maxRetries \in Nat
  BY CallAssumption DEF CallInv, TypeOK
<1>4. \A i \in 0..pos[c] : KeyNo(c, i) \in Keys
  <2> TAKE i \in 0..pos[c]
  <2>1. i \in Keys
    BY <1>1, CallAssumption DEF Keys
  <2> QED BY <2>1, CurrentKey
<1>5. \A i \in 0..pos[c] :
         KeyNo(c, i) \in refused'[c] \/ tried[c][KeyNo(c, i)] >= least[c]
  <2> TAKE i \in 0..pos[c]
  <2>1. CASE i = pos[c]
    BY <2>1 DEF KeyAt
  <2>2. CASE i # pos[c]
    <3>1. i \in 0..(pos[c] - 1)
      BY <2>2, <1>1, CallAssumption DEF Keys
    <3> QED BY <3>1, <1>3 DEF CallInv, Served
  <2> QED BY <2>1, <2>2
<1>6. CASE pos[c] + 1 < NKeys
  <2>1. pos[c] + 1 \in Keys
    BY <1>6, <1>1, CallAssumption DEF Keys
  <2>2. KeyNo(c, pos[c] + 1) \in Keys
    BY <2>1, CurrentKey
  <2> DEFINE k == KeyNo(c, pos[c] + 1)
  <2>3. /\ pos' = [pos EXCEPT ![c] = pos[c] + 1]
        /\ attempt' = [attempt EXCEPT ![c] = 0]
        /\ limit' = [limit EXCEPT ![c] = maxRetries]
        /\ tried' = [tried EXCEPT ![c][k] = @ + 1]
        /\ pc' = [pc EXCEPT ![c] = "calling"]
    BY <1>6 DEF GiveUpKey, Attempts
  <2>4. tried'[c] = [tried[c] EXCEPT ![k] = @ + 1]
    BY <2>3 DEF TypeOK
  <2>5. \A j \in Keys : tried'[c][j] \in Nat /\ tried'[c][j] >= tried[c][j]
    BY <2>4, <1>1, <2>2
  <2>6. tried' \in [Callers -> [Keys -> Nat]]
    BY <2>3, <2>2, <1>1 DEF TypeOK
  <2>7. TypeOK'
    BY <2>1, <2>3, <2>6 DEF TypeOK, routerVars
  <2>8. CallInv(c)'
    <3>1. /\ pc'[c] = "calling" /\ pos'[c] = pos[c] + 1 /\ attempt'[c] = 0
          /\ limit'[c] = maxRetries /\ bound'[c] = bound[c] /\ least'[c] = least[c]
      BY <2>3 DEF TypeOK
    <3>2. \A i \in 0..pos[c] : Served(c, KeyNo(c, i))'
      <4> TAKE i \in 0..pos[c]
      <4>1. tried'[c][KeyNo(c, i)] >= tried[c][KeyNo(c, i)]
        BY <1>4, <2>5
      <4>2. KeyNo(c, i)' = KeyNo(c, i)
        BY <3>1 DEF KeyNo
      <4>3. tried[c][KeyNo(c, i)] \in Nat /\ tried'[c][KeyNo(c, i)] \in Nat
        BY <1>1, <1>4, <2>5
      <4> QED BY <1>3, <1>5, <3>1, <4>1, <4>2, <4>3 DEF Served
    <3>3. tried'[c][k] >= 1
      BY <2>4, <2>2, <1>1
    <3>4. KeyAt(c)' = k
      BY <3>1 DEF KeyAt, KeyNo
    <3>5. least[c] \in Retries /\ least[c] <= maxRetries
      BY <1>3 DEF CallInv
    <3>6. 0..(pos'[c] - 1) = 0..pos[c]
      BY <3>1, <1>1, CallAssumption DEF Keys
    <3>7. \A i \in 0..(pos'[c] - 1) : Served(c, KeyNo(c, i))'
      BY <3>2, <3>6
    <3> QED BY <3>1, <3>3, <3>4, <3>5, <3>7 DEF CallInv
  <2>9. ASSUME NEW d \in Callers, d # c PROVE CallInv(d)'
    BY <2>9, <2>3, Untouched DEF TypeOK
  <2> QED BY <2>7, <2>8, <2>9
<1>7. CASE ~(pos[c] + 1 < NKeys)
  <2>1. /\ pc' = [pc EXCEPT ![c] = "raised"]
        /\ UNCHANGED <<pos, attempt, limit, tried>>
    BY <1>7 DEF GiveUpKey
  <2>2. TypeOK'
    BY <2>1 DEF TypeOK, routerVars
  <2>3. pos[c] = NKeys - 1
    BY <1>1, <1>7, CallAssumption DEF Keys
  <2>4. CallInv(c)'
    <3>1. pc'[c] = "raised"
      BY <2>1 DEF TypeOK
    <3>2. \A i \in 0..pos[c] : Served(c, KeyNo(c, i))'
      BY <1>5, <2>1 DEF Served, KeyNo
    <3>3. Served(c, KeyAt(c))'
      BY <3>2, <1>1, <2>1, CallAssumption DEF KeyAt, Keys, Served, KeyNo
    <3>4. \A i \in 0..(pos[c] - 1) : Served(c, KeyNo(c, i))'
      <4>1. pos[c] \in Nat
        BY <1>1, CallAssumption DEF Keys
      <4>2. \A i \in 0..(pos[c] - 1) : i \in 0..pos[c]
        BY <4>1
      <4> QED BY <3>2, <4>2
    <3>5. least[c] \in Retries /\ least[c] <= maxRetries /\ least[c] <= limit[c]
      BY <1>3 DEF CallInv
    <3> QED BY <2>1, <2>3, <3>1, <3>3, <3>4, <3>5 DEF CallInv
  <2>5. ASSUME NEW d \in Callers, d # c PROVE CallInv(d)'
    BY <2>5, <2>1, Untouched DEF TypeOK
  <2> QED BY <2>2, <2>4, <2>5
<1> QED BY <1>6, <1>7

\* A call that ends is idle, of which the invariant says nothing.
LEMMA LeaveKeepsInv ==
    ASSUME IInv, NEW c \in Callers, Leave(c)
    PROVE  IInv'
<1>1. TypeOK'
  <2>1. 0 \in Keys /\ Untried \in [Keys -> Nat]
    BY CallAssumption DEF Keys, Untried
  <2> QED BY <2>1 DEF IInv, TypeOK, Leave, routerVars
<1>2. CallInv(c)'
  BY DEF IInv, TypeOK, Leave, CallInv
<1>3. ASSUME NEW d \in Callers, d # c PROVE CallInv(d)'
  BY <1>3, Untouched DEF IInv, TypeOK, Leave
<1> QED BY <1>1, <1>2, <1>3 DEF IInv

\* The router and the first attempt: whatever key select() returns is a key.
LEMMA BeginKeepsInv ==
    ASSUME IInv, NEW c \in Callers, NEW p \in Pairs, Begin(c, p)
    PROVE  IInv'
<1> USE DEF IInv
<1>0. 0 \in Keys /\ 1 \in Nat
  BY CallAssumption DEF Keys
<1>1. NextIndex \in Keys
  BY CallAssumption DEF NextIndex, TypeOK, Keys
<1>2. /\ rr' \in Keys /\ bind' \in [Pairs -> Keys \cup {None}]
      /\ stale' \subseteq Pairs /\ rebound' \in BOOLEAN
      /\ \E k \in Keys : bound' = [bound EXCEPT ![c] = k]
  <2>1. CASE Rotating
    <3>1. Select(c, p) /\ stale' = stale \ {p}
      BY <2>1 DEF Begin
    <3>2. CASE Reusable(p)
      <4>1. bind[p] \in Keys
        BY <3>2 DEF Reusable, TypeOK
      <4> QED BY <3>1, <3>2, <4>1 DEF Select, TypeOK
    <3>3. CASE ~Reusable(p)
      BY <1>1, <3>1, <3>3 DEF Select, TypeOK
    <3> QED BY <3>2, <3>3
  <2>2. CASE ~Rotating
    BY <1>0, <2>2 DEF Begin, routerVars, TypeOK
  <2> QED BY <2>1, <2>2
<1>3. PICK k \in Keys : bound' = [bound EXCEPT ![c] = k]
  BY <1>2
<1>4. bound'[c] = k /\ bound' \in [Callers -> Keys]
  BY <1>3 DEF TypeOK
<1>5. /\ pc' = [pc EXCEPT ![c] = "calling"]
      /\ pos' = [pos EXCEPT ![c] = 0]
      /\ attempt' = [attempt EXCEPT ![c] = 0]
      /\ limit' = [limit EXCEPT ![c] = maxRetries]
      /\ tried' = [tried EXCEPT ![c] = [Untried EXCEPT ![k] = 1]]
      /\ refused' = [refused EXCEPT ![c] = {}]
      /\ least' = [least EXCEPT ![c] = maxRetries]
      /\ maxRetries' = maxRetries
  BY <1>4 DEF Begin
<1>6. [Untried EXCEPT ![k] = 1] \in [Keys -> Nat]
  BY <1>0 DEF Untried
<1>7. TypeOK'
  <2>1. tried' \in [Callers -> [Keys -> Nat]]
    BY <1>5, <1>6 DEF TypeOK
  <2> QED BY <1>0, <1>2, <1>4, <1>5, <2>1 DEF TypeOK
<1>8. CallInv(c)'
  <2>1. /\ pc'[c] = "calling" /\ pos'[c] = 0 /\ attempt'[c] = 0
        /\ limit'[c] = maxRetries /\ least'[c] = maxRetries
        /\ tried'[c][k] = 1
    BY <1>5 DEF TypeOK, Untried
  <2>2. KeyAt(c)' = k
    <3>1. (k + 0) % NKeys = k
      BY CallAssumption DEF Keys
    <3> QED BY <1>4, <2>1, <3>1 DEF KeyAt, KeyNo
  <2>3. maxRetries \in Retries /\ maxRetries \in Nat
    BY CallAssumption DEF TypeOK
  <2>4. 0..(pos'[c] - 1) = {}
    BY <2>1
  <2> QED BY <1>5, <2>1, <2>2, <2>3, <2>4 DEF CallInv
<1>9. ASSUME NEW d \in Callers, d # c PROVE CallInv(d)'
  BY <1>5, <1>3, <1>9, Untouched DEF TypeOK
<1> QED BY <1>7, <1>8, <1>9

LEMMA RetryableKeepsInv ==
    ASSUME IInv, NEW c \in Callers, RetryableError(c)
    PROVE  IInv'
<1> USE DEF IInv
<1>1. /\ pc[c] = "calling" /\ refused' = refused
      /\ UNCHANGED <<routerVars, maxRetries, bound, least>>
  BY DEF RetryableError
<1>2. /\ attempt[c] \in Nat /\ maxRetries \in Nat /\ least[c] \in Nat
      /\ pos[c] \in Keys
  BY CallTypes
<1>3. tried[c][KeyAt(c)] \in Nat
  BY <1>2, CallTypes, CurrentKey DEF KeyAt
<1>4. CASE attempt[c] >= maxRetries - 1
  <2>1. tried[c][KeyAt(c)] >= least[c]
    BY <1>1, <1>2, <1>3, <1>4 DEF CallInv
  <2> QED BY <1>1, <1>4, <2>1, GiveUpKeepsInv DEF RetryableError, TypeOK
<1>5. CASE ~(attempt[c] >= maxRetries - 1)
  <2>1. /\ pc' = [pc EXCEPT ![c] = "backoff"]
        /\ UNCHANGED <<pos, attempt, limit, tried>>
    BY <1>5 DEF RetryableError
  <2>2. TypeOK'
    BY <1>1, <2>1 DEF TypeOK, routerVars
  <2>3. CallInv(c)'
    BY <1>1, <2>1 DEF CallInv, TypeOK, Served, KeyAt, KeyNo
  <2>4. ASSUME NEW d \in Callers, d # c PROVE CallInv(d)'
    BY <1>1, <2>1, <2>4, Untouched DEF TypeOK
  <2> QED BY <2>2, <2>3, <2>4
<1> QED BY <1>4, <1>5

LEMMA BackoffKeepsInv ==
    ASSUME IInv, NEW c \in Callers, BackoffEnds(c)
    PROVE  IInv'
<1> USE DEF IInv
<1>1. /\ pc[c] = "backoff" /\ refused' = refused
      /\ UNCHANGED <<routerVars, maxRetries, bound, least>>
  BY DEF BackoffEnds
<1>2. /\ attempt[c] \in Nat /\ limit[c] \in Nat /\ least[c] \in Nat
      /\ pos[c] \in Keys /\ tried[c] \in [Keys -> Nat]
  BY CallTypes
<1>3. KeyAt(c) \in Keys
  BY <1>2, CurrentKey DEF KeyAt
<1>4. CASE attempt[c] + 1 < limit[c]
  <2>1. /\ pc' = [pc EXCEPT ![c] = "calling"]
        /\ attempt' = [attempt EXCEPT ![c] = @ + 1]
        /\ tried' = [tried EXCEPT ![c][KeyAt(c)] = @ + 1]
        /\ UNCHANGED <<pos, limit>>
    BY <1>4 DEF BackoffEnds, Attempts
  <2>2. /\ tried'[c] = [tried[c] EXCEPT ![KeyAt(c)] = @ + 1]
        /\ attempt'[c] = attempt[c] + 1 /\ pc'[c] = "calling"
    BY <2>1 DEF TypeOK
  <2>3. \A j \in Keys : tried'[c][j] \in Nat /\ tried'[c][j] >= tried[c][j]
    BY <1>2, <1>3, <2>2
  <2>4. tried' \in [Callers -> [Keys -> Nat]]
    BY <1>2, <1>3, <2>1 DEF TypeOK
  <2>5. TypeOK'
    BY <1>1, <2>1, <2>4 DEF TypeOK, routerVars
  <2>6. CallInv(c)'
    <3>1. tried'[c][KeyAt(c)] = tried[c][KeyAt(c)] + 1
      BY <1>2, <1>3, <2>2
    <3>2. tried'[c][KeyAt(c)] >= attempt'[c] + 1
      BY <1>1, <1>2, <1>3, <2>2, <3>1 DEF CallInv
    <3>3. ASSUME NEW i \in 0..(pos[c] - 1) PROVE Served(c, KeyNo(c, i))'
      <4>1. KeyNo(c, i) \in Keys
        <5>1. i \in Keys
          BY <1>2, CallAssumption DEF Keys
        <5> QED BY <5>1, CurrentKey
      <4>2. Served(c, KeyNo(c, i))
        BY <1>1, <3>3 DEF CallInv
      <4>3. tried'[c][KeyNo(c, i)] >= tried[c][KeyNo(c, i)]
        BY <2>3, <4>1
      <4>4. tried[c][KeyNo(c, i)] \in Nat /\ tried'[c][KeyNo(c, i)] \in Nat
        BY <1>2, <2>3, <4>1
      <4>5. KeyNo(c, i)' = KeyNo(c, i)
        BY <1>1 DEF KeyNo
      <4> QED BY <1>1, <1>2, <4>2, <4>3, <4>4, <4>5 DEF Served
    <3>4. KeyAt(c)' = KeyAt(c)
      BY <1>1, <2>1 DEF KeyAt, KeyNo
    <3> QED BY <1>1, <2>1, <2>2, <3>2, <3>3, <3>4 DEF CallInv
  <2>7. ASSUME NEW d \in Callers, d # c PROVE CallInv(d)'
    BY <1>1, <2>1, <2>7, Untouched DEF TypeOK
  <2> QED BY <2>5, <2>6, <2>7
<1>5. CASE ~(attempt[c] + 1 < limit[c])
  <2>1. tried[c][KeyAt(c)] >= least[c]
    BY <1>1, <1>2, <1>3, <1>5 DEF CallInv
  <2> QED BY <1>1, <1>5, <2>1, GiveUpKeepsInv DEF BackoffEnds, TypeOK
<1> QED BY <1>4, <1>5

LEMMA FatalKeepsInv ==
    ASSUME IInv, NEW c \in Callers, FatalError(c)
    PROVE  IInv'
<1>1. KeyAt(c) \in Keys
  BY CurrentKey DEF IInv, TypeOK, KeyAt
<1>2. refused' = [refused EXCEPT ![c] = refused[c] \cup {KeyAt(c)}]
  BY DEF FatalError
<1>3. /\ refused' \in [Callers -> SUBSET Keys]
      /\ \A d \in Callers \ {c} : refused'[d] = refused[d]
      /\ refused[c] \subseteq refused'[c]
      /\ KeyAt(c) \in refused'[c]
  BY <1>1, <1>2 DEF IInv, TypeOK
<1>4. /\ pc[c] \in {"calling", "backoff"} /\ GiveUpKey(c)
      /\ UNCHANGED <<routerVars, maxRetries, bound, least>>
  BY DEF FatalError
<1> QED BY <1>3, <1>4, GiveUpKeepsInv

\* A reload moves max_retries under the calls; the least value follows it down.
LEMMA ReloadKeepsInv ==
    ASSUME IInv, NEW n \in Retries, Reload(n)
    PROVE  IInv'
<1> USE DEF IInv
<1>1. /\ maxRetries' = n
      /\ least' = [c \in Callers |-> IF n < least[c] THEN n ELSE least[c]]
      /\ UNCHANGED <<routerVars, pc, bound, pos, attempt, limit, tried, refused>>
  BY DEF Reload
<1>2. TypeOK'
  BY <1>1 DEF TypeOK, routerVars
<1>3. ASSUME NEW c \in Callers, pc[c] # "idle" PROVE CallInv(c)'
  <2>1. /\ least[c] \in Nat /\ n \in Nat /\ limit[c] \in Nat
        /\ tried[c] \in [Keys -> Nat] /\ pos[c] \in Keys
    BY CallTypes, CallAssumption
  <2>2. /\ least'[c] \in Retries /\ least'[c] <= n /\ least'[c] <= least[c]
        /\ least'[c] \in Nat
    BY <1>1, <1>3, <2>1 DEF CallInv
  <2>3. \A i \in Keys : Served(c, KeyNo(c, i)) => Served(c, KeyNo(c, i))'
    <3> TAKE i \in Keys
    <3>1. tried[c][KeyNo(c, i)] \in Nat
      BY <2>1, CurrentKey
    <3> QED BY <1>1, <2>1, <2>2, <3>1 DEF Served, KeyNo
  <2>4. 0..(pos[c] - 1) \subseteq Keys
    BY <2>1, CallAssumption DEF Keys
  <2>5. Served(c, KeyAt(c)) => Served(c, KeyAt(c))'
    BY <1>1, <2>1, <2>3 DEF KeyAt, KeyNo, Served
  <2>6. \A i \in 0..(pos[c] - 1) : Served(c, KeyNo(c, i))'
    BY <1>3, <2>3, <2>4 DEF CallInv
  <2>7. least'[c] <= limit[c]
    BY <1>3, <2>1, <2>2 DEF CallInv
  <2>8. KeyAt(c)' = KeyAt(c)
    BY <1>1 DEF KeyAt, KeyNo
  <2> QED BY <1>1, <1>3, <2>2, <2>5, <2>6, <2>7, <2>8 DEF CallInv
<1>4. ASSUME NEW c \in Callers, pc[c] = "idle" PROVE CallInv(c)'
  BY <1>1, <1>4 DEF CallInv
<1> QED BY <1>2, <1>3, <1>4

\* IInv is an inductive invariant of a call of the LLM.
THEOREM CallInvariant == Spec => []IInv
<1>1. Init => IInv
  <2> SUFFICES ASSUME Init PROVE IInv
    OBVIOUS
  <2>1. 0 \in Keys
    BY CallAssumption DEF Keys
  <2> QED BY <2>1 DEF Init, IInv, TypeOK, CallInv, Untried
<1>2. IInv /\ [Next]_vars => IInv'
  <2> SUFFICES ASSUME IInv, [Next]_vars PROVE IInv'
    OBVIOUS
  <2>1. ASSUME NEW c \in Callers, NEW p \in Pairs, Begin(c, p) PROVE IInv'
    BY <2>1, BeginKeepsInv
  <2>2. ASSUME NEW c \in Callers, Leave(c) PROVE IInv'
    BY <2>2, LeaveKeepsInv
  <2>3. ASSUME NEW c \in Callers, RetryableError(c) PROVE IInv'
    BY <2>3, RetryableKeepsInv
  <2>4. ASSUME NEW c \in Callers, FatalError(c) PROVE IInv'
    BY <2>4, FatalKeepsInv
  <2>5. ASSUME NEW c \in Callers, BackoffEnds(c) PROVE IInv'
    BY <2>5, BackoffKeepsInv
  <2>6. ASSUME NEW p \in Pairs, GoesIdle(p) PROVE IInv'
    <3>1. TypeOK'
      BY <2>6 DEF IInv, TypeOK, GoesIdle, callVars
    <3>2. \A d \in Callers : CallInv(d)'
      BY <2>6, Untouched DEF GoesIdle, callVars
    <3> QED BY <3>1, <3>2 DEF IInv
  <2>7. ASSUME NEW n \in Retries, Reload(n) PROVE IInv'
    BY <2>7, ReloadKeepsInv
  <2>8. CASE UNCHANGED vars
    <3>1. TypeOK'
      BY <2>8 DEF IInv, TypeOK, vars, routerVars, callVars
    <3>2. \A d \in Callers : CallInv(d)'
      BY <2>8, Untouched DEF vars, callVars
    <3> QED BY <3>1, <3>2 DEF IInv
  <2> QED
    BY <2>1, <2>2, <2>3, <2>4, <2>5, <2>6, <2>7, <2>8
    DEF Next, Ends, Succeeds, Raises, Cancelled
<1> QED BY <1>1, <1>2, PTL DEF Spec

\* The variables of the router and of every call keep their types.
THEOREM TypeCorrect == Spec => []TypeOK
BY CallInvariant, PTL DEF IInv

\* complete() raises only after every key refused the call or was tried as
\* often as max_retries asked for, with any number of keys, wherever the call
\* began and whatever was reloaded meanwhile.
THEOREM RaisesAfterAllKeys == Spec => []RaisedAfterAllKeys
<1>1. IInv => RaisedAfterAllKeys
  <2> SUFFICES ASSUME IInv, NEW c \in Callers, pc[c] = "raised", NEW k \in Keys
               PROVE  k \in refused[c] \/ tried[c][k] >= least[c]
    BY DEF RaisedAfterAllKeys
  <2>1. bound[c] \in Keys /\ pos[c] = NKeys - 1
    BY DEF IInv, TypeOK, CallInv
  <2>2. PICK i \in Keys : (bound[c] + i) % NKeys = k
    BY <2>1, KeyReached
  <2>3. KeyNo(c, i) = k
    BY <2>2 DEF KeyNo
  <2>4. CASE i = pos[c]
    BY <2>3, <2>4 DEF IInv, CallInv, KeyAt, Served
  <2>5. CASE i # pos[c]
    <3>1. i \in 0..(pos[c] - 1)
      BY <2>1, <2>5, CallAssumption DEF Keys
    <3> QED BY <2>3, <3>1 DEF IInv, CallInv, Served
  <2> QED BY <2>4, <2>5
<1> QED BY <1>1, CallInvariant, PTL

\* Only going idle moves a binding: no failure, no retry and no reload does.
THEOREM BindingsStick == Spec => BindingSticks
<1>1. TypeOK /\ [Next]_vars =>
         [\A p \in Pairs : Reusable(p) => bind'[p] = bind[p]]_vars
  <2> SUFFICES ASSUME TypeOK, Next, NEW q \in Pairs, Reusable(q) PROVE bind'[q] = bind[q]
    OBVIOUS
  <2>1. ASSUME NEW c \in Callers, NEW p \in Pairs, Begin(c, p)
        PROVE  bind'[q] = bind[q]
    <3>1. CASE Rotating /\ ~Reusable(p)
      BY <2>1, <3>1 DEF Begin, Select, TypeOK
    <3>2. CASE Rotating /\ Reusable(p)
      BY <2>1, <3>2 DEF Begin, Select
    <3>3. CASE ~Rotating
      BY <2>1, <3>3 DEF Begin, routerVars
    <3> QED BY <3>1, <3>2, <3>3
  <2>2. ASSUME NEW c \in Callers, Ends(c) \/ Cancelled(c) PROVE bind' = bind
    BY <2>2 DEF Ends, Cancelled, Succeeds, Raises, Leave, RetryableError,
                FatalError, BackoffEnds, routerVars
  <2>3. ASSUME NEW p \in Pairs, GoesIdle(p) PROVE bind' = bind
    BY <2>3 DEF GoesIdle
  <2>4. ASSUME NEW n \in Retries, Reload(n) PROVE bind' = bind
    BY <2>4 DEF Reload, routerVars
  <2> QED BY <2>1, <2>2, <2>3, <2>4 DEF Next
<1> QED BY <1>1, TypeCorrect, PTL DEF Spec, BindingSticks

\* No failure of a call comes early, for any number of keys, pairs and calls.
THEOREM CallIsSound == Spec => []CallSound
<1>1. TypeOK /\ RaisedAfterAllKeys => CallSound
  BY DEF CallSound
<1> QED BY <1>1, TypeCorrect, RaisesAfterAllKeys, PTL

-----------------------------------------------------------------------------
(* The spread of the pairs over the keys *)

\* A pair that has no key yet is bound to the next one: its load grows by one,
\* the others stay, and the round goes on or, at key 0, ends.
LEMMA BindKeepsSpread ==
    ASSUME TypeOK, SpreadInv, ~rebound,
           NEW p \in Pairs, bind[p] = None,
           NEW n \in Keys, n = NextIndex,
           bind' = [bind EXCEPT ![p] = n], rr' = n
    PROVE  \A k \in Keys : /\ IsFiniteSet(PairsOf(k)')
                           /\ Load(k)' = IF k \in 1..rr' THEN Load(0)' + 1 ELSE Load(0)'
<1> USE DEF SpreadInv
<1>1. PairsOf(n)' = PairsOf(n) \cup {p} /\ p \notin PairsOf(n)
  BY CallAssumption DEF PairsOf, TypeOK, Keys
<1>2. \A k \in Keys \ {n} : PairsOf(k)' = PairsOf(k)
  BY CallAssumption DEF PairsOf, TypeOK, Keys
<1>3. \A k \in Keys : Load(k) = Cardinality(PairsOf(k)) /\ Load(k)' = Cardinality(PairsOf(k)')
  BY DEF Load, PairsOf
<1>4. Load(n)' = Load(n) + 1 /\ IsFiniteSet(PairsOf(n)')
  BY <1>1, <1>3, FS_AddElement
<1>5. \A k \in Keys : IsFiniteSet(PairsOf(k)')
  BY <1>2, <1>4
<1>6. \A k \in Keys : Load(k)' = IF k = n THEN Load(k) + 1 ELSE Load(k)
  BY <1>2, <1>3, <1>4
<1>7. /\ rr \in 0..(NKeys - 1) /\ NKeys \in Nat \ {0} /\ rr' = (rr + 1) % NKeys
      /\ 0 \in Keys
  BY CallAssumption DEF TypeOK, Keys, NextIndex
<1>8. Load(0) \in Nat
  BY <1>3, <1>7, FS_CardinalityType
<1>9. CASE rr + 1 < NKeys
  <2>1. rr' = rr + 1 /\ Load(0)' = Load(0)
    BY <1>6, <1>7, <1>9
  <2> QED BY <1>5, <1>6, <1>7, <1>8, <2>1 DEF Keys
<1>10. CASE ~(rr + 1 < NKeys)
  <2>1. rr = NKeys - 1 /\ rr' = 0 /\ Load(0)' = Load(0) + 1
    BY <1>6, <1>7, <1>10
  <2> QED BY <1>5, <1>6, <1>7, <1>8, <2>1 DEF Keys
<1> QED BY <1>9, <1>10

\* Until a binding goes idle and is replaced, no key has more than one pair more
\* than another, for any number of keys and of pairs.
THEOREM PairsSpreadEvenly == Spec => []EvenSpread
<1>1. Init => SpreadInv
  <2> SUFFICES ASSUME Init PROVE SpreadInv
    OBVIOUS
  <2>1. \A k \in Keys : PairsOf(k) = {}
    BY CallAssumption DEF Init, PairsOf, Keys
  <2>2. \A k \in Keys : Load(k) = 0 /\ IsFiniteSet(PairsOf(k))
    BY <2>1, FS_EmptySet DEF Load, PairsOf
  <2>3. 0 \in Keys /\ 1..rr = {}
    BY CallAssumption DEF Init, Keys
  <2> QED BY <2>2, <2>3 DEF SpreadInv
<1>2. TypeOK /\ SpreadInv /\ [Next]_vars => SpreadInv'
  <2> SUFFICES ASSUME TypeOK, SpreadInv, [Next]_vars PROVE SpreadInv'
    OBVIOUS
  <2>1. CASE bind' = bind /\ rr' = rr /\ rebound' = rebound
    BY <2>1 DEF SpreadInv, PairsOf, Load
  <2>2. ASSUME NEW c \in Callers, NEW p \in Pairs, Begin(c, p) PROVE SpreadInv'
    <3>1. CASE Rotating /\ ~Reusable(p)
      <4>1. /\ rr' = NextIndex /\ bind' = [bind EXCEPT ![p] = NextIndex]
            /\ rebound' = (rebound \/ bind[p] # None)
        BY <2>2, <3>1 DEF Begin, Select
      <4>2. CASE ~rebound'
        <5>1. ~rebound /\ bind[p] = None
          BY <4>1, <4>2
        <5>2. NextIndex \in Keys
          BY CallAssumption DEF NextIndex, TypeOK, Keys
        <5> QED BY <4>1, <5>1, <5>2, BindKeepsSpread DEF SpreadInv
      <4> QED BY <4>2 DEF SpreadInv
    <3>2. CASE ~(Rotating /\ ~Reusable(p))
      BY <2>1, <2>2, <3>2 DEF Begin, Select, routerVars
    <3> QED BY <3>1, <3>2
  <2>3. ASSUME NEW c \in Callers, Ends(c) \/ Cancelled(c) PROVE SpreadInv'
    BY <2>1, <2>3 DEF Ends, Cancelled, Succeeds, Raises, Leave, RetryableError,
                      FatalError, BackoffEnds, routerVars
  <2>4. ASSUME NEW p \in Pairs, GoesIdle(p) PROVE SpreadInv'
    BY <2>1, <2>4 DEF GoesIdle
  <2>5. ASSUME NEW n \in Retries, Reload(n) PROVE SpreadInv'
    BY <2>1, <2>5 DEF Reload, routerVars
  <2>6. CASE UNCHANGED vars
    BY <2>1, <2>6 DEF vars, routerVars
  <2> QED BY <2>2, <2>3, <2>4, <2>5, <2>6 DEF Next
<1>3. SpreadInv => EvenSpread
  <2> SUFFICES ASSUME SpreadInv, ~rebound, NEW j \in Keys, NEW k \in Keys
               PROVE  Load(j) <= Load(k) + 1
    BY DEF EvenSpread
  <2>1. 0 \in Keys
    BY CallAssumption DEF Keys
  <2>2. Load(0) \in Nat
    BY <2>1, FS_CardinalityType DEF SpreadInv, Load, PairsOf
  <2> QED BY <2>2 DEF SpreadInv
<1> QED BY <1>1, <1>2, <1>3, TypeCorrect, PTL DEF Spec

-----------------------------------------------------------------------------
(* LlmStream: a step of MCServices, seen from the reader of completions *)

LEMMA LsSteps == [SvNext]_SvVars => Stream!LsNext \/ UNCHANGED lsAll
BY DEF SvNext, SvVars

-----------------------------------------------------------------------------
(* The text of an attempt *)

Text == Seq(Stream!Tokens)

\* A nonempty set of positions has a first one.
LEMMA FirstPosition ==
    ASSUME NEW S \in SUBSET Nat, S # {}
    PROVE  \E x \in S : \A y \in S : x <= y
<1> DEFINE R == OpToRel(<, Nat)
<1>1. IsWellFoundedOn(R, Nat)
  BY NatLessThanWellFounded
<1>2. \A x, y \in Nat : <<x, y>> \in R <=> x < y
  BY DEF OpToRel
<1> HIDE DEF R
<1>3. PICK x \in S : \A y \in S : <<y, x>> \notin R
  BY <1>1, WFMin
<1>4. ASSUME NEW y \in S PROVE x <= y
  <2>1. x \in Nat /\ y \in Nat /\ ~(y < x)
    BY <1>2, <1>3
  <2> QED BY <2>1
<1> QED BY <1>4

\* s is made of tokens of text, from position m on.
PartOf(s, text, m) ==
    s \in Text /\ \A i \in 1..Len(s) : \E j \in m..Len(text) : s[i] = text[j]

\* What follows a position, and what is left when leading white space is gone,
\* is part of the text; so is it when it is turned round.
LEMMA RestIsPart ==
    ASSUME NEW text \in Text, NEW m \in 1..(Len(text) + 1)
    PROVE  PartOf(SubSeq(text, m, Len(text)), text, m)
<1>1. Len(text) \in Nat /\ m \in Int /\ Len(text) \in Int
  BY DEF Text
<1>2. \A i \in m..Len(text) : text[i] \in Stream!Tokens
  BY <1>1 DEF Text
<1> DEFINE s == SubSeq(text, m, Len(text))
<1>3. /\ s \in Text
      /\ Len(s) = IF m <= Len(text) THEN Len(text) - m + 1 ELSE 0
      /\ \A i \in 1..Len(text) - m + 1 : s[i] = text[m + i - 1]
  BY <1>1, <1>2, SubSeqProperties DEF Text
<1> HIDE DEF s
<1>4. ASSUME NEW i \in 1..Len(s) PROVE \E j \in m..Len(text) : s[i] = text[j]
  <2>1. i \in 1..Len(text) - m + 1 /\ m + i - 1 \in m..Len(text)
    BY <1>1, <1>3
  <2> QED BY <2>1, <1>3
<1> QED BY <1>3, <1>4 DEF PartOf, s

LEMMA LStripIsPart ==
    ASSUME NEW text \in Text
    PROVE  PartOf(Stream!LStrip(text), text, 1)
<1> DEFINE solid == {i \in 1..Len(text) : ~Stream!IsSpace(text[i])}
           m == CHOOSE i \in solid : \A j \in solid : i <= j
<1>1. CASE solid = {}
  BY <1>1 DEF Stream!LStrip, PartOf, Text
<1>2. CASE solid # {}
  <2>1. Len(text) \in Nat /\ solid \in SUBSET Nat /\ solid \subseteq 1..Len(text)
    BY DEF Text
  <2>2. m \in solid
    BY <1>2, <2>1, FirstPosition
  <2>3. m \in 1..Len(text)
    BY <2>1, <2>2
  <2>4. Stream!LStrip(text) = SubSeq(text, m, Len(text))
    BY <1>2 DEF Stream!LStrip
  <2> HIDE DEF m, solid
  <2>5. PartOf(SubSeq(text, m, Len(text)), text, m)
    BY <2>1, <2>3, RestIsPart
  <2>6. m..Len(text) \subseteq 1..Len(text)
    BY <2>1, <2>3
  <2> QED BY <2>4, <2>5, <2>6 DEF PartOf
<1> QED BY <1>1, <1>2

LEMMA ReverseIsPart ==
    ASSUME NEW text \in Text
    PROVE  PartOf(Stream!Reverse(text), text, 1)
<1> DEFINE s == Stream!Reverse(text)
<1>1. Len(text) \in Nat /\ \A i \in 1..Len(text) : text[i] \in Stream!Tokens
  BY DEF Text
<1>2. \A i \in 1..Len(text) : (Len(text) - i) + 1 \in 1..Len(text)
  BY <1>1
<1>3. s = [i \in 1..Len(text) |-> text[(Len(text) - i) + 1]]
  BY DEF Stream!Reverse
<1>4. s \in [1..Len(text) -> Stream!Tokens]
  BY <1>1, <1>2, <1>3
<1>5. s \in Text /\ Len(s) = Len(text)
  BY <1>1, <1>4, IsASeq, LenProperties DEF Text
<1> QED BY <1>2, <1>3, <1>5 DEF PartOf

LEMMA PartOfPart ==
    ASSUME NEW r, NEW s, NEW text, NEW m, PartOf(r, s, 1), PartOf(s, text, m)
    PROVE  PartOf(r, text, m)
BY DEF PartOf

LEMMA StripIsPart ==
    ASSUME NEW text \in Text
    PROVE  PartOf(Stream!Strip(text), text, 1)
<1> DEFINE a == Stream!LStrip(text)
           b == Stream!Reverse(a)
           c == Stream!LStrip(b)
<1>1. PartOf(a, text, 1) /\ a \in Text
  BY LStripIsPart DEF PartOf
<1>2. PartOf(b, text, 1) /\ b \in Text
  BY <1>1, ReverseIsPart, PartOfPart DEF PartOf
<1>3. PartOf(c, text, 1) /\ c \in Text
  BY <1>2, LStripIsPart, PartOfPart DEF PartOf
<1>4. PartOf(Stream!Reverse(c), text, 1)
  BY <1>3, ReverseIsPart, PartOfPart DEF PartOf
<1> QED BY <1>4 DEF Stream!Strip

-----------------------------------------------------------------------------
(* What is visible of a text *)

\* The first token that is not white space, and whether thinking opens there.
Leads(text, i) ==
    i \in 1..Len(text) /\ text[i] # "space" /\ \A j \in 1..i - 1 : text[j] = "space"
Tagged(text) ==
    \E i \in 1..Len(text) :
        /\ Leads(text, i)
        /\ \/ text[i] = "open"
           \/ text[i] = "op" /\ i + 1 \in 1..Len(text) /\ text[i + 1] = "en"

\* All reasoning comes after such a tag and before any closing one.
Hidden(text) ==
    /\ (\E i \in 1..Len(text) : text[i] = "why") => Tagged(text)
    /\ \A i, j \in 1..Len(text) : text[i] = "close" /\ i < j => text[j] # "why"

LEMMA TagIsSeen ==
    ASSUME NEW text \in Text, Tagged(text)
    PROVE  Stream!OpensThinking(text)
<1> DEFINE solid == {i \in 1..Len(text) : ~Stream!IsSpace(text[i])}
           t == Stream!LStrip(text)
<1>1. Len(text) \in Nat
  BY DEF Text
<1>2. PICK k \in 1..Len(text) :
        /\ Leads(text, k)
        /\ \/ text[k] = "open"
           \/ text[k] = "op" /\ k + 1 \in 1..Len(text) /\ text[k + 1] = "en"
  BY DEF Tagged
<1>3. k \in solid /\ \A j \in solid : k <= j
  <2>1. k \in solid
    BY <1>2 DEF Leads, Stream!IsSpace
  <2>2. ASSUME NEW j \in solid, j < k PROVE FALSE
    <3>1. j \in 1..k - 1 /\ text[j] # "space"
      BY <1>1, <2>2 DEF Stream!IsSpace
    <3> QED BY <1>2, <3>1 DEF Leads
  <2>3. \A j \in solid : j \in Int
    BY <1>1
  <2> QED BY <2>1, <2>2, <2>3, <1>1
<1>4. (CHOOSE i \in solid : \A j \in solid : i <= j) = k
  <2>1. \A i \in solid : (\A j \in solid : i <= j) => i = k
    BY <1>1, <1>3
  <2> QED BY <1>3, <2>1
<1>5. t = SubSeq(text, k, Len(text))
  BY <1>3, <1>4 DEF Stream!LStrip
<1> HIDE DEF solid, t
<1>6. /\ Len(t) = Len(text) - k + 1
      /\ \A i \in 1..Len(text) - k + 1 : t[i] = text[k + i - 1]
  <2>1. \A i \in k..Len(text) : text[i] \in Stream!Tokens
    BY <1>1 DEF Text
  <2> QED BY <1>1, <1>5, <2>1, SubSeqProperties
<1>7. t # << >> /\ t[1] = text[k] /\ (k + 1 \in 1..Len(text) => Len(t) > 1 /\ t[2] = text[k + 1])
  BY <1>1, <1>6
<1> QED BY <1>2, <1>7 DEF Stream!OpensThinking, t

\* No reasoning is visible of such a text.
LEMMA NothingShows ==
    ASSUME NEW text \in Text, Hidden(text)
    PROVE  "why" \notin Stream!ToSet(Stream!Visible(text))
<1>1. Len(text) \in Nat /\ DOMAIN text = 1..Len(text)
  BY DEF Text
<1>2. CASE ~Stream!OpensThinking(text)
  <2>1. ~Tagged(text)
    BY <1>2, TagIsSeen
  <2> QED BY <1>1, <1>2, <2>1 DEF Stream!Visible, Stream!ToSet, Hidden
<1>3. CASE Stream!OpensThinking(text)
  <2> DEFINE ends == {i \in 1..Len(text) : text[i] = "close"}
             k == CHOOSE i \in ends : \A j \in ends : i <= j
             rest == SubSeq(text, k + 1, Len(text))
  <2>1. CASE ends = {}
    BY <1>3, <2>1 DEF Stream!Visible, Stream!ToSet
  <2>2. CASE ends # {}
    <3>1. ends \in SUBSET Nat
      BY <1>1
    <3>2. k \in ends
      BY <2>2, <3>1, FirstPosition
    <3>3. k \in 1..Len(text) /\ text[k] = "close"
      BY <3>2
    <3>4. Stream!Visible(text) = Stream!Strip(rest)
      BY <1>3, <2>2 DEF Stream!Visible
    <3> HIDE DEF k
    <3>5. k + 1 \in 1..(Len(text) + 1)
      BY <1>1, <3>3
    <3>6. PartOf(rest, text, k + 1) /\ rest \in Text
      BY <3>5, RestIsPart DEF PartOf
    <3> HIDE DEF rest
    <3>7. PartOf(Stream!Strip(rest), text, k + 1)
      BY <3>6, StripIsPart, PartOfPart
    <3>8. \A j \in k + 1..Len(text) : j \in 1..Len(text) /\ k < j
      BY <1>1, <3>3
    <3>9. \A j \in k + 1..Len(text) : text[j] # "why"
      BY <3>3, <3>8 DEF Hidden
    <3>10. DOMAIN Stream!Strip(rest) = 1..Len(Stream!Strip(rest))
      BY <3>7 DEF PartOf, Text
    <3> QED BY <3>4, <3>7, <3>9, <3>10 DEF PartOf, Stream!ToSet
  <2> QED BY <2>1, <2>2
<1> QED BY <1>2, <1>3

-----------------------------------------------------------------------------
(* A token more *)

LEMMA LongerText ==
    ASSUME NEW text \in Text, NEW t \in Stream!Tokens
    PROVE  /\ Append(text, t) \in Text
           /\ Len(text) \in Nat /\ Len(Append(text, t)) = Len(text) + 1
           /\ \A i \in 1..Len(text) : Append(text, t)[i] = text[i]
           /\ Append(text, t)[Len(text) + 1] = t
BY DEF Text

LEMMA TagStays ==
    ASSUME NEW text \in Text, NEW t \in Stream!Tokens, Tagged(text)
    PROVE  Tagged(Append(text, t))
<1> DEFINE u == Append(text, t)
<1>1. Len(text) \in Nat /\ Len(u) = Len(text) + 1 /\ \A i \in 1..Len(text) : u[i] = text[i]
  BY LongerText
<1> HIDE DEF u
<1>2. PICK k \in 1..Len(text) :
        /\ Leads(text, k)
        /\ \/ text[k] = "open"
           \/ text[k] = "op" /\ k + 1 \in 1..Len(text) /\ text[k + 1] = "en"
  BY DEF Tagged
<1>3. k \in 1..Len(u) /\ Leads(u, k)
  BY <1>1, <1>2 DEF Leads
<1>4. u[k] = text[k] /\ (k + 1 \in 1..Len(text) => k + 1 \in 1..Len(u) /\ u[k + 1] = text[k + 1])
  BY <1>1, <1>2
<1> QED BY <1>2, <1>3, <1>4 DEF Tagged, u

\* Reasoning only comes while the text thinks.
LEMMA HiddenStays ==
    ASSUME NEW text \in Text, NEW t \in Stream!Tokens, Hidden(text),
           t = "why" => Tagged(text) /\ \A i \in 1..Len(text) : text[i] # "close"
    PROVE  Hidden(Append(text, t))
<1> DEFINE u == Append(text, t)
<1>1. /\ Len(text) \in Nat /\ Len(u) = Len(text) + 1
      /\ \A i \in 1..Len(text) : u[i] = text[i]
      /\ u[Len(text) + 1] = t
  BY LongerText
<1>2. Tagged(text) => Tagged(u)
  BY TagStays
<1> HIDE DEF u
<1>3. ASSUME NEW i \in 1..Len(u), u[i] = "why" PROVE Tagged(u)
  <2>1. CASE i = Len(text) + 1
    BY <1>1, <1>2, <1>3, <2>1
  <2>2. CASE i # Len(text) + 1
    <3>1. i \in 1..Len(text) /\ text[i] = "why"
      BY <1>1, <1>3, <2>2
    <3> QED BY <1>2, <3>1 DEF Hidden
  <2> QED BY <2>1, <2>2
<1>4. ASSUME NEW i \in 1..Len(u), NEW j \in 1..Len(u), u[i] = "close", i < j
      PROVE  u[j] # "why"
  <2>1. i \in 1..Len(text) /\ text[i] = "close"
    BY <1>1, <1>4
  <2>2. CASE j = Len(text) + 1
    BY <1>1, <2>1, <2>2
  <2>3. CASE j # Len(text) + 1
    <3>1. j \in 1..Len(text) /\ u[j] = text[j]
      BY <1>1, <2>3
    <3> QED BY <1>4, <2>1, <3>1 DEF Hidden
  <2> QED BY <2>2, <2>3
<1> QED BY <1>3, <1>4 DEF Hidden, u

\* Where the model's text is.
ModeInv(text, m) ==
    CASE m = "lead" -> \A i \in 1..Len(text) : text[i] = "space"
      [] m = "opening" -> text # << >> /\ Leads(text, Len(text)) /\ text[Len(text)] = "op"
      [] m = "think" -> Tagged(text) /\ \A i \in 1..Len(text) : text[i] # "close"
      [] m = "answer" -> TRUE

Modes == {"lead", "opening", "think", "answer"}

LEMMA ModeStays ==
    ASSUME NEW text \in Text, NEW t \in Stream!Tokens, mode \in Modes,
           ModeInv(text, mode), Stream!Follows(t, mode)
    PROVE  Stream!Mode(t) \in Modes /\ ModeInv(Append(text, t), Stream!Mode(t))
<1> DEFINE u == Append(text, t)
<1>1. /\ Len(text) \in Nat /\ Len(u) = Len(text) + 1
      /\ \A i \in 1..Len(text) : u[i] = text[i]
      /\ u[Len(text) + 1] = t
  BY LongerText
<1>2. Tagged(text) => Tagged(u)
  BY TagStays
<1> HIDE DEF u
<1>3. CASE t = "space"
  <2>1. mode = "lead" \/ mode = "answer"
    BY <1>3 DEF Stream!Follows
  <2>2. Stream!Mode(t) = mode
    BY <1>3 DEF Stream!Mode
  <2>3. CASE mode = "lead"
    <3>1. \A i \in 1..Len(text) : text[i] = "space"
      BY <2>3 DEF ModeInv
    <3>2. \A i \in 1..Len(u) : u[i] = "space"
      BY <1>1, <1>3, <3>1
    <3> QED BY <2>2, <2>3, <3>2 DEF ModeInv, Modes, u
  <2>4. CASE mode = "answer"
    BY <2>2, <2>4 DEF ModeInv, Modes
  <2> QED BY <2>1, <2>3, <2>4
<1>4. CASE t = "open" \/ t = "op"
  <2>1. mode = "lead"
    BY <1>4 DEF Stream!Follows
  <2>2. \A i \in 1..Len(text) : text[i] = "space"
    BY <2>1 DEF ModeInv
  <2>3. Leads(u, Len(u)) /\ u[Len(u)] = t /\ Len(u) \in 1..Len(u) /\ u # << >>
    BY <1>1, <1>4, <2>2 DEF Leads
  <2>4. CASE t = "open"
    <3>1. Tagged(u)
      BY <2>3, <2>4 DEF Tagged
    <3>2. \A i \in 1..Len(u) : u[i] # "close"
      BY <1>1, <2>2, <2>4
    <3>3. Stream!Mode(t) = "think"
      BY <2>4 DEF Stream!Mode
    <3> QED BY <3>1, <3>2, <3>3 DEF ModeInv, Modes, u
  <2>5. CASE t = "op"
    <3>1. Stream!Mode(t) = "opening"
      BY <2>5 DEF Stream!Mode
    <3> QED BY <2>3, <2>5, <3>1 DEF ModeInv, Modes, u
  <2> QED BY <1>4, <2>4, <2>5
<1>5. CASE t = "en"
  <2>1. mode = "opening"
    BY <1>5 DEF Stream!Follows
  <2>2. text # << >> /\ Leads(text, Len(text)) /\ text[Len(text)] = "op"
    BY <2>1 DEF ModeInv
  <2>3. Len(text) \in 1..Len(text)
    BY <2>2 DEF Leads
  <2>4. Leads(u, Len(text)) /\ u[Len(text)] = "op" /\ u[Len(text) + 1] = "en"
    BY <1>1, <1>5, <2>2, <2>3 DEF Leads
  <2>5. Len(text) \in 1..Len(u) /\ Len(text) + 1 \in 1..Len(u)
    BY <1>1, <2>3
  <2>6. Tagged(u)
    BY <2>4, <2>5 DEF Tagged
  <2>7. ASSUME NEW i \in 1..Len(u) PROVE u[i] # "close"
    <3>1. i \in 1..Len(text) - 1 \/ i = Len(text) \/ i = Len(text) + 1
      BY <1>1, <2>7
    <3>2. \A j \in 1..Len(text) - 1 : j \in 1..Len(text) /\ text[j] = "space"
      BY <1>1, <2>2 DEF Leads
    <3>3. CASE i \in 1..Len(text) - 1
      BY <1>1, <3>2, <3>3
    <3>4. CASE i = Len(text) \/ i = Len(text) + 1
      BY <2>4, <3>4
    <3> QED BY <3>1, <3>3, <3>4
  <2>8. Stream!Mode(t) = "think"
    BY <1>5 DEF Stream!Mode
  <2> QED BY <2>6, <2>7, <2>8 DEF ModeInv, Modes, u
<1>6. CASE t = "why"
  <2>1. mode = "think"
    BY <1>6 DEF Stream!Follows
  <2>2. Tagged(text) /\ \A i \in 1..Len(text) : text[i] # "close"
    BY <2>1 DEF ModeInv
  <2>3. \A i \in 1..Len(u) : u[i] # "close"
    BY <1>1, <1>6, <2>2
  <2>4. Stream!Mode(t) = "think"
    BY <1>6 DEF Stream!Mode
  <2> QED BY <1>2, <2>2, <2>3, <2>4 DEF ModeInv, Modes, u
<1>7. CASE t = "close" \/ t = "ans"
  <2>1. Stream!Mode(t) = "answer"
    BY <1>7 DEF Stream!Mode
  <2> QED BY <2>1 DEF ModeInv, Modes
<1> QED BY <1>3, <1>4, <1>5, <1>6, <1>7 DEF Stream!Tokens

\* The whole messages are texts of that kind.
LEMMA MessagesHide ==
    ASSUME NEW m \in Stream!Messages
    PROVE  m \in Text /\ Hidden(m)
<1>1. CASE m = <<"ans">>
  <2>1. m \in Text /\ Len(m) = 1 /\ m[1] = "ans"
    BY <1>1 DEF Text, Stream!Tokens
  <2> QED BY <2>1 DEF Hidden
<1>2. CASE m = <<"open", "why", "close", "ans">>
  <2>1. /\ m \in Text /\ Len(m) = 4
        /\ m[1] = "open" /\ m[2] = "why" /\ m[3] = "close" /\ m[4] = "ans"
    BY <1>2 DEF Text, Stream!Tokens
  <2>2. Leads(m, 1) /\ Tagged(m)
    BY <2>1 DEF Tagged, Leads
  <2>3. \A i, j \in 1..Len(m) : m[i] = "close" /\ i < j => m[j] # "why"
    <3>1. \A i \in 1..4 : i = 1 \/ i = 2 \/ i = 3 \/ i = 4
      OBVIOUS
    <3> QED BY <2>1, <3>1
  <2> QED BY <2>1, <2>2, <2>3 DEF Hidden
<1>3. CASE m = <<"space", "open", "why">>
  <2>1. m \in Text /\ Len(m) = 3 /\ m[1] = "space" /\ m[2] = "open" /\ m[3] = "why"
    BY <1>3 DEF Text, Stream!Tokens
  <2>2. Leads(m, 2) /\ Tagged(m)
    BY <2>1 DEF Tagged, Leads
  <2>3. \A i \in 1..Len(m) : m[i] # "close"
    <3>1. \A i \in 1..3 : i = 1 \/ i = 2 \/ i = 3
      OBVIOUS
    <3> QED BY <2>1, <3>1
  <2> QED BY <2>1, <2>2, <2>3 DEF Hidden
<1>4. CASE m = <<"op", "en", "why", "close", "space">>
  <2>1. /\ m \in Text /\ Len(m) = 5
        /\ m[1] = "op" /\ m[2] = "en" /\ m[3] = "why" /\ m[4] = "close" /\ m[5] = "space"
    BY <1>4 DEF Text, Stream!Tokens
  <2>2. Leads(m, 1) /\ Tagged(m)
    BY <2>1 DEF Tagged, Leads
  <2>3. \A i, j \in 1..Len(m) : m[i] = "close" /\ i < j => m[j] # "why"
    <3>1. \A i \in 1..5 : i = 1 \/ i = 2 \/ i = 3 \/ i = 4 \/ i = 5
      OBVIOUS
    <3> QED BY <2>1, <3>1
  <2> QED BY <2>1, <2>2, <2>3 DEF Hidden
<1>5. CASE m = <<"space">>
  <2>1. m \in Text /\ Len(m) = 1 /\ m[1] = "space"
    BY <1>5 DEF Text, Stream!Tokens
  <2> QED BY <2>1 DEF Hidden
<1>6. \/ m = <<"ans">> \/ m = <<"open", "why", "close", "ans">>
      \/ m = <<"space", "open", "why">> \/ m = <<"op", "en", "why", "close", "space">>
      \/ m = <<"space">>
  BY Zenon DEF Stream!Messages
<1> QED BY <1>1, <1>2, <1>3, <1>4, <1>5, <1>6

-----------------------------------------------------------------------------
(* The reader of completions *)

\* The text so far hides its reasoning, and is what this attempt sent.
TextInv ==
    /\ content \in Text
    /\ Stream!Running =>
          /\ sent = [text |-> content, calls |-> calls]
          /\ Hidden(content) /\ mode \in Modes /\ ModeInv(content, mode)

\* Less than a step is unchecked, and what is checked holds no window of a loop.
LoopInv ==
    Stream!Running =>
        /\ checked \in Nat /\ checked <= Len(content)
        /\ Len(content) - checked < LsCheckStep
        /\ loopAt # Stream!Never => loopAt \in Nat /\ checked - loopAt < LsMinWindow

ShownInv == Stream!ReasoningStaysHidden /\ Stream!ResultIsOneAttempt

LsInv == TextInv /\ LoopInv /\ ShownInv

LEMMA NoText == << >> \in Text /\ Hidden(<< >>) /\ ModeInv(<< >>, "lead") /\ "lead" \in Modes
BY DEF Text, Hidden, ModeInv, Modes

LEMMA EmptyShows == "why" \notin Stream!ToSet(<< >>)
BY DEF Stream!ToSet

LEMMA LsBegins == SvInit => LsInv
<1> SUFFICES ASSUME SvInit PROVE LsInv
  OBVIOUS
<1>1. /\ content = << >> /\ calls = Stream!NoCalls /\ checked = 0 /\ preview = << >>
      /\ result = Stream!NoResult /\ mode = "lead" /\ loopAt = Stream!Never
      /\ sent = [text |-> << >>, calls |-> Stream!NoCalls]
  BY DEF SvInit, Stream!LsInit
<1>2. TextInv
  BY <1>1, NoText DEF TextInv
<1>3. LoopInv
  BY <1>1, StreamAssumption DEF LoopInv
<1>4. ShownInv
  BY <1>1, EmptyShows
     DEF ShownInv, Stream!ReasoningStaysHidden, Stream!ResultIsOneAttempt, Stream!NoResult
<1> QED BY <1>2, <1>3, <1>4 DEF LsInv

\* A failed attempt leaves nothing to the next one.
LEMMA FailKeeps ==
    ASSUME LsInv, Stream!Running, Stream!Fail, preview' = preview
    PROVE  LsInv'
<1>1. CASE lsAttempt < LsMaxAttempts
  <2>1. /\ content' = << >> /\ calls' = Stream!NoCalls /\ checked' = 0
        /\ mode' = "lead" /\ loopAt' = Stream!Never /\ result' = result
        /\ sent' = [text |-> << >>, calls |-> Stream!NoCalls]
    BY <1>1 DEF Stream!Fail, Stream!Retry, Stream!Fresh
  <2>2. TextInv'
    BY <2>1, NoText DEF TextInv
  <2>3. LoopInv'
    BY <2>1, StreamAssumption DEF LoopInv
  <2>4. result.is # "returned"
    BY DEF Stream!Running, Stream!NoResult
  <2>5. ShownInv'
    BY <2>1, <2>4
       DEF LsInv, ShownInv, Stream!ReasoningStaysHidden, Stream!ResultIsOneAttempt
  <2> QED BY <2>2, <2>3, <2>5 DEF LsInv
<1>2. CASE ~(lsAttempt < LsMaxAttempts)
  <2>1. /\ result' = [text |-> << >>, calls |-> << >>, is |-> "raised"]
        /\ content' = content
    BY <1>2 DEF Stream!Fail, Stream!NoResult
  <2>2. ~Stream!Running'
    BY <2>1 DEF Stream!Running, Stream!NoResult
  <2>3. ShownInv'
    BY <2>1, EmptyShows
       DEF LsInv, ShownInv, Stream!ReasoningStaysHidden, Stream!ResultIsOneAttempt
  <2> QED BY <2>1, <2>2, <2>3 DEF LsInv, TextInv, LoopInv
<1> QED BY <1>1, <1>2

\* What a returned completion shows.
LEMMA ReturnKeeps ==
    ASSUME LsInv, NEW text \in Text, Hidden(text), NEW args,
           result' = [text |-> Stream!Visible(text), calls |-> args, is |-> "returned"],
           sent'.text = text, sent'.calls = args, preview' = preview, content' = content
    PROVE  LsInv'
<1>1. ~Stream!Running'
  BY DEF Stream!Running, Stream!NoResult
<1>2. "why" \notin Stream!ToSet(Stream!Visible(text))
  BY NothingShows
<1>3. ShownInv'
  BY <1>2 DEF LsInv, ShownInv, Stream!ReasoningStaysHidden, Stream!ResultIsOneAttempt
<1> QED BY <1>1, <1>3 DEF LsInv, TextInv, LoopInv

LEMMA DeltaKeeps ==
    ASSUME LsInv, NEW t \in Stream!Tokens, Stream!TextDelta(t)
    PROVE  LsInv'
<1> DEFINE n == Len(content) + 1
<1>1. Stream!Running /\ Stream!Follows(t, mode)
  BY DEF Stream!TextDelta
<1>2. /\ content \in Text /\ sent = [text |-> content, calls |-> calls]
      /\ Hidden(content) /\ mode \in Modes /\ ModeInv(content, mode)
  BY <1>1 DEF LsInv, TextInv
<1>3. CASE Stream!Due(n) /\ Stream!Degenerate(n)
  BY <1>1, <1>3, FailKeeps DEF Stream!TextDelta
<1>4. CASE ~(Stream!Due(n) /\ Stream!Degenerate(n))
  <2>1. /\ content' = Append(content, t)
        /\ checked' = IF Stream!Due(n) THEN n ELSE checked
        /\ preview' = IF Stream!Visible(content') = << >> THEN preview
                      ELSE Stream!Visible(content')
        /\ sent' = [sent EXCEPT !.text = Append(@, t)] /\ mode' = Stream!Mode(t)
        /\ calls' = calls /\ result' = result /\ loopAt' = loopAt
    BY <1>4 DEF Stream!TextDelta
  <2>2. content' \in Text /\ Len(content') = n /\ Len(content) \in Nat
    BY <1>2, <2>1, LongerText
  <2>3. Hidden(content')
    <3>1. t = "why" => Tagged(content) /\ \A i \in 1..Len(content) : content[i] # "close"
      BY <1>1, <1>2 DEF Stream!Follows, ModeInv
    <3> QED BY <1>2, <2>1, <3>1, HiddenStays
  <2>4. mode' \in Modes /\ ModeInv(content', mode')
    BY <1>1, <1>2, <2>1, ModeStays
  <2>5. sent' = [text |-> content', calls |-> calls']
    BY <1>2, <2>1
  <2>6. TextInv'
    BY <2>2, <2>3, <2>4, <2>5 DEF TextInv
  <2>7. LoopInv'
    <3>1. /\ checked \in Nat /\ checked <= Len(content)
          /\ loopAt # Stream!Never => loopAt \in Nat /\ checked - loopAt < LsMinWindow
      BY <1>1 DEF LsInv, LoopInv
    <3>2. CASE Stream!Due(n)
      <4>1. loopAt # Stream!Never => n - loopAt < LsMinWindow
        BY <1>4, <2>2, <3>1, <3>2, StreamAssumption DEF Stream!Degenerate
      <4>2. checked' = n
        BY <2>1, <3>2
      <4> QED BY <2>1, <2>2, <3>1, <4>1, <4>2, StreamAssumption DEF LoopInv
    <3>3. CASE ~Stream!Due(n)
      <4>1. checked' = checked
        BY <2>1, <3>3
      <4>2. n - checked < LsCheckStep
        BY <2>2, <3>1, <3>3, StreamAssumption DEF Stream!Due
      <4> QED BY <2>1, <2>2, <3>1, <4>1, <4>2 DEF LoopInv
    <3> QED BY <3>2, <3>3
  <2>8. "why" \notin Stream!ToSet(preview')
    <3>1. "why" \notin Stream!ToSet(Stream!Visible(content'))
      BY <2>2, <2>3, NothingShows
    <3>2. "why" \notin Stream!ToSet(preview)
      BY DEF LsInv, ShownInv, Stream!ReasoningStaysHidden
    <3> QED BY <2>1, <3>1, <3>2
  <2>9. result.is # "returned"
    BY <1>1 DEF Stream!Running, Stream!NoResult
  <2>10. ShownInv'
    BY <2>1, <2>8, <2>9
       DEF LsInv, ShownInv, Stream!ReasoningStaysHidden, Stream!ResultIsOneAttempt
  <2> QED BY <2>6, <2>7, <2>10 DEF LsInv
<1> QED BY <1>3, <1>4

LEMMA CallKeeps ==
    ASSUME LsInv, NEW i \in Stream!Indices, Stream!CallDelta(i)
    PROVE  LsInv'
<1>1. /\ Stream!Running
      /\ content' = content /\ checked' = checked /\ preview' = preview
      /\ result' = result /\ mode' = mode /\ loopAt' = loopAt
  BY DEF Stream!CallDelta
<1>2. sent = [text |-> content, calls |-> calls]
  BY <1>1 DEF LsInv, TextInv
<1>3. sent' = [text |-> content', calls |-> calls']
  <2>1. calls' = [calls EXCEPT ![i] = Append(@, Stream!Args + 1)]
    BY DEF Stream!CallDelta, Stream!ToItsCall
  <2>2. sent' = [sent EXCEPT !.calls[i] = Append(@, Stream!Args + 1)]
    BY DEF Stream!CallDelta
  <2> HIDE DEF Stream!Args
  <2> QED BY <1>1, <1>2, <2>1, <2>2
<1>4. result.is # "returned"
  BY <1>1 DEF Stream!Running, Stream!NoResult
<1>5. TextInv'
  BY <1>1, <1>3 DEF LsInv, TextInv, Stream!Running
<1>6. LoopInv'
  BY <1>1 DEF LsInv, LoopInv, Stream!Running
<1>7. ShownInv'
  BY <1>1, <1>4
     DEF LsInv, ShownInv, Stream!ReasoningStaysHidden, Stream!ResultIsOneAttempt
<1> QED BY <1>5, <1>6, <1>7 DEF LsInv

LEMMA LoopsKeeps ==
    ASSUME LsInv, Stream!Loops
    PROVE  LsInv'
<1>1. /\ Stream!Running /\ loopAt' = Len(sent.text)
      /\ content' = content /\ calls' = calls /\ checked' = checked /\ preview' = preview
      /\ result' = result /\ sent' = sent /\ mode' = mode
  BY DEF Stream!Loops
<1>2. sent.text = content /\ Len(content) \in Nat /\ checked \in Nat /\ checked <= Len(content)
  BY <1>1 DEF LsInv, TextInv, LoopInv, Text
<1>3. LoopInv'
  <2>1. loopAt' \in Nat /\ checked' - loopAt' < LsMinWindow
    BY <1>1, <1>2, StreamAssumption
  <2> QED BY <1>1, <2>1 DEF LsInv, LoopInv, Stream!Running
<1>4. TextInv'
  BY <1>1 DEF LsInv, TextInv, Stream!Running
<1>5. ShownInv'
  BY <1>1 DEF LsInv, ShownInv, Stream!ReasoningStaysHidden, Stream!ResultIsOneAttempt
<1> QED BY <1>3, <1>4, <1>5 DEF LsInv

\* Whatever the chunks, the attempts that break and the loops: what is pushed
\* and returned shows no reasoning, is of one attempt, and a loop is cut
\* (llm/openai_provider.py:75-96, 415-540).
THEOREM CompletionsStaySound == SvSpec => []CompletionsSound
<1>1. SvInit => LsInv
  BY LsBegins
<1>2. LsInv /\ [SvNext]_SvVars => LsInv'
  <2> SUFFICES ASSUME LsInv, [SvNext]_SvVars PROVE LsInv'
    OBVIOUS
  <2>1. CASE UNCHANGED lsAll
    BY <2>1 DEF lsAll, LsInv, TextInv, LoopInv, ShownInv, Stream!Running,
                Stream!ReasoningStaysHidden, Stream!ResultIsOneAttempt
  <2>2. ASSUME NEW t \in Stream!Tokens, Stream!TextDelta(t) PROVE LsInv'
    BY <2>2, DeltaKeeps
  <2>3. ASSUME NEW i \in Stream!Indices, Stream!CallDelta(i) PROVE LsInv'
    BY <2>3, CallKeeps
  <2>4. ASSUME NEW m \in Stream!Messages, Stream!WholeMessage(m, Stream!NoCalls) PROVE LsInv'
    <3>1. Stream!Running /\ preview' = preview
      BY <2>4 DEF Stream!WholeMessage
    <3>2. CASE Stream!Fail
      BY <3>1, <3>2, FailKeeps
    <3>3. CASE ~Stream!Fail
      <4>1. /\ result' = [text |-> Stream!Visible(m), calls |-> Stream!NoCalls,
                          is |-> "returned"]
            /\ sent' = [text |-> m, calls |-> Stream!NoCalls]
            /\ content' = content
        BY <2>4, <3>3 DEF Stream!WholeMessage
      <4>2. m \in Text /\ Hidden(m)
        BY MessagesHide
      <4>3. sent'.text = m /\ sent'.calls = Stream!NoCalls
        BY <4>1
      <4> QED BY <3>1, <4>1, <4>2, <4>3, ReturnKeeps
    <3> QED BY <3>2, <3>3
  <2>5. CASE Stream!Loops
    BY <2>5, LoopsKeeps
  <2>6. CASE Stream!AttemptBreaks
    BY <2>6, FailKeeps DEF Stream!AttemptBreaks
  <2>7. CASE Stream!StreamEnds
    <3>1. Stream!Running /\ preview' = preview
      BY <2>7 DEF Stream!StreamEnds
    <3>2. CASE Stream!Fail
      BY <3>1, <3>2, FailKeeps
    <3>3. CASE ~Stream!Fail
      <4>1. /\ result' = [text |-> Stream!Visible(content), calls |-> calls,
                          is |-> "returned"]
            /\ sent' = sent /\ content' = content
        BY <2>7, <3>3 DEF Stream!StreamEnds
      <4>2. content \in Text /\ Hidden(content) /\ sent.text = content /\ sent.calls = calls
        BY <3>1 DEF LsInv, TextInv
      <4> QED BY <3>1, <4>1, <4>2, ReturnKeeps
    <3> QED BY <3>2, <3>3
  <2> QED BY <2>1, <2>2, <2>3, <2>4, <2>5, <2>6, <2>7, LsSteps DEF Stream!LsNext
<1>3. LsInv => CompletionsSound
  <2> SUFFICES ASSUME LsInv PROVE CompletionsSound
    OBVIOUS
  <2>1. ASSUME Stream!Running, loopAt # Stream!Never
        PROVE  Len(content) - loopAt < LsMinWindow + LsCheckStep
    <3>1. /\ checked \in Nat /\ loopAt \in Nat /\ checked - loopAt < LsMinWindow
          /\ Len(content) - checked < LsCheckStep /\ Len(content) \in Nat
      BY <2>1 DEF LsInv, LoopInv, TextInv, Text
    <3> QED BY <3>1, StreamAssumption
  <2>2. Stream!LoopsAreCut
    BY <2>1 DEF Stream!LoopsAreCut
  <2> QED BY <2>2 DEF LsInv, ShownInv, CompletionsSound, Stream!CompletionsSound
<1> QED BY <1>1, <1>2, <1>3, PTL DEF SvSpec

-----------------------------------------------------------------------------
(* The keys that refused a call *)

\* A call that is under way has gone past every key that refused it.
RefusedBehind(c) ==
    /\ pc[c] = "idle" => refused[c] = {}
    /\ \A k \in refused[c] : \E i \in Keys :
          k = KeyNo(c, i) /\ (i < pos[c] \/ (i = pos[c] /\ pc[c] = "raised"))

\* key_order has each key once.
LEMMA KeyOnce ==
    ASSUME NEW b \in Keys, NEW i \in Keys, NEW j \in Keys,
           (b + i) % NKeys = (b + j) % NKeys
    PROVE  i = j
<1>1. \A n \in Keys : (b + n) % NKeys = IF b + n < NKeys THEN b + n ELSE b + n - NKeys
  BY CallAssumption DEF Keys
<1> QED BY <1>1, CallAssumption DEF Keys

\* What GiveUpKey does to the keys that were refused: they stay behind, and are
\* not tried.
LEMMA GiveUpPasses ==
    ASSUME TypeOK, NEW c \in Callers, pc[c] \in {"calling", "backoff"}, GiveUpKey(c),
           bound' = bound, NEW k \in Keys,
           \E i \in Keys : k = KeyNo(c, i) /\ i <= pos[c]
    PROVE  /\ \E i \in Keys : k = KeyNo(c, i)' /\ (i < pos'[c] \/ (i = pos'[c] /\ pc'[c] = "raised"))
           /\ tried'[c][k] = tried[c][k]
<1>1. PICK i \in Keys : k = KeyNo(c, i) /\ i <= pos[c]
  OBVIOUS
<1>2. /\ pos[c] \in Keys /\ bound[c] \in Keys /\ tried[c] \in [Keys -> Nat]
      /\ \A j \in Keys : KeyNo(c, j)' = KeyNo(c, j)
  BY DEF TypeOK, KeyNo
<1>3. CASE pos[c] + 1 < NKeys
  <2> DEFINE next1 == KeyNo(c, pos[c] + 1)
  <2> HIDE DEF next1
  <2>0. NKeys \in Nat /\ i \in 0..(NKeys - 1) /\ pos[c] \in 0..(NKeys - 1)
    BY <1>2, CallAssumption DEF Keys
  <2>1. pos[c] + 1 \in Keys /\ i < pos[c] + 1 /\ i # pos[c] + 1
    <3>1. pos[c] + 1 \in 0..(NKeys - 1)
      BY <1>3, <2>0
    <3>2. i < pos[c] + 1 /\ i # pos[c] + 1
      BY <1>1, <2>0
    <3> QED BY <3>1, <3>2 DEF Keys
  <2>2. next1 # k
    BY <1>1, <1>2, <2>1, KeyOnce DEF KeyNo, next1
  <2>3. pos'[c] = pos[c] + 1 /\ tried' = [tried EXCEPT ![c][next1] = @ + 1]
    BY <1>3 DEF GiveUpKey, Attempts, TypeOK, next1
  <2>4. tried'[c] = [tried[c] EXCEPT ![next1] = @ + 1]
    BY <2>3 DEF TypeOK
  <2>5. tried'[c][k] = tried[c][k]
    BY <1>2, <2>2, <2>4
  <2> QED BY <1>1, <1>2, <2>1, <2>3, <2>5
<1>4. CASE ~(pos[c] + 1 < NKeys)
  <2>1. pc'[c] = "raised" /\ UNCHANGED <<pos, tried>>
    BY <1>4 DEF GiveUpKey, TypeOK
  <2>2. i < pos'[c] \/ i = pos'[c]
    BY <1>1, <1>2, <2>1, CallAssumption DEF Keys
  <2> QED BY <1>1, <1>2, <2>1, <2>2
<1> QED BY <1>3, <1>4

\* A step of a call keeps what was refused behind it and tries none of it.
Respects(c) ==
    /\ RefusedBehind(c)'
    /\ \A k \in refused[c] : tried'[c][k] <= tried[c][k]

\* Keys that were refused before are no current key.
LEMMA RefusedArePassed ==
    ASSUME TypeOK, NEW c \in Callers, RefusedBehind(c), pc[c] # "raised"
    PROVE  /\ \A k \in refused[c] : \E i \in Keys : k = KeyNo(c, i) /\ i <= pos[c]
           /\ KeyAt(c) \notin refused[c]
<1>1. pos[c] \in Keys /\ bound[c] \in Keys
  BY DEF TypeOK
<1>2. \A k \in refused[c] : \E i \in Keys : k = KeyNo(c, i) /\ i < pos[c]
  BY DEF RefusedBehind
<1>3. \A k \in refused[c] : \E i \in Keys : k = KeyNo(c, i) /\ i <= pos[c]
  BY <1>1, <1>2, CallAssumption DEF Keys
<1>4. ASSUME KeyAt(c) \in refused[c] PROVE FALSE
  <2>1. PICK i \in Keys : KeyAt(c) = KeyNo(c, i) /\ i < pos[c]
    BY <1>2, <1>4
  <2>2. i = pos[c]
    BY <1>1, <2>1, KeyOnce DEF KeyAt, KeyNo
  <2> QED BY <1>1, <2>1, <2>2, CallAssumption DEF Keys
<1> QED BY <1>3, <1>4

LEMMA CallRespects ==
    ASSUME TypeOK, NEW c \in Callers, RefusedBehind(c),
           \/ RetryableError(c) \/ BackoffEnds(c) \/ FatalError(c)
    PROVE  Respects(c)
<1>1. /\ pc[c] \in {"calling", "backoff"} /\ bound' = bound
      /\ bound[c] \in Keys /\ pos[c] \in Keys /\ tried[c] \in [Keys -> Nat] /\ refused[c] \subseteq Keys
  BY DEF RetryableError, BackoffEnds, FatalError, TypeOK
<1>2. /\ \A k \in refused[c] : \E i \in Keys : k = KeyNo(c, i) /\ i <= pos[c]
      /\ KeyAt(c) \notin refused[c] /\ KeyAt(c) \in Keys
  BY <1>1, RefusedArePassed, CurrentKey DEF KeyAt
<1>3. CASE GiveUpKey(c)
  <2>1. pc'[c] # "idle"
    BY <1>3 DEF GiveUpKey, TypeOK
  <2>2. refused'[c] \subseteq refused[c] \cup {KeyAt(c)}
    BY DEF RetryableError, BackoffEnds, FatalError, TypeOK
  <2>3. \A k \in refused[c] \cup {KeyAt(c)} : \E i \in Keys : k = KeyNo(c, i) /\ i <= pos[c]
    BY <1>1, <1>2, CallAssumption DEF KeyAt, Keys
  <2>4. ASSUME NEW k \in refused[c] \cup {KeyAt(c)}
        PROVE  /\ \E i \in Keys : k = KeyNo(c, i)'
                     /\ (i < pos'[c] \/ (i = pos'[c] /\ pc'[c] = "raised"))
               /\ tried'[c][k] = tried[c][k]
    BY <1>1, <1>2, <1>3, <2>3, GiveUpPasses
  <2>5. \A k \in refused[c] : tried[c][k] \in Nat
    BY <1>1
  <2>6. \A k \in refused[c] : tried'[c][k] <= tried[c][k]
    BY <2>4, <2>5
  <2> QED BY <2>1, <2>2, <2>4, <2>6 DEF Respects, RefusedBehind
<1>4. CASE ~GiveUpKey(c)
  <2>1. /\ pc'[c] \in {"calling", "backoff"} /\ UNCHANGED <<pos, refused>>
        /\ tried' = tried \/ tried' = [tried EXCEPT ![c][KeyAt(c)] = @ + 1]
    BY <1>1, <1>4 DEF RetryableError, BackoffEnds, FatalError, Attempts, TypeOK
  <2>2. \A k \in refused[c] : tried'[c][k] <= tried[c][k]
    <3> TAKE k \in refused[c]
    <3>1. k # KeyAt(c) /\ tried[c][k] \in Nat
      BY <1>1, <1>2
    <3>2. CASE tried' = tried
      BY <3>1, <3>2
    <3>3. CASE tried' = [tried EXCEPT ![c][KeyAt(c)] = @ + 1]
      <4>1. tried'[c] = [tried[c] EXCEPT ![KeyAt(c)] = @ + 1]
        BY <3>3 DEF TypeOK
      <4> QED BY <1>1, <3>1, <4>1
    <3> QED BY <2>1, <3>2, <3>3
  <2>3. RefusedBehind(c)'
    BY <1>1, <2>1 DEF RefusedBehind, KeyNo
  <2> QED BY <2>2, <2>3 DEF Respects
<1> QED BY <1>3, <1>4

LEMMA LeaveRespects ==
    ASSUME TypeOK, NEW c \in Callers, Leave(c) \/ \E p \in Pairs : Begin(c, p)
    PROVE  refused'[c] = {} /\ (Leave(c) => tried'[c] = Untried)
BY DEF Leave, Begin, TypeOK

\* A call whose own variables do not move.
LEMMA OthersRespect ==
    ASSUME TypeOK, NEW d \in Callers, RefusedBehind(d),
           pc'[d] = pc[d], bound'[d] = bound[d], pos'[d] = pos[d],
           tried'[d] = tried[d], refused'[d] = refused[d]
    PROVE  Respects(d)
<1>1. \A k \in refused[d] : tried[d][k] \in Nat
  BY DEF TypeOK
<1> QED BY <1>1 DEF Respects, RefusedBehind, KeyNo

LEMMA StepRespects ==
    ASSUME TypeOK, \A c \in Callers : RefusedBehind(c), [Next]_vars, NEW d \in Callers
    PROVE  Respects(d)
<1>1. CASE UNCHANGED vars
  BY <1>1, OthersRespect DEF vars, callVars
<1>2. ASSUME NEW c \in Callers, c # d, Ends(c) \/ Cancelled(c) \/ \E p \in Pairs : Begin(c, p)
      PROVE  Respects(d)
  <2>1. /\ pc'[d] = pc[d] /\ bound'[d] = bound[d] /\ pos'[d] = pos[d]
        /\ tried'[d] = tried[d] /\ refused'[d] = refused[d]
    <3>1. CASE Succeeds(c) \/ Raises(c) \/ Cancelled(c)
      BY <1>2, <3>1 DEF Succeeds, Raises, Cancelled, Leave, TypeOK
    <3>2. CASE RetryableError(c) \/ FatalError(c) \/ BackoffEnds(c)
      BY <1>2, <3>2 DEF RetryableError, FatalError, BackoffEnds, GiveUpKey, Attempts, TypeOK
    <3>3. ASSUME NEW p \in Pairs, Begin(c, p) PROVE <2>1!:
      <4>1. bound'[d] = bound[d]
        BY <1>2, <3>3 DEF Begin, Select, TypeOK
      <4> QED BY <1>2, <3>3, <4>1 DEF Begin, TypeOK
    <3> QED BY <1>2, <3>1, <3>2, <3>3 DEF Ends
  <2> QED BY <2>1, OthersRespect
<1>3. CASE RetryableError(d) \/ FatalError(d) \/ BackoffEnds(d)
  BY <1>3, CallRespects
<1>4. CASE Leave(d)
  <2>1. refused'[d] = {} /\ tried'[d] = Untried
    BY <1>4, LeaveRespects
  <2>2. \A k \in refused[d] : tried'[d][k] <= tried[d][k]
    BY <2>1 DEF TypeOK, Untried
  <2> QED BY <2>1, <2>2 DEF Respects, RefusedBehind
<1>5. ASSUME NEW p \in Pairs, Begin(d, p) PROVE Respects(d)
  <2>1. refused'[d] = {} /\ refused[d] = {}
    BY <1>5, LeaveRespects DEF RefusedBehind, Begin
  <2> QED BY <2>1 DEF Respects, RefusedBehind
<1>6. CASE (\E p \in Pairs : GoesIdle(p)) \/ \E n \in Retries : Reload(n)
  BY <1>6, OthersRespect DEF GoesIdle, Reload, callVars
<1> QED BY <1>1, <1>2, <1>3, <1>4, <1>5, <1>6 DEF Next, Ends, Succeeds, Raises, Cancelled

\* However many calls share a pair and whatever fails: a pair keeps its key until
\* it goes idle, and no call goes back to a key that has refused it.
THEOREM KeysStayRespected == Spec => KeysRespected
<1> DEFINE Behind == \A c \in Callers : RefusedBehind(c)
<1>1. Init => Behind
  BY DEF Init, RefusedBehind
<1>2. TypeOK /\ Behind /\ [Next]_vars => Behind'
  BY StepRespects DEF Respects
<1>3. TypeOK /\ Behind /\ TypeOK' /\ [Next]_vars =>
         [\A c \in Callers, k \in Keys :
             k \in refused[c] /\ tried'[c][k] > tried[c][k] => tried[c] = Untried]_vars
  <2> SUFFICES ASSUME TypeOK, Behind, TypeOK', [Next]_vars,
                      NEW c \in Callers, NEW k \in Keys, k \in refused[c],
                      tried'[c][k] > tried[c][k]
               PROVE  FALSE
    OBVIOUS
  <2>1. tried'[c][k] <= tried[c][k]
    BY StepRespects DEF Respects
  <2>2. tried'[c][k] \in Nat /\ tried[c][k] \in Nat
    BY DEF TypeOK
  <2> QED BY <2>1, <2>2
<1> HIDE DEF Behind
<1> QED BY <1>1, <1>2, <1>3, TypeCorrect, BindingsStick, PTL DEF Spec, KeysRespected, NoHammering

-----------------------------------------------------------------------------
(* Commands and their processes *)

LEMMA WsSteps == [SvNext]_SvVars => Tools!WsNext \/ UNCHANGED wsAll
BY DEF SvNext, SvVars

WsTypes ==
    /\ disk \in Nat /\ written \in Nat /\ started \in 0..WsRuns /\ stops \subseteq Tools!Runs
    /\ left \subseteq Tools!Runs
    /\ wsCall \in [tool : {"none", "edit", "communicate", "terminated", "killed"},
                   run : 0..WsRuns, saw : Nat]
    /\ procs \in [Tools!Runs -> SUBSET Tools!Kinds]
    /\ pipe \in [Tools!Runs -> [wrote : Nat, got : Nat]]
    /\ logs \in [Tools!Runs -> Int]

\* A call that waits is that of a command; a run that was not started has no
\* process and has printed nothing.
RunInv ==
    /\ IF Tools!Waiting THEN wsCall.run \in 1..started ELSE wsCall.run = 0
    /\ \A n \in Tools!Runs : n > started =>
          ~Tools!Alive(n) /\ pipe[n].wrote = 0 /\ pipe[n].got = 0

\* Whoever lives without a call has been left behind, by a /stop or because it
\* had redirected its output, and nobody else writes what a tool does not see.
OrphanInv ==
    /\ Tools!ProcessesAccounted
    /\ \A n \in Tools!Runs : Tools!Alive(n) => wsCall.run = n \/ n \in stops \cup left
    /\ wsCall.tool = "edit" /\ disk # wsCall.saw => stops \cup left # {}

\* Until its timeout a call has collected all that was printed.
PipeInv ==
    /\ \A n \in Tools!Runs : pipe[n].got <= pipe[n].wrote
    /\ wsCall.tool = "communicate" => pipe[wsCall.run].got = pipe[wsCall.run].wrote

WsInv == WsTypes /\ RunInv /\ OrphanInv /\ PipeInv

LEMMA WsBegins == SvInit => WsInv
BY CommandsAssumption
   DEF SvInit, Tools!WsInit, WsInv, WsTypes, RunInv, OrphanInv, PipeInv, Tools!Waiting,
       Tools!ProcessesAccounted, Tools!Alive, Tools!Open, Tools!NoCall, Tools!Runs, Tools!NoLog

\* The tools that write files.
LEMMA FilesKeep ==
    ASSUME WsInv,
           \/ \E kind \in Tools!PathKinds, tooLarge \in BOOLEAN : Tools!WriteFile(kind, tooLarge)
           \/ \E kind \in Tools!PathKinds : Tools!EditReads(kind)
           \/ \E matches \in 0..2, replaceAll, tooLarge \in BOOLEAN :
                 Tools!EditWrites(matches, replaceAll, tooLarge)
    PROVE  WsInv'
<1>1. /\ UNCHANGED <<procs, pipe, logs, started, stops, left>>
      /\ disk' \in Nat /\ written' \in Nat
      /\ wsCall.tool \in {"none", "edit"} /\ wsCall.run = 0
      /\ \/ wsCall' = Tools!NoCall
         \/ wsCall' = [tool |-> "edit", run |-> 0, saw |-> disk] /\ disk' = disk
      /\ clobbered' => clobbered \/ (wsCall.tool = "edit" /\ disk # wsCall.saw)
  BY DEF WsInv, WsTypes, RunInv, Tools!WriteFile, Tools!EditReads, Tools!EditWrites, Tools!Written,
         Tools!wsFiles, Tools!Free, Tools!NoCall, Tools!Waiting
<1>2. WsTypes'
  BY <1>1, CommandsAssumption DEF WsInv, WsTypes, Tools!NoCall
<1>3. RunInv' /\ PipeInv'
  BY <1>1 DEF WsInv, RunInv, PipeInv, Tools!NoCall, Tools!Waiting, Tools!Alive
<1>4. OrphanInv'
  BY <1>1 DEF WsInv, OrphanInv, Tools!ProcessesAccounted, Tools!NoCall, Tools!Alive, Tools!Open
<1> QED BY <1>2, <1>3, <1>4 DEF WsInv

LEMMA StartKeeps ==
    ASSUME WsInv, Tools!StartCommand
    PROVE  WsInv'
<1> DEFINE n0 == started + 1
<1>1. /\ UNCHANGED <<disk, clobbered, written, pipe, logs, stops, left>>
      /\ n0 \in Tools!Runs /\ started' = n0
      /\ procs' = [procs EXCEPT ![n0] = {"attached"}]
      /\ wsCall' = [tool |-> "communicate", run |-> n0, saw |-> 0]
      /\ started \in Nat /\ WsRuns \in Nat
  BY CommandsAssumption DEF WsInv, WsTypes, Tools!StartCommand, Tools!wsFiles, Tools!Runs
<1>2. WsTypes'
  BY <1>1 DEF WsInv, WsTypes, Tools!Runs, Tools!Kinds, Tools!Group, Tools!Holders
<1>3. pipe[n0].wrote = 0 /\ pipe[n0].got = 0
  BY <1>1 DEF WsInv, RunInv
<1>4. RunInv'
  <2>1. ASSUME NEW n \in Tools!Runs, n > started'
        PROVE  n > started /\ procs'[n] = procs[n]
    BY <1>1, <2>1 DEF WsInv, WsTypes, Tools!Runs
  <2> QED BY <1>1, <2>1 DEF WsInv, RunInv, Tools!Waiting, Tools!Alive, Tools!Runs
<1>5. PipeInv'
  BY <1>1, <1>3 DEF WsInv, PipeInv
<1>6. OrphanInv'
  <2>1. wsCall.run = 0
    BY DEF WsInv, RunInv, Tools!Waiting, Tools!StartCommand, Tools!Free, Tools!NoCall
  <2>2. ASSUME NEW n \in Tools!Runs, n # n0 PROVE procs'[n] = procs[n]
    BY <1>1, <2>2 DEF WsInv, WsTypes
  <2>3. ASSUME NEW n \in Tools!Runs, Tools!Alive(n)' PROVE n = n0 \/ n \in stops \cup left
    BY <2>1, <2>2, <2>3 DEF WsInv, OrphanInv, Tools!Alive, Tools!Runs
  <2>4. ASSUME NEW n \in Tools!Runs, Tools!Open(n)' PROVE n = n0 \/ n \in stops
    BY <2>1, <2>2, <2>4 DEF WsInv, OrphanInv, Tools!ProcessesAccounted, Tools!Open, Tools!Runs
  <2> QED BY <1>1, <2>3, <2>4 DEF WsInv, OrphanInv, Tools!ProcessesAccounted
<1> QED BY <1>2, <1>4, <1>5, <1>6 DEF WsInv

\* The processes of a run become others that can come from them: nobody comes to
\* life, gets the pipe or joins the group again.
Comes(run, ps) ==
    /\ ps \subseteq Tools!Kinds
    /\ ps # {} => Tools!Alive(run)
    /\ ps \cap Tools!Holders # {} => Tools!Open(run)
    /\ ps \cap Tools!Group # {} => procs[run] \cap Tools!Group # {}

\* While that happens to a run, and a call may give up collecting, all stays
\* accounted for.
LEMMA ProcsKeep ==
    ASSUME WsInv, NEW run \in Tools!Runs, NEW ps, Comes(run, ps),
           procs' = [procs EXCEPT ![run] = ps],
           UNCHANGED <<disk, clobbered, written, logs, started, stops, left>>,
           \/ wsCall' = wsCall /\ pipe' = pipe
           \/ /\ Tools!Waiting /\ run = wsCall.run
              /\ pipe' = [pipe EXCEPT ![run].got = 0]
              /\ \/ wsCall' = [wsCall EXCEPT !.tool = "terminated"]
                 \/ wsCall' = [wsCall EXCEPT !.tool = "killed"] /\ ps \cap Tools!Group = {}
    PROVE  WsInv'
<1>1. /\ wsCall'.run = wsCall.run /\ wsCall'.saw = wsCall.saw
      /\ Tools!Waiting' = Tools!Waiting /\ (wsCall'.tool = "edit" => wsCall.tool = "edit")
  BY DEF WsInv, WsTypes, Tools!Waiting
<1>2. \A n \in Tools!Runs : procs'[n] = IF n = run THEN ps ELSE procs[n]
  BY DEF WsInv, WsTypes
<1>3. WsTypes'
  BY DEF WsInv, WsTypes, Comes
<1>4. \A n \in Tools!Runs : /\ pipe'[n].wrote = pipe[n].wrote
                            /\ pipe'[n].got = pipe[n].got \/ pipe'[n].got = 0
                            /\ pipe[n].wrote \in Nat
  BY DEF WsInv, WsTypes
<1>5. \A n \in Tools!Runs : Tools!Alive(n)' => Tools!Alive(n)
  BY <1>2 DEF Comes, Tools!Alive
<1>6. \A n \in Tools!Runs : Tools!Open(n)' => Tools!Open(n)
  BY <1>2 DEF Comes, Tools!Open
<1>7. RunInv'
  BY <1>1, <1>4, <1>5 DEF WsInv, RunInv
<1>8. PipeInv'
  <2>1. \A n \in Tools!Runs : pipe'[n].got <= pipe'[n].wrote
    BY <1>4 DEF WsInv, PipeInv
  <2>2. wsCall'.tool = "communicate" => wsCall' = wsCall /\ pipe' = pipe
    BY DEF WsInv, WsTypes
  <2> QED BY <2>1, <2>2 DEF WsInv, PipeInv
<1>9. OrphanInv'
  <2>1. wsCall'.tool = "killed" => procs'[wsCall.run] \cap Tools!Group = {}
    <3>1. wsCall.tool = "killed" => wsCall.run \in Tools!Runs
      BY DEF WsInv, WsTypes, RunInv, Tools!Waiting, Tools!Runs
    <3>2. CASE wsCall' = wsCall
      BY <1>2, <3>1, <3>2 DEF WsInv, OrphanInv, Tools!ProcessesAccounted, Comes
    <3>3. CASE wsCall' # wsCall
      BY <1>2, <3>3 DEF WsInv, WsTypes
    <3> QED BY <3>2, <3>3
  <2> QED BY <1>1, <1>5, <1>6, <2>1 DEF WsInv, OrphanInv, Tools!ProcessesAccounted
<1> QED BY <1>3, <1>7, <1>8, <1>9 DEF WsInv

\* A call is over: it leaves nobody with the pipe behind without a /stop.
LEMMA OverKeeps ==
    ASSUME WsInv, Tools!CommandEnds \/ Tools!StopCancels
    PROVE  WsInv'
<1> DEFINE run == wsCall.run
<1>1. /\ UNCHANGED <<disk, clobbered, written, procs, pipe, started>>
      /\ wsCall' = Tools!NoCall /\ run \in Tools!Runs
      /\ logs' = logs \/ logs' = [logs EXCEPT ![run] = pipe[run].got]
      /\ pipe[run].got \in Int
      /\ stops \subseteq stops' /\ left \subseteq left'
      /\ stops' \subseteq Tools!Runs /\ left' \subseteq Tools!Runs
      /\ Tools!Alive(run) => run \in stops' \cup left'
      /\ Tools!Open(run) => run \in stops'
  <2>1. run \in Tools!Runs
    BY DEF WsInv, WsTypes, RunInv, Tools!CommandEnds, Tools!StopCancels, Tools!Runs
  <2>2. /\ UNCHANGED <<disk, clobbered, written, procs, pipe, started>>
        /\ wsCall' = Tools!NoCall /\ pipe[run].got \in Int
        /\ logs' = logs \/ logs' = [logs EXCEPT ![run] = pipe[run].got]
    BY <2>1 DEF WsInv, WsTypes, Tools!CommandEnds, Tools!StopCancels, Tools!wsFiles
  <2>3. CASE Tools!CommandEnds
    BY <2>1, <2>2, <2>3 DEF WsInv, WsTypes, Tools!CommandEnds
  <2>4. CASE Tools!StopCancels
    <3>1. Tools!Open(run) => Tools!Alive(run)
      BY DEF Tools!Open, Tools!Alive
    <3> QED BY <2>1, <2>2, <2>4, <3>1 DEF WsInv, WsTypes, Tools!StopCancels
  <2> QED BY <2>3, <2>4
<1>2. WsTypes'
  BY <1>1, CommandsAssumption DEF WsInv, WsTypes, Tools!NoCall
<1>3. RunInv' /\ PipeInv'
  BY <1>1 DEF WsInv, RunInv, PipeInv, Tools!NoCall, Tools!Waiting, Tools!Alive
<1>4. OrphanInv'
  BY <1>1 DEF WsInv, OrphanInv, Tools!ProcessesAccounted, Tools!NoCall, Tools!Alive, Tools!Open
<1> QED BY <1>2, <1>3, <1>4 DEF WsInv

LEMMA ProcessKeeps ==
    ASSUME WsInv, NEW n \in Tools!Runs, Tools!ProcessWrites(n) \/ Tools!ProcessPrints(n)
    PROVE  WsInv'
<1>1. CASE Tools!ProcessWrites(n)
  <2>1. /\ disk' \in Nat /\ written' \in Nat
        /\ UNCHANGED <<clobbered, wsCall, procs, pipe, logs, started, stops, left>>
    BY <1>1 DEF WsInv, WsTypes, Tools!ProcessWrites, Tools!Written
  <2>2. wsCall.tool = "edit" => stops \cup left # {}
    BY <1>1 DEF WsInv, RunInv, OrphanInv, Tools!ProcessesAccounted, Tools!ProcessWrites,
                Tools!Waiting, Tools!Runs
  <2> QED BY <2>1, <2>2 DEF WsInv, WsTypes, RunInv, PipeInv, OrphanInv, Tools!ProcessesAccounted,
                            Tools!Waiting, Tools!Alive, Tools!Open
<1>2. CASE Tools!ProcessPrints(n)
  <2>1. /\ UNCHANGED <<disk, clobbered, written, wsCall, procs, logs, started, stops, left>>
        /\ n <= started
    BY <1>2 DEF WsInv, WsTypes, RunInv, Tools!ProcessPrints, Tools!wsFiles, Tools!Runs,
                Tools!Open, Tools!Alive
  <2>2. /\ pipe'[n].wrote = pipe[n].wrote + 1
        /\ pipe'[n].got = IF Tools!Waiting /\ wsCall.run = n THEN pipe[n].got + 1 ELSE pipe[n].got
        /\ \A m \in Tools!Runs \ {n} : pipe'[m] = pipe[m]
        /\ pipe' \in [Tools!Runs -> [wrote : Nat, got : Nat]]
    <3> DEFINE printed == [wrote |-> pipe[n].wrote + 1,
                           got |-> IF Tools!Waiting /\ wsCall.run = n
                                   THEN pipe[n].got + 1 ELSE pipe[n].got]
    <3>1. pipe \in [Tools!Runs -> [wrote : Nat, got : Nat]]
      BY DEF WsInv, WsTypes
    <3>2. pipe' = [pipe EXCEPT ![n] = printed]
      BY <1>2, <3>1 DEF Tools!ProcessPrints
    <3>3. pipe[n].wrote \in Nat /\ pipe[n].got \in Nat
      BY <3>1
    <3>4. printed \in [wrote : Nat, got : Nat]
      BY <3>3
    <3>5. /\ pipe'[n] = printed /\ pipe' \in [Tools!Runs -> [wrote : Nat, got : Nat]]
          /\ \A m \in Tools!Runs \ {n} : pipe'[m] = pipe[m]
      BY <3>1, <3>2, <3>4
    <3> QED BY <3>5
  <2>3. pipe[n].wrote \in Nat /\ pipe[n].got \in Nat /\ pipe[n].got <= pipe[n].wrote
    BY DEF WsInv, WsTypes, PipeInv
  <2>4. WsTypes'
    BY <2>1, <2>2 DEF WsInv, WsTypes
  <2>5. PipeInv'
    <3>1. \A m \in Tools!Runs : pipe'[m].got <= pipe'[m].wrote
      BY <2>2, <2>3 DEF WsInv, PipeInv
    <3>2. wsCall.tool = "communicate" =>
             pipe'[wsCall.run].got = pipe'[wsCall.run].wrote
      <4>1. SUFFICES ASSUME wsCall.tool = "communicate"
                     PROVE  pipe'[wsCall.run].got = pipe'[wsCall.run].wrote
        OBVIOUS
      <4>2. /\ Tools!Waiting /\ wsCall.run \in Tools!Runs
            /\ pipe[wsCall.run].got = pipe[wsCall.run].wrote
        BY <4>1 DEF WsInv, WsTypes, RunInv, PipeInv, Tools!Waiting, Tools!Runs
      <4>3. CASE wsCall.run = n
        BY <2>2, <2>3, <4>2, <4>3
      <4>4. CASE wsCall.run # n
        BY <2>2, <4>2, <4>4
      <4> QED BY <4>3, <4>4
    <3> QED BY <2>1, <3>1, <3>2 DEF PipeInv
  <2>6. RunInv'
    <3>1. \A m \in Tools!Runs : m > started => m # n
      BY <2>1 DEF WsInv, WsTypes, Tools!Runs
    <3> QED BY <2>1, <2>2, <3>1 DEF WsInv, RunInv, Tools!Waiting, Tools!Alive
  <2>7. OrphanInv'
    BY <2>1 DEF WsInv, OrphanInv, Tools!ProcessesAccounted, Tools!Alive, Tools!Open
  <2> QED BY <2>4, <2>5, <2>6, <2>7 DEF WsInv
<1> QED BY <1>1, <1>2

LEMMA WsKeeps == WsInv /\ [SvNext]_SvVars => WsInv'
<1> SUFFICES ASSUME WsInv, [SvNext]_SvVars PROVE WsInv'
  OBVIOUS
<1>1. CASE UNCHANGED wsAll
  BY <1>1 DEF wsAll, WsInv, WsTypes, RunInv, OrphanInv, PipeInv, Tools!ProcessesAccounted,
              Tools!Waiting, Tools!Alive, Tools!Open
<1>2. CASE Tools!TimesOut \/ Tools!Escalates
  <2> DEFINE run == wsCall.run
  <2>1. Tools!Waiting /\ run \in Tools!Runs
    BY <1>2 DEF WsInv, WsTypes, RunInv, Tools!TimesOut, Tools!Escalates, Tools!Waiting, Tools!Runs
  <2>2. PICK killed \in SUBSET Tools!Group :
            /\ procs' = [procs EXCEPT ![run] = @ \ killed]
            /\ Tools!Escalates => killed = Tools!Group
    <3>1. CASE Tools!TimesOut
      <4>1. ~Tools!Escalates
        BY <3>1 DEF Tools!TimesOut, Tools!Escalates
      <4> QED BY <3>1, <4>1 DEF Tools!TimesOut, Tools!Signal
    <3>2. CASE Tools!Escalates
      BY <3>2 DEF Tools!Escalates, Tools!Signal
    <3> QED BY <1>2, <3>1, <3>2
  <2> DEFINE ps == procs[run] \ killed
  <2>3. Comes(run, ps) /\ procs' = [procs EXCEPT ![run] = ps]
    BY <2>1, <2>2 DEF WsInv, WsTypes, Comes, Tools!Alive, Tools!Open
  <2>4. /\ UNCHANGED <<disk, clobbered, written, logs, started, stops, left>>
        /\ pipe' = [pipe EXCEPT ![run].got = 0]
        /\ \/ wsCall' = [wsCall EXCEPT !.tool = "terminated"]
           \/ wsCall' = [wsCall EXCEPT !.tool = "killed"] /\ ps \cap Tools!Group = {}
    BY <1>2, <2>2 DEF Tools!TimesOut, Tools!Escalates, Tools!wsFiles
  <2> HIDE DEF ps, run
  <2>5. run = wsCall.run
    BY DEF run
  <2> QED BY <2>1, <2>3, <2>4, <2>5, ProcsKeep
<1>3. ASSUME NEW n \in Tools!Runs, NEW kind \in Tools!Kinds,
             Tools!ProcessForks(n, kind) \/ Tools!ProcessExits(n, kind)
      PROVE  WsInv'
  <2>1. UNCHANGED <<disk, clobbered, written, wsCall, pipe, logs, started, stops, left>>
    BY <1>3 DEF Tools!ProcessForks, Tools!ProcessExits, Tools!wsFiles
  <2>2. PICK ps : procs' = [procs EXCEPT ![n] = ps] /\ Comes(n, ps)
    <3>1. CASE Tools!ProcessForks(n, kind)
      <4>1. Comes(n, procs[n] \cup {kind})
        BY <3>1 DEF Tools!ProcessForks, WsInv, WsTypes, Comes, Tools!Alive, Tools!Open
      <4> QED BY <3>1, <4>1 DEF Tools!ProcessForks
    <3>2. CASE Tools!ProcessExits(n, kind)
      <4>1. Comes(n, procs[n] \ {kind})
        BY <3>2 DEF Tools!ProcessExits, WsInv, WsTypes, Comes, Tools!Alive, Tools!Open
      <4> QED BY <3>2, <4>1 DEF Tools!ProcessExits
    <3> QED BY <1>3, <3>1, <3>2
  <2> QED BY <2>1, <2>2, ProcsKeep
<1> QED BY <1>1, <1>2, <1>3, FilesKeep, StartKeeps, OverKeeps, ProcessKeeps, WsSteps
        DEF Tools!WsNext

\* Whatever a command and its processes do, wherever /stop cuts in: who outlives
\* its call without a /stop has redirected its output, and left the group if it
\* came to SIGKILL; no change is overwritten unseen but with somebody left
\* behind; and the transcript of a command that ended in time is whole.
THEOREM CommandsStayAccounted == SvSpec => CommandsAccounted
<1>1. WsInv /\ [SvNext]_SvVars =>
         [Tools!ProcessesAccounted' /\ Tools!TranscriptIsWhole]_Tools!wsVars
  <2>0. WsInv /\ [SvNext]_SvVars => Tools!ProcessesAccounted'
    BY WsKeeps DEF WsInv, OrphanInv
  <2> SUFFICES ASSUME WsInv, [SvNext]_SvVars, NEW n \in Tools!Runs, logs'[n] # logs[n]
               PROVE  /\ logs'[n] <= pipe[n].wrote
                      /\ wsCall.tool = "communicate" => logs'[n] = pipe[n].wrote
    BY <2>0 DEF Tools!TranscriptIsWhole
  <2>1. Tools!CommandEnds
    BY WsSteps DEF Tools!WsNext, wsAll, Tools!WriteFile, Tools!EditReads, Tools!EditWrites,
       Tools!StartCommand, Tools!TimesOut, Tools!Escalates, Tools!StopCancels,
       Tools!ProcessWrites, Tools!ProcessPrints, Tools!ProcessForks, Tools!ProcessExits
  <2>2. n = wsCall.run /\ logs'[n] = pipe[n].got
    BY <2>1 DEF Tools!CommandEnds, WsInv, WsTypes
  <2> QED BY <2>2 DEF WsInv, PipeInv
<1> QED BY <1>1, WsBegins, WsKeeps, PTL
        DEF SvSpec, CommandsAccounted, Tools!CommandsAccounted

-----------------------------------------------------------------------------
(* MCP servers *)

LEMMA McSteps == [SvNext]_SvVars => Mcp!McNext \/ UNCHANGED mcAll
BY DEF SvNext, SvVars

\* mcp.servers has s before t.
Before(s, t) ==
    \E k, n \in 1..Len(McServers) : McServers[k] = s /\ McServers[n] = t /\ k < n

LEMMA ServersInOrder ==
    /\ McServers \in Seq(Mcp!McNames) /\ Len(McServers) \in Nat
    /\ Mcp!McNames = {McServers[k] : k \in 1..Len(McServers)}
    /\ \A s \in Mcp!McNames : ~Before(s, s) /\ s # Mcp!NoServer
<1>1. McServers \in Seq({McServers[i] : i \in DOMAIN McServers})
  BY ServersAssumption
<1>2. Len(McServers) \in Nat /\ DOMAIN McServers = 1..Len(McServers)
  BY <1>1
<1>3. Mcp!McNames = {McServers[k] : k \in DOMAIN McServers}
  BY DEF Mcp!McNames, Mcp!ToSet
<1>4. \A s \in Mcp!McNames : ~Before(s, s) /\ s # Mcp!NoServer
  BY <1>2, <1>3, ServersAssumption DEF Before
<1> QED BY <1>1, <1>2, <1>3, <1>4

Cms == [server : Mcp!McNames, kind : {"session", "transport"}]

McTypes ==
    /\ next \in Nat \ {0}
    /\ link \in [Mcp!McNames -> {"none", "open", "leaked", "entered", "failed", "ready"}]
    /\ handles \in Seq(Mcp!McNames) /\ gone \in Seq(Cms)

Kept(s) == link[s] \in {"entered", "failed", "ready"}

\* close_all knows the servers whose session was entered, in their order; the
\* last of them may be the one that connects.
HandlesInv ==
    stage # "closed" =>
        /\ \A s \in Mcp!McNames : Kept(s) => \E i \in 1..Len(handles) : handles[i] = s
        /\ \A i, j \in 1..Len(handles) : i < j => Before(handles[i], handles[j])
        /\ \A i \in 1..Len(handles) : \E k \in 1..Len(McServers) :
              /\ McServers[k] = handles[i]
              /\ k < next \/ (k = next /\ link[handles[i]] = "entered")

\* A server is closed: its session, its transport, and before them only servers
\* that are later in the order.
ClosedIn(s) ==
    \E i \in 1..Len(gone) - 1 :
        /\ gone[i] = [server |-> s, kind |-> "session"]
        /\ gone[i + 1] = [server |-> s, kind |-> "transport"]
        /\ \A j \in 1..i - 1 : Before(s, gone[j].server)

\* close_all has come down to the p-th of handles.
CloseAt(p) ==
    /\ \A i \in 1..Len(handles) : i > p => ClosedIn(handles[i])
    /\ \/ /\ p = 0 /\ closing = Mcp!NoCm
       \/ /\ p \in 1..Len(handles) /\ closing = [server |-> handles[p], kind |-> "session"]
          /\ \A i \in 1..p, j \in 1..Len(gone) : Before(handles[i], gone[j].server)
       \/ /\ p \in 1..Len(handles) /\ closing = [server |-> handles[p], kind |-> "transport"]
          /\ \A i \in 1..p, j \in 1..Len(gone) - 1 : Before(handles[i], gone[j].server)
          /\ Len(gone) > 0 /\ gone[Len(gone)] = [server |-> handles[p], kind |-> "session"]

ClosingInv ==
    /\ stage \in {"boot", "up"} => gone = << >>
    /\ stage = "closing" => \E p \in Nat : CloseAt(p)
    /\ stage = "closed" => \A s \in Mcp!McNames : Kept(s) => ClosedIn(s)

McInv == McTypes /\ HandlesInv /\ ClosingInv

LEMMA McBegins == SvInit => McInv
BY ServersInOrder DEF SvInit, Mcp!McInit, McInv, McTypes, HandlesInv, ClosingInv, Kept

\* connect_all goes on.
LEMMA BootKeeps ==
    ASSUME McInv, NEW s \in Mcp!McNames,
           Mcp!OpenTransport(s) \/ Mcp!EnterSession(s) \/ Mcp!ListTools(s) \/ Mcp!SkipServer(s)
    PROVE  McInv'
<1>1. /\ stage = "boot" /\ UNCHANGED <<stage, closing, gone>> /\ gone = << >>
      /\ next \in 1..Len(McServers) /\ s = McServers[next] /\ Len(handles) \in Nat
  <2>1. stage = "boot" /\ next <= Len(McServers) /\ s = McServers[next] /\ UNCHANGED stage
    BY DEF Mcp!OpenTransport, Mcp!EnterSession, Mcp!ListTools, Mcp!SkipServer, Mcp!Booting
  <2>2. UNCHANGED <<closing, gone>>
    BY DEF Mcp!OpenTransport, Mcp!EnterSession, Mcp!ListTools, Mcp!SkipServer, Mcp!mcClose
  <2>3. next \in 1..Len(McServers) /\ Len(handles) \in Nat /\ gone = << >>
    BY <2>1, ServersInOrder DEF McInv, McTypes, ClosingInv
  <2> QED BY <2>1, <2>2, <2>3
<1>2. CASE Mcp!EnterSession(s)
  <2>1. /\ link[s] = "open" /\ link' = [link EXCEPT ![s] = "entered"]
        /\ handles' = Append(handles, s) /\ next' = next
    BY <1>2 DEF Mcp!EnterSession, Mcp!EnterKept
  <2>2. /\ Len(handles') = Len(handles) + 1 /\ handles'[Len(handles) + 1] = s
        /\ \A i \in 1..Len(handles) : handles'[i] = handles[i] /\ handles[i] \in Mcp!McNames
        /\ handles' \in Seq(Mcp!McNames)
    BY <2>1 DEF McInv, McTypes
  <2>3. ASSUME NEW i \in 1..Len(handles)
        PROVE  /\ \E k \in 1..Len(McServers) : McServers[k] = handles[i] /\ k < next
               /\ Before(handles[i], s) /\ handles[i] # s
    <3>1. PICK k \in 1..Len(McServers) :
             McServers[k] = handles[i] /\ (k < next \/ (k = next /\ link[handles[i]] = "entered"))
      BY <1>1 DEF McInv, HandlesInv
    <3>2. k < next
      BY <1>1, <2>1, <3>1
    <3>3. Before(handles[i], s)
      BY <1>1, <3>1, <3>2 DEF Before
    <3> QED BY <3>1, <3>2, <3>3, ServersInOrder
  <2>4. \A t \in Mcp!McNames : Kept(t)' => \E i \in 1..Len(handles') : handles'[i] = t
    <3>1. ASSUME NEW t \in Mcp!McNames, Kept(t)' PROVE \E i \in 1..Len(handles') : handles'[i] = t
      <4>1. CASE t = s
        BY <1>1, <2>2, <4>1
      <4>2. CASE t # s
        <5>1. Kept(t)
          BY <2>1, <3>1, <4>2 DEF McInv, McTypes, Kept
        <5>2. PICK i \in 1..Len(handles) : handles[i] = t
          BY <1>1, <5>1 DEF McInv, HandlesInv
        <5> QED BY <1>1, <2>2, <5>2
      <4> QED BY <4>1, <4>2
    <3> QED BY <3>1
  <2>5. ASSUME NEW i \in 1..Len(handles'), NEW j \in 1..Len(handles'), i < j
        PROVE  Before(handles'[i], handles'[j])
    <3>1. CASE j = Len(handles) + 1
      BY <1>1, <2>2, <2>3, <2>5, <3>1
    <3>2. CASE j # Len(handles) + 1
      <4>1. i \in 1..Len(handles) /\ j \in 1..Len(handles)
        BY <1>1, <2>2, <2>5, <3>2
      <4>2. Before(handles[i], handles[j])
        BY <1>1, <2>5, <4>1 DEF McInv, HandlesInv
      <4> QED BY <2>2, <4>1, <4>2
    <3> QED BY <3>1, <3>2
  <2>6. ASSUME NEW i \in 1..Len(handles')
        PROVE  \E k \in 1..Len(McServers) :
                  /\ McServers[k] = handles'[i]
                  /\ k < next' \/ (k = next' /\ link'[handles'[i]] = "entered")
    <3>1. CASE i = Len(handles) + 1
      <4>1. link'[s] = "entered"
        BY <2>1 DEF McInv, McTypes
      <4> QED BY <1>1, <2>1, <2>2, <3>1, <4>1
    <3>2. CASE i # Len(handles) + 1
      <4>1. i \in 1..Len(handles)
        BY <1>1, <2>2, <3>2
      <4> QED BY <2>1, <2>2, <2>3, <4>1
    <3> QED BY <3>1, <3>2
  <2>7. McTypes'
    BY <1>1, <2>1, <2>2 DEF McInv, McTypes
  <2>8. HandlesInv'
    BY <2>4, <2>5, <2>6 DEF HandlesInv
  <2> QED BY <1>1, <2>7, <2>8 DEF McInv, ClosingInv
<1>3. CASE Mcp!OpenTransport(s) \/ Mcp!ListTools(s) \/ Mcp!SkipServer(s)
  <2>1. /\ handles' = handles /\ next' \in {next, next + 1} 
        /\ \E to \in {"none", "open", "leaked", "failed", "ready"} :
              link' = [link EXCEPT ![s] = to]
        /\ link[s] = "entered" => next' = next + 1
        /\ link'[s] \in {"failed", "ready"} => link[s] = "entered"
    BY <1>3 DEF McInv, McTypes, Mcp!OpenTransport, Mcp!ListTools, Mcp!SkipServer, Mcp!EnterSession
  <2>2. McTypes'
    BY <1>1, <2>1 DEF McInv, McTypes
  <2>3. \A t \in Mcp!McNames : Kept(t)' => Kept(t)
    BY <2>1 DEF McInv, McTypes, Kept
  <2>4. ASSUME NEW i \in 1..Len(handles)
        PROVE  \E k \in 1..Len(McServers) :
                  /\ McServers[k] = handles[i]
                  /\ k < next' \/ (k = next' /\ link'[handles[i]] = "entered")
    <3>1. PICK k \in 1..Len(McServers) :
             McServers[k] = handles[i] /\ (k < next \/ (k = next /\ link[handles[i]] = "entered"))
      BY <1>1 DEF McInv, HandlesInv
    <3>2. k < next'
      <4>1. next \in Nat /\ k \in Nat
        BY <1>1, ServersInOrder
      <4>2. CASE k < next
        BY <2>1, <4>1, <4>2
      <4>3. CASE k = next /\ link[handles[i]] = "entered"
        <5>1. handles[i] = s
          BY <1>1, <3>1, <4>3
        <5> QED BY <2>1, <4>1, <4>3, <5>1
      <4> QED BY <3>1, <4>2, <4>3
    <3> QED BY <3>1, <3>2
  <2>5. HandlesInv'
    BY <1>1, <2>1, <2>3, <2>4 DEF McInv, HandlesInv
  <2> QED BY <1>1, <2>2, <2>5 DEF McInv, ClosingInv
<1> QED BY <1>2, <1>3

\* Steps that leave alone what close_all works on.
LEMMA BesideKeeps ==
    ASSUME McInv, UNCHANGED <<next, link, handles, closing, gone>>,
           stage' = stage \/ (stage = "boot" /\ stage' = "up")
    PROVE  McInv'
<1>1. McTypes' /\ HandlesInv'
  BY DEF McInv, McTypes, HandlesInv, Kept
<1>2. ClosingInv'
  <2>1. \A s : ClosedIn(s)' = ClosedIn(s)
    BY DEF ClosedIn
  <2>2. \A p \in Nat : CloseAt(p)' = CloseAt(p)
    BY <2>1 DEF CloseAt
  <2>3. \A s \in Mcp!McNames : Kept(s)' = Kept(s)
    BY DEF Kept
  <2> QED BY <2>1, <2>2, <2>3 DEF McInv, ClosingInv
<1> QED BY <1>1, <1>2 DEF McInv

LEMMA CloseAllKeeps ==
    ASSUME McInv, Mcp!CloseAll
    PROVE  McInv'
<1>1. /\ stage = "up" /\ stage' = "closing" /\ UNCHANGED <<next, link, handles, gone>>
      /\ gone = << >>
      /\ closing' = IF handles = << >> THEN Mcp!NoCm
                    ELSE [server |-> Mcp!Last(handles), kind |-> "session"]
  BY DEF McInv, ClosingInv, Mcp!CloseAll, Mcp!mcConn
<1>2. handles \in Seq(Mcp!McNames) /\ Len(handles) \in Nat
  BY DEF McInv, McTypes
<1>3. CloseAt(Len(handles))'
  <2>1. CASE handles = << >>
    BY <1>1, <1>2, <2>1 DEF CloseAt, Mcp!NoCm
  <2>2. CASE handles # << >>
    <3>1. Len(handles) \in 1..Len(handles) /\ Mcp!Last(handles) = handles[Len(handles)]
      BY <1>2, <2>2 DEF Mcp!Last
    <3> QED BY <1>1, <1>2, <2>2, <3>1 DEF CloseAt
  <2> QED BY <2>1, <2>2
<1>4. McTypes' /\ HandlesInv'
  BY <1>1 DEF McInv, McTypes, HandlesInv, Kept
<1> QED BY <1>1, <1>2, <1>3, <1>4 DEF McInv, ClosingInv

\* Handles are distinct: close_all finds its way by the name.
LEMMA HandlesDiffer ==
    ASSUME McInv, stage = "closing", NEW p \in 1..Len(handles)
    PROVE  /\ (CHOOSE k \in 1..Len(handles) : handles[k] = handles[p]) = p
           /\ handles[p] # Mcp!NoServer
<1>1. handles \in Seq(Mcp!McNames) /\ Len(handles) \in Nat
  BY DEF McInv, McTypes
<1>2. \A k \in 1..Len(handles) : handles[k] \in Mcp!McNames
  BY <1>1
<1>3. \A i, j \in 1..Len(handles) : i < j => handles[i] # handles[j]
  BY <1>2, ServersInOrder DEF McInv, HandlesInv
<1>4. \A k \in 1..Len(handles) : handles[k] = handles[p] => k = p
  BY <1>1, <1>3
<1> QED BY <1>2, <1>4, ServersInOrder

\* What has been closed stays so, whatever is closed after it.
LEMMA StaysClosed ==
    ASSUME gone \in Seq(Cms), NEW cm \in Cms, gone' = Append(gone, cm), NEW s, ClosedIn(s)
    PROVE  ClosedIn(s)'
<1>1. /\ Len(gone') = Len(gone) + 1 /\ gone'[Len(gone) + 1] = cm /\ Len(gone) \in Nat
      /\ \A i \in 1..Len(gone) : gone'[i] = gone[i]
  OBVIOUS
<1>2. PICK i \in 1..Len(gone) - 1 :
        /\ gone[i] = [server |-> s, kind |-> "session"]
        /\ gone[i + 1] = [server |-> s, kind |-> "transport"]
        /\ \A j \in 1..i - 1 : Before(s, gone[j].server)
  BY DEF ClosedIn
<1>3. i \in 1..Len(gone') - 1 /\ gone'[i] = gone[i] /\ gone'[i + 1] = gone[i + 1]
  BY <1>1
<1>4. ASSUME NEW j \in 1..i - 1 PROVE Before(s, gone'[j].server)
  <2>1. j \in 1..Len(gone) /\ gone'[j] = gone[j]
    BY <1>1
  <2>2. Before(s, gone[j].server)
    BY <1>2
  <2> QED BY <2>1, <2>2
<1> QED BY <1>2, <1>3, <1>4 DEF ClosedIn

LEMMA CloseCmKeeps ==
    ASSUME McInv, Mcp!CloseCm
    PROVE  McInv'
<1>1. /\ stage = "closing" /\ stage' = "closing" /\ UNCHANGED <<next, link, handles>>
      /\ closing # Mcp!NoCm /\ gone' = Append(gone, closing)
      /\ closing' = Mcp!Following(closing)
  BY DEF Mcp!CloseCm, Mcp!mcConn
<1>2. PICK p \in Nat : CloseAt(p)
  BY <1>1 DEF McInv, ClosingInv
<1>3. /\ p \in 1..Len(handles) /\ closing.server = handles[p] /\ Len(handles) \in Nat
      /\ closing \in Cms /\ gone \in Seq(Cms)
  <2>1. p \in 1..Len(handles) /\ closing.server = handles[p]
        /\ closing.kind \in {"session", "transport"}
        /\ closing = [server |-> handles[p], kind |-> closing.kind]
    BY <1>1, <1>2 DEF CloseAt
  <2>2. handles[p] \in Mcp!McNames
    BY <2>1 DEF McInv, McTypes
  <2> QED BY <2>1, <2>2 DEF McInv, McTypes, Cms
<1>4. /\ gone' \in Seq(Cms) /\ Len(gone) \in Nat
      /\ Len(gone') = Len(gone) + 1 /\ gone'[Len(gone) + 1] = closing
      /\ \A i \in 1..Len(gone) : gone'[i] = gone[i]
  BY <1>1, <1>3
<1>5. \A i \in 1..Len(handles) : i > p => ClosedIn(handles[i])'
  BY <1>1, <1>2, <1>3, StaysClosed DEF CloseAt
<1>6. \E q \in Nat : CloseAt(q)'
  <2>1. CASE /\ closing = [server |-> handles[p], kind |-> "session"]
             /\ \A i \in 1..p, j \in 1..Len(gone) : Before(handles[i], gone[j].server)
    <3>1. closing' = [server |-> handles[p], kind |-> "transport"]
      BY <1>1, <2>1 DEF Mcp!Following
    <3>2. ASSUME NEW i \in 1..p, NEW j \in 1..Len(gone') - 1
          PROVE  Before(handles'[i], gone'[j].server)
      <4>1. j \in 1..Len(gone) /\ gone'[j] = gone[j] /\ handles' = handles
        BY <1>1, <1>4
      <4>2. Before(handles[i], gone[j].server)
        BY <2>1, <4>1
      <4> QED BY <4>1, <4>2
    <3>3. Len(gone') > 0 /\ gone'[Len(gone')] = [server |-> handles'[p], kind |-> "session"]
      BY <1>1, <1>4, <2>1
    <3>4. CloseAt(p)'
      BY <1>1, <1>3, <1>5, <3>1, <3>2, <3>3 DEF CloseAt
    <3> QED BY <3>4
  <2>2. CASE /\ closing = [server |-> handles[p], kind |-> "transport"]
             /\ \A i \in 1..p, j \in 1..Len(gone) - 1 : Before(handles[i], gone[j].server)
             /\ Len(gone) > 0 /\ gone[Len(gone)] = [server |-> handles[p], kind |-> "session"]
    <3>1. ClosedIn(handles[p])'
      <4>1. /\ Len(gone) \in 1..Len(gone') - 1
            /\ gone'[Len(gone)] = [server |-> handles[p], kind |-> "session"]
            /\ gone'[Len(gone) + 1] = [server |-> handles[p], kind |-> "transport"]
        BY <1>4, <2>2
      <4>2. ASSUME NEW j \in 1..Len(gone) - 1 PROVE Before(handles'[p], gone'[j].server)
        <5>1. j \in 1..Len(gone) /\ gone'[j] = gone[j] /\ handles' = handles
          BY <1>1, <1>4
        <5>2. Before(handles[p], gone[j].server)
          BY <1>3, <2>2
        <5> QED BY <5>1, <5>2
      <4> QED BY <1>1, <4>1, <4>2 DEF ClosedIn
    <3>2. \A i \in 1..Len(handles) : i > p - 1 => ClosedIn(handles[i])'
      BY <1>3, <1>5, <3>1
    <3>3. closing' = IF p = 1 THEN Mcp!NoCm
                     ELSE [server |-> handles[p - 1], kind |-> "session"]
      <4>1. (CHOOSE k \in 1..Len(handles) : handles[k] = closing.server) = p
        BY <1>1, <1>3, HandlesDiffer
      <4> QED BY <1>1, <2>2, <4>1 DEF Mcp!Following
    <3>4. ASSUME NEW i \in 1..p - 1, NEW j \in 1..Len(gone')
          PROVE  Before(handles'[i], gone'[j].server)
      <4>0. i \in 1..p /\ i \in 1..Len(handles) /\ i < p
        BY <1>3
      <4>1. Before(handles[i], handles[p])
        BY <1>1, <1>3, <4>0 DEF McInv, HandlesInv
      <4>2. CASE j \in 1..Len(gone) - 1
        <5>1. gone'[j] = gone[j] /\ i \in 1..p
          <6>1. j \in 1..Len(gone)
            BY <1>4, <4>2
          <6> QED BY <1>4, <4>0, <6>1
        <5>2. Before(handles[i], gone[j].server)
          BY <2>2, <4>2, <5>1
        <5> QED BY <1>1, <5>1, <5>2
      <4>3. CASE j \in {Len(gone), Len(gone) + 1}
        <5>1. gone'[j].server = handles[p]
          BY <1>4, <2>2, <4>3
        <5> QED BY <1>1, <4>1, <5>1
      <4> QED BY <1>4, <4>2, <4>3
    <3>5. p - 1 \in Nat /\ (p # 1 => p - 1 \in 1..Len(handles))
      BY <1>3
    <3>6. CloseAt(p - 1)'
      BY <1>1, <3>2, <3>3, <3>4, <3>5 DEF CloseAt, Mcp!NoCm
    <3> QED BY <3>5, <3>6
  <2> QED BY <1>1, <1>2, <2>1, <2>2 DEF CloseAt
<1>7. McTypes' /\ HandlesInv'
  BY <1>1, <1>4 DEF McInv, McTypes, HandlesInv, Kept
<1> QED BY <1>1, <1>6, <1>7 DEF McInv, ClosingInv

LEMMA ClosedKeeps ==
    ASSUME McInv, Mcp!Closed
    PROVE  McInv'
<1>1. /\ stage = "closing" /\ closing = Mcp!NoCm /\ stage' = "closed" /\ handles' = << >>
      /\ UNCHANGED <<next, link, closing, gone>>
  BY DEF Mcp!Closed, Mcp!mcClose
<1>2. PICK p \in Nat : CloseAt(p)
  BY <1>1 DEF McInv, ClosingInv
<1>3. p = 0
  <2>1. ASSUME p \in 1..Len(handles) PROVE closing.server # handles[p]
    <3>1. closing.server = Mcp!NoServer
      BY <1>1 DEF Mcp!NoCm
    <3> QED BY <1>1, <2>1, <3>1, HandlesDiffer
  <2> QED BY <1>2, <2>1 DEF CloseAt
<1>4. ASSUME NEW s \in Mcp!McNames, Kept(s) PROVE ClosedIn(s)
  <2>1. PICK i \in 1..Len(handles) : handles[i] = s
    BY <1>1, <1>4 DEF McInv, HandlesInv
  <2> QED BY <1>2, <1>3, <2>1 DEF CloseAt
<1>5. ClosingInv'
  <2>1. \A s : ClosedIn(s)' = ClosedIn(s)
    BY <1>1 DEF ClosedIn
  <2> QED BY <1>1, <1>4, <2>1 DEF ClosingInv, Kept
<1> QED BY <1>1, <1>5 DEF McInv, McTypes, HandlesInv

LEMMA McKeeps == McInv /\ [SvNext]_SvVars => McInv'
<1> SUFFICES ASSUME McInv, [SvNext]_SvVars PROVE McInv'
  OBVIOUS
<1>1. CASE UNCHANGED mcAll
  BY <1>1, BesideKeeps DEF mcAll
<1>2. CASE Mcp!Booted
  BY <1>2, BesideKeeps DEF Mcp!Booted, Mcp!mcConn, Mcp!mcClose
<1>3. ASSUME NEW s \in Mcp!McNames, Mcp!ServerDies(s) PROVE McInv'
  BY <1>3, BesideKeeps DEF Mcp!ServerDies, Mcp!mcConn, Mcp!mcClose
<1>4. ASSUME NEW c \in McCalls,
             \/ Mcp!CallAnswered(c) \/ Mcp!CallTimesOut(c)
             \/ \E s \in Mcp!McNames : Mcp!CallTool(c, s)
      PROVE  McInv'
  BY <1>4, BesideKeeps DEF Mcp!CallAnswered, Mcp!CallTimesOut, Mcp!CallTool, Mcp!mcConn, Mcp!mcClose
<1> QED BY <1>1, <1>2, <1>3, <1>4, BootKeeps, CloseAllKeeps, CloseCmKeeps, ClosedKeeps, McSteps
        DEF Mcp!McNext

\* However many servers refuse, hang or die: at the end of close_all every
\* session that was entered is closed and its transport after it, the last
\* server first.
THEOREM ServersAreClosed == SvSpec => []ServersClosed
<1>1. McInv => ServersClosed
  BY DEF McInv, ClosingInv, ServersClosed, Mcp!EverythingIsClosed, Kept, ClosedIn, Before
<1> QED BY <1>1, McBegins, McKeeps, PTL DEF SvSpec

-----------------------------------------------------------------------------
(* The daemon and its commands *)

LEMMA DmSteps == [SvNext]_SvVars => Process!DmNext \/ UNCHANGED dmAll
BY DEF SvNext, SvVars

DmTypes ==
    /\ pidFile \in DmPids \cup {Process!NoPid}
    /\ proc \in [DmPids -> {"unused", "forked", "boot", "serve", "unwind", "close",
                            "mcp", "exit", "gone"}]
    /\ command \in [DmCommands -> {"new", "fork", "report", "wait", "done"}]
    /\ aim \in [DmCommands -> DmPids \cup {Process!NoPid}]
    /\ \A c \in DmCommands : command[c] = "wait" => aim[c] \in DmPids

Active(c) == command[c] \notin {"new", "done"}

\* Without a race one command works at a time: one that forks finds nobody
\* alive, and one that waits waits for the only daemon there is.  A daemon that
\* has not written its pid is still watched by the command that started it, or
\* by nobody.
TurnsInv ==
    ~raced =>
        /\ \A c, d \in DmCommands : Active(c) /\ Active(d) => c = d
        /\ \A p, q \in DmPids : Process!Alive(p) /\ Process!Alive(q) => p = q
        /\ \A p \in DmPids : Process!Alive(p) /\ proc[p] # "forked" => pidFile = p
        /\ \A c \in DmCommands, p \in DmPids : Process!Alive(p) =>
              /\ command[c] # "fork"
              /\ Active(c) /\ proc[p] = "forked" => command[c] = "report"
              /\ command[c] = "wait" => p = aim[c]

DmInv == DmTypes /\ TurnsInv /\ Process!FlushBeforeHang

LEMMA DmBegins == SvInit => DmInv
BY DEF SvInit, Process!DmInit, DmInv, DmTypes, TurnsInv, Active, Process!Alive,
       Process!FlushBeforeHang

\* A daemon that goes on or ends, whatever the step.
LEMMA DaemonKeeps ==
    ASSUME DmInv, NEW p \in DmPids,
           \/ Process!WritePid(p) \/ Process!Boot(p) \/ Process!Unwound(p) \/ Process!Closed(p)
           \/ Process!DmDone(p) \/ Process!SignalFromOutside(p)
    PROVE  DmInv'
<1>1. UNCHANGED <<command, aim, raced>>
  BY DEF Process!WritePid, Process!Boot, Process!Unwound, Process!Closed, Process!DmDone,
         Process!ForceExit, Process!Exit, Process!SignalFromOutside
<1>2. \/ proc' = proc /\ pidFile' = pidFile
      \/ /\ Process!Alive(p)
         /\ \E to \in {"boot", "serve", "unwind", "close", "mcp", "exit"} :
               proc' = [proc EXCEPT ![p] = to]
         /\ pidFile' = IF proc[p] = "forked" THEN p ELSE pidFile
      \/ /\ Process!Alive(p)
         /\ proc' = [proc EXCEPT ![p] = "gone"] /\ pidFile' \in {pidFile, Process!NoPid}
  BY DEF DmInv, DmTypes, Process!WritePid, Process!Boot, Process!Unwound, Process!Closed,
         Process!DmDone, Process!ForceExit, Process!Exit, Process!SignalFromOutside,
         Process!Terminate, Process!Steps, Process!Alive
<1>3. DmTypes'
  BY <1>1, <1>2 DEF DmInv, DmTypes
<1>4. TurnsInv'
  <2> SUFFICES ASSUME ~raced PROVE TurnsInv'
    BY <1>1 DEF TurnsInv
  <2>1. /\ \A q \in DmPids : Process!Alive(q)' => Process!Alive(q)
        /\ \A q \in DmPids : proc'[q] = "forked" => proc[q] = "forked"
    BY <1>2 DEF DmInv, DmTypes, Process!Alive
  <2>2. ASSUME NEW q \in DmPids, Process!Alive(q)', proc'[q] # "forked" PROVE pidFile' = q
    <3>1. Process!Alive(q)
      BY <2>1, <2>2
    <3>2. CASE proc' = proc /\ pidFile' = pidFile
      BY <2>2, <3>1, <3>2 DEF DmInv, TurnsInv
    <3>3. CASE Process!Alive(p)
      <4>1. p = q
        BY <3>1, <3>3 DEF DmInv, TurnsInv
      <4>2. proc'[p] \notin {"unused", "forked", "gone"}
        BY <2>2, <4>1 DEF Process!Alive
      <4>3. CASE proc[p] = "forked"
        BY <1>2, <4>1, <4>2, <4>3 DEF DmInv, DmTypes
      <4>4. CASE proc[p] # "forked"
        BY <1>2, <3>1, <4>1, <4>2, <4>4 DEF DmInv, DmTypes, TurnsInv
      <4> QED BY <4>3, <4>4
    <3> QED BY <1>2, <3>2, <3>3
  <2>3. ASSUME NEW c \in DmCommands, NEW q \in DmPids, Process!Alive(q)'
        PROVE  /\ command[c] # "fork"
               /\ Active(c) /\ proc'[q] = "forked" => command[c] = "report"
               /\ command[c] = "wait" => q = aim[c]
    BY <2>1, <2>3 DEF DmInv, TurnsInv
  <2> QED BY <1>1, <2>1, <2>2, <2>3 DEF DmInv, TurnsInv, Active
<1>5. Process!FlushBeforeHang'
  BY DEF DmInv, DmTypes, Process!FlushBeforeHang, Process!WritePid, Process!Boot,
         Process!Unwound, Process!Closed, Process!DmDone, Process!ForceExit, Process!Exit,
         Process!SignalFromOutside, Process!Terminate, Process!Steps
<1> QED BY <1>3, <1>4, <1>5 DEF DmInv

\* What a command that is begun finds, unless it races.
LEMMA NobodyElse ==
    ASSUME DmInv, NEW c \in DmCommands, NEW kind, Process!Invoked(c, kind), ~raced'
    PROVE  /\ ~raced
           /\ \A d \in DmCommands : ~Active(d)
           /\ \A p \in DmPids : Process!Alive(p) => pidFile = p
BY DEF DmInv, TurnsInv, Process!Invoked, Active

LEMMA StartDmKeeps ==
    ASSUME DmInv, NEW c \in DmCommands, Process!Start(c)
    PROVE  DmInv'
<1>1. /\ UNCHANGED <<aim, proc, flushed>>
      /\ \/ command' = [command EXCEPT ![c] = "done"] /\ pidFile' = pidFile
         \/ /\ command' = [command EXCEPT ![c] = "fork"] /\ pidFile' = Process!NoPid
            /\ ~(pidFile # Process!NoPid /\ Process!Alive(pidFile))
  BY DEF Process!Start, Process!dmProc, Process!Ends, Process!Goes
<1>2. DmTypes'
  BY <1>1 DEF DmInv, DmTypes
<1>3. TurnsInv'
  <2> SUFFICES ASSUME ~raced' PROVE TurnsInv'
    BY DEF TurnsInv
  <2>1. /\ ~raced /\ \A d \in DmCommands : ~Active(d)
        /\ \A p \in DmPids : Process!Alive(p) => pidFile = p
    BY NobodyElse DEF Process!Start
  <2>2. CASE command' = [command EXCEPT ![c] = "done"] /\ pidFile' = pidFile
    <3>1. \A d \in DmCommands : ~Active(d)'
      BY <2>1, <2>2 DEF DmInv, DmTypes, Active
    <3> QED BY <1>1, <2>1, <2>2, <3>1 DEF DmInv, TurnsInv, Active, Process!Alive
  <2>3. CASE /\ command' = [command EXCEPT ![c] = "fork"]
             /\ ~(pidFile # Process!NoPid /\ Process!Alive(pidFile))
    <3>1. \A p \in DmPids : ~Process!Alive(p)'
      BY <1>1, <2>1, <2>3, DaemonAssumption DEF Process!Alive
    <3>2. \A d \in DmCommands : Active(d)' => d = c
      BY <2>1, <2>3 DEF DmInv, DmTypes, Active
    <3> QED BY <3>1, <3>2 DEF TurnsInv
  <2> QED BY <1>1, <2>2, <2>3
<1>4. Process!FlushBeforeHang'
  BY <1>1 DEF DmInv, Process!FlushBeforeHang
<1> QED BY <1>2, <1>3, <1>4 DEF DmInv

LEMMA ForkKeeps ==
    ASSUME DmInv, NEW c \in DmCommands, Process!Fork(c)
    PROVE  DmInv'
<1>1. PICK p \in DmPids : Process!Steps(p, "unused", "forked") /\ aim' = [aim EXCEPT ![c] = p]
  BY DEF Process!Fork
<1>2. /\ UNCHANGED <<pidFile, flushed, raced>> /\ command[c] = "fork"
      /\ proc' = [proc EXCEPT ![p] = "forked"]
      /\ command' = [command EXCEPT ![c] = "report"]
  BY <1>1 DEF Process!Fork, Process!Steps, Process!Goes
<1>3. DmTypes'
  BY <1>1, <1>2 DEF DmInv, DmTypes
<1>4. TurnsInv'
  <2> SUFFICES ASSUME ~raced PROVE TurnsInv'
    BY <1>2 DEF TurnsInv
  <2>1. \A q \in DmPids : Process!Alive(q)' => q = p
    BY <1>2 DEF DmInv, DmTypes, TurnsInv, Process!Alive
  <2>2. \A d \in DmCommands : Active(d)' => d = c /\ command'[d] = "report"
    BY <1>2 DEF DmInv, DmTypes, TurnsInv, Active
  <2>3. proc'[p] = "forked"
    BY <1>2 DEF DmInv, DmTypes
  <2>4. \A d \in DmCommands : command'[d] \notin {"fork", "wait"}
    BY <2>2 DEF Active
  <2> QED BY <2>1, <2>2, <2>3, <2>4 DEF TurnsInv
<1>5. Process!FlushBeforeHang'
  BY <1>2 DEF DmInv, DmTypes, Process!FlushBeforeHang
<1> QED BY <1>3, <1>4, <1>5 DEF DmInv

LEMMA StopKeeps ==
    ASSUME DmInv, NEW c \in DmCommands, Process!Stop(c)
    PROVE  DmInv'
<1>1. CASE pidFile # Process!NoPid /\ Process!Alive(pidFile)
  <2>1. /\ pidFile \in DmPids /\ UNCHANGED <<pidFile, flushed>>
        /\ \/ proc' = [proc EXCEPT ![pidFile] = "unwind"]
           \/ proc' = [proc EXCEPT ![pidFile] = "gone"]
        /\ command' = [command EXCEPT ![c] = "wait"] /\ aim' = [aim EXCEPT ![c] = pidFile]
    BY <1>1 DEF DmInv, DmTypes, Process!Stop, Process!Terminate, Process!Goes
  <2>2. DmTypes'
    BY <2>1 DEF DmInv, DmTypes
  <2>3. TurnsInv'
    <3> SUFFICES ASSUME ~raced' PROVE TurnsInv'
      BY DEF TurnsInv
    <3>1. /\ ~raced /\ \A d \in DmCommands : ~Active(d)
          /\ \A p \in DmPids : Process!Alive(p) => pidFile = p
      BY NobodyElse DEF Process!Stop
    <3>2. \A p \in DmPids : Process!Alive(p)' => p = pidFile /\ proc'[p] # "forked"
      BY <2>1, <3>1 DEF DmInv, DmTypes, Process!Alive
    <3>3. \A d \in DmCommands : Active(d)' => d = c /\ command'[d] = "wait" /\ aim'[d] = pidFile
      BY <2>1, <3>1 DEF DmInv, DmTypes, Active
    <3>4. \A d \in DmCommands : command'[d] # "fork" /\ (command'[d] = "wait" => aim'[d] = pidFile)
      BY <3>3 DEF Active
    <3> QED BY <2>1, <3>2, <3>3, <3>4 DEF TurnsInv
  <2>4. Process!FlushBeforeHang'
    BY <2>1 DEF DmInv, DmTypes, Process!FlushBeforeHang
  <2> QED BY <2>2, <2>3, <2>4 DEF DmInv
<1>2. CASE ~(pidFile # Process!NoPid /\ Process!Alive(pidFile))
  <2>1. /\ UNCHANGED <<aim, proc, flushed>>
        /\ command' = [command EXCEPT ![c] = "done"] /\ pidFile' = Process!NoPid
    BY <1>2 DEF Process!Stop, Process!Ends
  <2>2. DmTypes'
    BY <2>1 DEF DmInv, DmTypes
  <2>3. TurnsInv'
    <3> SUFFICES ASSUME ~raced' PROVE TurnsInv'
      BY DEF TurnsInv
    <3>1. /\ ~raced /\ \A d \in DmCommands : ~Active(d)
          /\ \A p \in DmPids : Process!Alive(p) => pidFile = p
      BY NobodyElse DEF Process!Stop
    <3>2. \A p \in DmPids : ~Process!Alive(p)'
      BY <1>2, <2>1, <3>1, DaemonAssumption DEF Process!Alive
    <3>3. \A d \in DmCommands : ~Active(d)'
      BY <2>1, <3>1 DEF DmInv, DmTypes, Active
    <3> QED BY <3>2, <3>3 DEF TurnsInv
  <2>4. Process!FlushBeforeHang'
    BY <2>1 DEF DmInv, Process!FlushBeforeHang
  <2> QED BY <2>2, <2>3, <2>4 DEF DmInv
<1> QED BY <1>1, <1>2

LEMMA ReloadDmKeeps ==
    ASSUME DmInv, NEW c \in DmCommands, Process!ReloadCommand(c)
    PROVE  DmInv'
<1>1. /\ UNCHANGED <<aim, flushed>> /\ command' = [command EXCEPT ![c] = "done"]
      /\ \/ proc' = proc /\ pidFile' = pidFile
         \/ /\ proc' = proc /\ pidFile' = Process!NoPid
            /\ ~Process!Alive(pidFile)
         \/ /\ pidFile \in DmPids /\ proc' = [proc EXCEPT ![pidFile] = "gone"]
            /\ pidFile' = pidFile
  BY DEF DmInv, DmTypes, Process!ReloadCommand, Process!Ends
<1>2. DmTypes'
  BY <1>1 DEF DmInv, DmTypes
<1>3. TurnsInv'
  <2> SUFFICES ASSUME ~raced' PROVE TurnsInv'
    BY DEF TurnsInv
  <2>1. /\ ~raced /\ \A d \in DmCommands : ~Active(d)
        /\ \A p \in DmPids : Process!Alive(p) => pidFile = p
    BY NobodyElse DEF Process!ReloadCommand
  <2>2. \A d \in DmCommands : ~Active(d)'
    BY <1>1, <2>1 DEF DmInv, DmTypes, Active
  <2>3. \A p \in DmPids : Process!Alive(p)' => pidFile' = p
    BY <1>1, <2>1 DEF DmInv, DmTypes, Process!Alive
  <2>4. \A d \in DmCommands : command'[d] \notin {"fork", "wait"}
    BY <2>2 DEF Active
  <2> QED BY <2>2, <2>3, <2>4 DEF TurnsInv
<1>4. Process!FlushBeforeHang'
  BY <1>1 DEF DmInv, DmTypes, Process!FlushBeforeHang
<1> QED BY <1>2, <1>3, <1>4 DEF DmInv

\* The command is through, with nobody alive that it waited for.
LEMMA ThroughKeeps ==
    ASSUME DmInv, NEW c \in DmCommands,
           Process!Report(c) \/ Process!StopSeesEnd(c) \/ Process!StopKills(c)
    PROVE  DmInv'
<1>1. /\ UNCHANGED <<aim, flushed, raced>> /\ command' = [command EXCEPT ![c] = "done"]
      /\ \/ command[c] = "report" /\ proc' = proc /\ pidFile' = pidFile
         \/ /\ command[c] = "wait" /\ pidFile' = Process!NoPid /\ aim[c] \in DmPids
            /\ proc' = proc /\ ~Process!Alive(aim[c])
         \/ /\ command[c] = "wait" /\ pidFile' = Process!NoPid /\ aim[c] \in DmPids
            /\ proc' = [proc EXCEPT ![aim[c]] = "gone"]
  BY DEF DmInv, DmTypes, Process!Report, Process!StopSeesEnd, Process!StopKills, Process!Ends,
         Process!dmProc
<1>2. DmTypes'
  BY <1>1 DEF DmInv, DmTypes
<1>3. TurnsInv'
  <2> SUFFICES ASSUME ~raced PROVE TurnsInv'
    BY <1>1 DEF TurnsInv
  <2>1. \A d \in DmCommands : ~Active(d)'
    BY <1>1 DEF DmInv, DmTypes, TurnsInv, Active
  <2>2. \A d \in DmCommands : command'[d] \notin {"fork", "wait"}
    BY <2>1 DEF Active
  <2>3. /\ \A p \in DmPids : Process!Alive(p)' => Process!Alive(p) /\ proc'[p] = proc[p]
        /\ command[c] = "wait" => \A p \in DmPids : ~Process!Alive(p)'
    BY <1>1 DEF DmInv, DmTypes, TurnsInv, Process!Alive
  <2> QED BY <1>1, <2>1, <2>2, <2>3 DEF DmInv, TurnsInv
<1>4. Process!FlushBeforeHang'
  BY <1>1 DEF DmInv, DmTypes, Process!FlushBeforeHang
<1> QED BY <1>2, <1>3, <1>4 DEF DmInv

LEMMA DmKeeps == DmInv /\ [SvNext]_SvVars => DmInv'
<1> SUFFICES ASSUME DmInv, [SvNext]_SvVars PROVE DmInv'
  OBVIOUS
<1>1. CASE UNCHANGED dmAll
  BY <1>1 DEF dmAll, DmInv, DmTypes, TurnsInv, Active, Process!Alive, Process!FlushBeforeHang
<1> QED BY <1>1, DmSteps, DaemonKeeps, StartDmKeeps, ForkKeeps, StopKeeps, ReloadDmKeeps,
           ThroughKeeps DEF Process!DmNext, Process!CommandStep

\* At most one has a cardinality of at most 1.
LEMMA OnlyOne ==
    ASSUME NEW S, \A p, q \in S : p = q
    PROVE  Process!Cardinality(S) <= 1
<1>1. Process!Cardinality(S) = Cardinality(S)
  BY DEF Process!Cardinality, Cardinality
<1>2. CASE S = {}
  BY <1>1, <1>2, FS_EmptySet
<1>3. CASE S # {}
  <2>1. PICK p \in S : S = {p}
    BY <1>3
  <2>2. Cardinality({p}) = 1
    BY FS_Singleton
  <2> QED BY <1>1, <2>1, <2>2
<1> QED BY <1>2, <1>3

\* However often the daemon is started, stopped, reloaded and killed: without a
\* race of commands there is one, and its pid file finds it; and what may hang
\* comes after the flush.
THEOREM DaemonStaysSound == SvSpec => []DaemonSound
<1>1. DmInv => DaemonSound
  <2> SUFFICES ASSUME DmInv, ~raced PROVE Process!OneDaemon
    BY DEF DmInv, DaemonSound, Process!OneDaemon
  <2>1. \A p, q \in {r \in DmPids : Process!Alive(r)} : p = q
    BY DEF DmInv, TurnsInv
  <2>2. Process!Cardinality({r \in DmPids : Process!Alive(r)}) <= 1
    BY <2>1, OnlyOne
  <2> QED BY <2>2 DEF DmInv, TurnsInv, Process!OneDaemon
<1> QED BY <1>1, DmBegins, DmKeeps, PTL DEF SvSpec
=============================================================================
