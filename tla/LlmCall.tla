------------------------------ MODULE LlmCall -------------------------------
(***************************************************************************)
(* A call of the LLM: OpenAIChatCompletionProvider.complete (llm/          *)
(* openai_provider.py), which tries the API key that SessionKeyRouter      *)
(* (llm/key_rotation.py) has bound to the (session, role) pair and, when it*)
(* fails, all other keys.                                                  *)
(*                                                                         *)
(* Several calls are under way at once, also for one pair: the images of a *)
(* message are described by concurrent calls.  In the middle of a call the *)
(* pair may go idle (a call may outlast idle_reset_seconds), a reload may  *)
(* change max_retries, and /stop may cancel it.  Time is abstracted: a pair*)
(* that has a binding may go idle at any moment.                           *)
(***************************************************************************)
EXTENDS Integers, FiniteSets

CONSTANTS Callers,    \* tasks that call complete()
          Pairs,      \* (session_id, role_name)
          NKeys,      \* number of API keys
          Rotating,   \* key_rotation_enabled
          Retries,    \* values of max_retries that reloads may set
          None

ASSUME CallAssumption == /\ NKeys \in Nat \ {0}
                         /\ Rotating \in BOOLEAN
                         /\ Retries \subseteq Nat \ {0} /\ Retries # {}
                         /\ None \notin 0..(NKeys - 1)

Keys == 0..(NKeys - 1)

VARIABLES
    \* SessionKeyRouter: the pointer, the bindings, the pairs that are idle
    rr, bind, stale,
    maxRetries,
    \* complete(): where each call is, the key it began with, the index in
    \* key_order, the attempt on that key, and the range it counts in
    pc, bound, pos, attempt, limit,
    \* ghosts: attempts of the call on each key, keys that refused it for
    \* good, the least max_retries since it began
    tried, refused, least,
    \* ghost: some binding has gone idle and was replaced
    rebound

routerVars == <<rr, bind, stale, rebound>>
callVars == <<pc, bound, pos, attempt, limit, tried, refused, least>>
vars == <<routerVars, maxRetries, callVars>>

TypeOK ==
    /\ rr \in Keys
    /\ bind \in [Pairs -> Keys \cup {None}]
    /\ stale \subseteq Pairs
    /\ maxRetries \in Retries
    /\ pc \in [Callers -> {"idle", "calling", "backoff", "raised"}]
    /\ bound \in [Callers -> Keys]
    /\ pos \in [Callers -> Keys]
    /\ attempt \in [Callers -> Nat]
    /\ limit \in [Callers -> Retries \cup {0}]
    /\ tried \in [Callers -> [Keys -> Nat]]
    /\ refused \in [Callers -> SUBSET Keys]
    /\ least \in [Callers -> Retries \cup {0}]
    /\ rebound \in BOOLEAN

Untried == [k \in Keys |-> 0]

Init ==
    /\ rr = 0
    /\ bind = [p \in Pairs |-> None] /\ stale = {} /\ rebound = FALSE
    /\ maxRetries \in Retries
    /\ pc = [c \in Callers |-> "idle"]
    /\ bound = [c \in Callers |-> 0] /\ pos = [c \in Callers |-> 0]
    /\ attempt = [c \in Callers |-> 0]
    /\ limit = [c \in Callers |-> 0]
    /\ tried = [c \in Callers |-> Untried] /\ refused = [c \in Callers |-> {}]
    /\ least = [c \in Callers |-> 0]

-----------------------------------------------------------------------------
(* SessionKeyRouter.select *)

NextIndex == (rr + 1) % NKeys

Reusable(p) == bind[p] # None /\ p \notin stale

\* Mutant: the pointer moves with every request.
SelectMoves(c, p) ==
    /\ rr' = NextIndex
    /\ IF Reusable(p)
       THEN bound' = [bound EXCEPT ![c] = bind[p]] /\ UNCHANGED <<bind, rebound>>
       ELSE /\ bind' = [bind EXCEPT ![p] = NextIndex]
            /\ bound' = [bound EXCEPT ![c] = NextIndex]
            /\ rebound' = (rebound \/ bind[p] # None)

\* Mutant: a binding is used for one request.
SelectAnew(c, p) ==
    /\ rr' = NextIndex
    /\ bind' = [bind EXCEPT ![p] = NextIndex]
    /\ bound' = [bound EXCEPT ![c] = NextIndex]
    /\ rebound' = (rebound \/ bind[p] # None)

\* A binding that is not idle is used again; otherwise the pointer advances
\* and the pair is bound to the key it reaches.
Select(c, p) ==
    IF Reusable(p)
    THEN /\ bound' = [bound EXCEPT ![c] = bind[p]]
         /\ UNCHANGED <<rr, bind, rebound>>
    ELSE /\ rr' = NextIndex
         /\ bind' = [bind EXCEPT ![p] = NextIndex]
         /\ bound' = [bound EXCEPT ![c] = NextIndex]
         /\ rebound' = (rebound \/ bind[p] # None)

\* idle_reset_seconds have gone by since the last request of the pair.
GoesIdle(p) ==
    /\ bind[p] # None
    /\ stale' = stale \cup {p}
    /\ UNCHANGED <<rr, bind, rebound, maxRetries, callVars>>

-----------------------------------------------------------------------------
(* OpenAIChatCompletionProvider.complete *)

\* key_order
KeyNo(c, i) == (bound[c] + i) % NKeys

KeyAt(c) == KeyNo(c, pos[c])

\* The request is on its way with key k.
Attempts(c, k) == tried' = [tried EXCEPT ![c][k] = @ + 1]

Begin(c, p) ==
    /\ pc[c] = "idle"
    /\ IF Rotating
       THEN Select(c, p) /\ stale' = stale \ {p}
       ELSE bound' = [bound EXCEPT ![c] = 0] /\ UNCHANGED routerVars
    /\ pc' = [pc EXCEPT ![c] = "calling"]
    /\ pos' = [pos EXCEPT ![c] = 0]
    /\ attempt' = [attempt EXCEPT ![c] = 0]
    /\ limit' = [limit EXCEPT ![c] = maxRetries]
    /\ tried' = [tried EXCEPT ![c] = [Untried EXCEPT ![bound'[c]] = 1]]
    /\ refused' = [refused EXCEPT ![c] = {}]
    /\ least' = [least EXCEPT ![c] = maxRetries]
    /\ UNCHANGED maxRetries

\* The call is over: it has an answer, or was cancelled.
Leave(c) ==
    /\ pc' = [pc EXCEPT ![c] = "idle"]
    /\ bound' = [bound EXCEPT ![c] = 0]
    /\ pos' = [pos EXCEPT ![c] = 0]
    /\ attempt' = [attempt EXCEPT ![c] = 0]
    /\ limit' = [limit EXCEPT ![c] = 0]
    /\ tried' = [tried EXCEPT ![c] = Untried]
    /\ refused' = [refused EXCEPT ![c] = {}]
    /\ least' = [least EXCEPT ![c] = 0]
    /\ UNCHANGED <<routerVars, maxRetries>>

\* Mutant: the other keys are taken in order of their index, without wrapping.
GiveUpKeyUnwrapped(c) ==
    IF bound[c] + pos[c] + 1 < NKeys
    THEN /\ pos' = [pos EXCEPT ![c] = @ + 1]
         /\ attempt' = [attempt EXCEPT ![c] = 0]
         /\ limit' = [limit EXCEPT ![c] = maxRetries]
         /\ Attempts(c, bound[c] + pos[c] + 1)
         /\ pc' = [pc EXCEPT ![c] = "calling"]
    ELSE /\ pc' = [pc EXCEPT ![c] = "raised"]
         /\ UNCHANGED <<pos, attempt, limit, tried>>

\* On to the next key of key_order, or, after the last, to "raise last_exc".
GiveUpKey(c) ==
    IF pos[c] + 1 < NKeys
    THEN /\ pos' = [pos EXCEPT ![c] = @ + 1]
         /\ attempt' = [attempt EXCEPT ![c] = 0]
         /\ limit' = [limit EXCEPT ![c] = maxRetries]
         /\ Attempts(c, KeyNo(c, pos[c] + 1))
         /\ pc' = [pc EXCEPT ![c] = "calling"]
    ELSE /\ pc' = [pc EXCEPT ![c] = "raised"]
         /\ UNCHANGED <<pos, attempt, limit, tried>>

Succeeds(c) == pc[c] = "calling" /\ Leave(c)

\* Timeout, rate limit, 5xx, an empty or degenerate answer.  max_retries is
\* read again here, while the range of attempts was fixed with the key.
RetryableError(c) ==
    /\ pc[c] = "calling"
    /\ IF attempt[c] >= maxRetries - 1
       THEN GiveUpKey(c)
       ELSE /\ pc' = [pc EXCEPT ![c] = "backoff"]
            /\ UNCHANGED <<pos, attempt, limit, tried>>
    /\ UNCHANGED <<routerVars, maxRetries, bound, refused, least>>

\* Mutant: the attempts on a key have no end.
BackoffEndless(c) ==
    /\ pc[c] = "backoff"
    /\ pc' = [pc EXCEPT ![c] = "calling"]
    /\ UNCHANGED <<routerVars, maxRetries, bound, pos, attempt, limit,
                   tried, refused, least>>

\* The next attempt on the same key, if the range has one.
BackoffEnds(c) ==
    /\ pc[c] = "backoff"
    /\ IF attempt[c] + 1 < limit[c]
       THEN /\ pc' = [pc EXCEPT ![c] = "calling"]
            /\ attempt' = [attempt EXCEPT ![c] = @ + 1]
            /\ Attempts(c, KeyAt(c))
            /\ UNCHANGED <<pos, limit>>
       ELSE GiveUpKey(c)
    /\ UNCHANGED <<routerVars, maxRetries, bound, refused, least>>

\* Mutant: a key that refused is tried again like one that was slow.
FatalErrorRetried(c) ==
    /\ pc[c] = "calling"
    /\ refused' = [refused EXCEPT ![c] = @ \cup {KeyAt(c)}]
    /\ pc' = [pc EXCEPT ![c] = "backoff"]
    /\ UNCHANGED <<routerVars, maxRetries, bound, pos, attempt, limit, tried, least>>

\* 401, 403 and any other exception: no more attempts with this key.
FatalError(c) ==
    /\ pc[c] = "calling"
    /\ refused' = [refused EXCEPT ![c] = @ \cup {KeyAt(c)}]
    /\ GiveUpKey(c)
    /\ UNCHANGED <<routerVars, maxRetries, bound, least>>

\* The caller has got the exception.
Raises(c) == pc[c] = "raised" /\ Leave(c)

\* /stop: a CancelledError passes both except clauses.
Cancelled(c) == pc[c] \in {"calling", "backoff"} /\ Leave(c)

\* apply_runtime_overrides.
Reload(n) ==
    /\ n # maxRetries
    /\ maxRetries' = n
    /\ least' = [c \in Callers |-> IF n < least[c] THEN n ELSE least[c]]
    /\ UNCHANGED <<routerVars, pc, bound, pos, attempt, limit, tried, refused>>

Ends(c) == \/ Succeeds(c) \/ RetryableError(c) \/ FatalError(c)
           \/ BackoffEnds(c) \/ Raises(c)

Next == \/ \E c \in Callers : Ends(c) \/ Cancelled(c)
        \/ \E c \in Callers, p \in Pairs : Begin(c, p)
        \/ \E p \in Pairs : GoesIdle(p)
        \/ \E n \in Retries : Reload(n)

Spec == Init /\ [][Next]_vars

\* Requests and backoffs end: each has a timeout.  Nothing is assumed of what
\* they end with.
FairSpec == Spec /\ \A c \in Callers : WF_vars(Ends(c))

-----------------------------------------------------------------------------
(* Properties *)

\* A call fails only when every key has had its chance: it was refused for
\* good, or tried as often as max_retries ever asked for during the call -
\* wherever in the circle the call began, and although max_retries is read at
\* two places between which a reload may change it.
RaisedAfterAllKeys ==
    \A c \in Callers : pc[c] = "raised" =>
        \A k \in Keys : k \in refused[c] \/ tried[c][k] >= least[c]

\* A key that has refused a call is not tried again by that call ("don't keep
\* hammering this key").
NoHammering ==
    [][\A c \in Callers, k \in Keys :
          k \in refused[c] /\ tried'[c][k] > tried[c][k] => tried[c] = Untried]_vars

\* "Once bound, always this key; only idle reset advances it": whatever fails
\* or is reloaded, and however many calls share the pair.
BindingSticks ==
    [][\A p \in Pairs : Reusable(p) => bind'[p] = bind[p]]_vars

Load(k) == Cardinality({p \in Pairs : bind[p] = k})

\* Until the first binding goes idle the pairs are spread evenly on the keys,
\* whatever calls come in between.
EvenSpread == ~rebound => \A j, k \in Keys : Load(j) <= Load(k) + 1

\* Every call ends, with an answer or with an exception, whatever the server
\* answers and however often max_retries is reloaded.
CallEnds == \A c \in Callers : pc[c] # "idle" ~> pc[c] = "idle"

\* No failure of a call comes early: every key was refused or used up.
CallSound == TypeOK /\ RaisedAfterAllKeys

\* What binds a pair to a key and a call to the others, whatever calls overlap.
KeysRespected == BindingSticks /\ NoHammering

-----------------------------------------------------------------------------
(* The inductive invariant of the proofs in ServicesProofs. *)

Served(c, k) == k \in refused[c] \/ tried[c][k] >= least[c]

\* The keys before the current one have had their chance; the current one has
\* been tried once per attempt; both reads of max_retries are at least as
\* large as the least value it had during the call.
CallInv(c) ==
    pc[c] # "idle" =>
        /\ least[c] \in Retries /\ least[c] <= maxRetries /\ least[c] <= limit[c]
        /\ \A i \in 0..(pos[c] - 1) : Served(c, KeyNo(c, i))
        /\ pc[c] = "raised" => pos[c] = NKeys - 1 /\ Served(c, KeyAt(c))
        /\ pc[c] # "raised" => tried[c][KeyAt(c)] >= attempt[c] + 1

\* Every call that is under way satisfies CallInv.
IInv == TypeOK /\ \A c \in Callers : CallInv(c)

\* Until a binding goes idle, key after key gets one more pair: those that the
\* pointer has reached in this round, which ends at key 0, are one ahead of it.
PairsOf(k) == {p \in Pairs : bind[p] = k}

SpreadInv ==
    ~rebound => \A k \in Keys :
        /\ IsFiniteSet(PairsOf(k))
        /\ Load(k) = IF k \in 1..rr THEN Load(0) + 1 ELSE Load(0)
=============================================================================
