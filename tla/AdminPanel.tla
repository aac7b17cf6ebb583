----------------------------- MODULE AdminPanel -----------------------------
(***************************************************************************)
(* The admin process while it serves: login sessions with a sliding idle   *)
(* expiry, the failed-login window of an address (admin/auth.py), the      *)
(* routes (admin/server.py), the service commands and the cached disk scan *)
(* (admin/inspect.py).  time.time() is a clock that ticks between steps.   *)
(***************************************************************************)
EXTENDS Integers, Sequences, SequencesExt, FiniteSets

CONSTANTS ApSids,          \* session ids; secrets.token_urlsafe never repeats one
          ApIps,           \* addresses _client_ip tells apart
          ApRequests,      \* requests that may be in flight behind an await
          ApIdle,          \* admin.session_idle_seconds
          ApWindow,        \* the limiter's window_seconds
          ApMaxFailures,   \* admin.login_rate_limit_per_5min
          ApTtl,           \* cache_ttl of the disk inspector
          ApWait,          \* wait_seconds of restart_service
          ApMaxTime        \* bound on the clock

ASSUME ApAssumption ==
    /\ ApIdle \in Nat \ {0} /\ ApWindow \in Nat \ {0} /\ ApTtl \in Nat \ {0}
    /\ ApMaxFailures \in Nat \ {0} /\ ApMaxTime \in Nat /\ ApWait \in Nat

VARIABLES
    clock,
    expires,    \* _sessions: by sid, expires_at; Never when it has no entry
    fresh,      \* session ids not handed out yet
    failures,   \* by address: _Window.failures
    lockQueue,  \* requests at the inspector's asyncio.Lock; the first holds it
    cached,     \* _cached and _cached_at: when measured, when stored
    doing,      \* by request: what it awaits
    service,    \* chat-team.service is active
    lastUse,    \* ghost, by sid: its last hit; Never once logged out
    misserved,  \* ghost: a request was granted to a session that had ended
    wrong,      \* ghost, by address: recent times of wrong passwords checked
    outdated    \* ghost: a disk usage was shown past its time

Never == -1
NoCookie == "none"
Idle == [do |-> "", since |-> 0]
AnyCookie == ApSids \cup {NoCookie}

ASSUME CookieAssumption == NoCookie \notin ApSids

apLogin == <<failures, wrong>>
apDisk == <<lockQueue, cached, outdated>>
apVars == <<clock, expires, fresh, apLogin, apDisk, doing, service, lastUse, misserved>>

ApInit ==
    /\ clock = 0 /\ expires = [s \in ApSids |-> Never] /\ fresh = ApSids
    /\ failures = [i \in ApIps |-> << >>]
    /\ lockQueue = << >> /\ cached = [measured |-> Never, at |-> Never]
    /\ doing = [r \in ApRequests |-> Idle] /\ service = TRUE
    /\ lastUse = [s \in ApSids |-> Never] /\ wrong = [i \in ApIps |-> << >>]
    /\ misserved = FALSE /\ outdated = FALSE

Tick ==
    /\ clock < ApMaxTime /\ clock' = clock + 1
    /\ UNCHANGED <<expires, fresh, apLogin, apDisk, doing, service, lastUse, misserved>>

-----------------------------------------------------------------------------
(* SessionStore *)

\* Mutant: expiry is left to the sweeper.
HoldsUntilSwept(sid) == sid \in ApSids /\ expires[sid] # Never

Holds(sid) == sid \in ApSids /\ expires[sid] > clock

\* validate, run by require_auth on every route, the public ones too: a hit
\* re-arms the expiry, an expired entry goes.
Hit(sid) ==
    IF sid = NoCookie THEN expires
    ELSE [expires EXCEPT ![sid] = IF Holds(sid) THEN clock + ApIdle ELSE Never]

Noted(sid) ==
    misserved' = (misserved \/ lastUse[sid] = Never \/ clock - lastUse[sid] >= ApIdle)

Served(sid) ==
    /\ Noted(sid)
    /\ lastUse' = [lastUse EXCEPT ![sid] = clock]

\* _sweeper.
PurgeExpired ==
    /\ expires' = [s \in ApSids |-> IF Holds(s) THEN expires[s] ELSE Never]
    /\ UNCHANGED <<clock, fresh, apLogin, apDisk, doing, service, lastUse, misserved>>

-----------------------------------------------------------------------------
(* LoginRateLimiter *)

\* [t for t in w.failures if t > cutoff]
After(times, cutoff) ==
    FoldLeft(LAMBDA kept, t : IF t > cutoff THEN Append(kept, t) ELSE kept, << >>, times)

Pruned(ip) == After(failures[ip], clock - ApWindow)

IsRateLimited(ip) == Len(Pruned(ip)) >= ApMaxFailures

RecordFailure(ip) == failures' = [failures EXCEPT ![ip] = Append(Pruned(ip), clock)]

-----------------------------------------------------------------------------
(* The routes.  From the form's parsing to the response handle_login_submit *)
(* awaits nothing.                                                          *)

\* No cookie, no session: 302 or 401.  A public route re-arms as well.
PassMiddleware(sid) ==
    /\ sid # NoCookie /\ expires' = Hit(sid)
    /\ IF Holds(sid) THEN Served(sid) ELSE UNCHANGED <<misserved, lastUse>>
    /\ UNCHANGED <<clock, fresh, apLogin, apDisk, doing, service>>

\* The window is pruned by the question alone.
LoginBlocked(ip) ==
    /\ IsRateLimited(ip) /\ failures' = [failures EXCEPT ![ip] = Pruned(ip)]
    /\ UNCHANGED <<clock, expires, fresh, wrong, apDisk, doing, service, lastUse, misserved>>

Recent(ip) == After(wrong[ip], clock - ApWindow)

LoginFailed(ip) ==
    /\ ~IsRateLimited(ip) /\ RecordFailure(ip)
    /\ wrong' = [wrong EXCEPT ![ip] = Append(Recent(ip), clock)]
    /\ UNCHANGED <<clock, expires, fresh, apDisk, doing, service, lastUse, misserved>>

\* Another session of the same browser stays valid.
LoginSuccess(ip, sid) ==
    /\ ~IsRateLimited(ip) /\ failures' = [failures EXCEPT ![ip] = Pruned(ip)]
    /\ sid \in fresh /\ fresh' = fresh \ {sid}
    /\ expires' = [expires EXCEPT ![sid] = clock + ApIdle]
    /\ lastUse' = [lastUse EXCEPT ![sid] = clock]
    /\ UNCHANGED <<clock, wrong, apDisk, doing, service, misserved>>

\* destroy; without a session only the cookies go.
Logout(sid) ==
    /\ Holds(sid) /\ Noted(sid)
    /\ expires' = [expires EXCEPT ![sid] = Never]
    /\ lastUse' = [lastUse EXCEPT ![sid] = Never]
    /\ UNCHANGED <<clock, fresh, apLogin, apDisk, doing, service>>

\* A granted request that awaits a worker thread.
Begin(r, sid, what) ==
    /\ doing[r] = Idle /\ Holds(sid) /\ expires' = Hit(sid) /\ Served(sid)
    /\ doing' = [doing EXCEPT ![r] = [do |-> what, since |-> clock]]

-----------------------------------------------------------------------------
(* /api/restart and /api/reload: _check_csrf wants the header, the cookie  *)
(* and the session's own token to be one; a token is named by its session. *)

CheckCsrf(sid, cookie, header) ==
    cookie # NoCookie /\ header # NoCookie /\ cookie = header /\ cookie = sid

CsrfRefused(sid, cookie, header) ==
    ~CheckCsrf(sid, cookie, header) /\ Holds(sid) /\ PassMiddleware(sid)

ApiRestart(r, sid, cookie, header) ==
    /\ CheckCsrf(sid, cookie, header) /\ Begin(r, sid, "restart")
    /\ UNCHANGED <<clock, fresh, apLogin, apDisk, service>>

ApiReload(r, sid, cookie, header) ==
    /\ CheckCsrf(sid, cookie, header) /\ Begin(r, sid, "reload")
    /\ UNCHANGED <<clock, fresh, apLogin, apDisk, service>>

Answer(r) == doing' = [doing EXCEPT ![r] = Idle]

\* systemctl restart came back: rc 0 starts the polling, else 503.
RestartReturned(r, rc) ==
    /\ doing[r].do = "restart"
    /\ \/ rc = 0 /\ doing' = [doing EXCEPT ![r] = [do |-> "poll", since |-> clock]]
       \/ rc # 0 /\ Answer(r)
    /\ service' \in BOOLEAN
    /\ UNCHANGED <<clock, expires, fresh, apLogin, apDisk, lastUse, misserved>>

\* get_service_status: active by what systemctl says; where that fails, if ps
\* shows the process; and never where that fails too.
Reported(source) == source # "unknown" /\ service

\* One round of restart_service_sync: active, or the deadline has come.
RestartPolled(r) ==
    /\ doing[r].do = "poll" /\ Answer(r)
    /\ \/ \E source \in {"systemctl", "ps-fallback", "unknown"} : Reported(source)
       \/ clock >= doing[r].since + ApWait
    /\ UNCHANGED <<clock, expires, fresh, apLogin, apDisk, service, lastUse, misserved>>

ReloadReturned(r) ==
    /\ doing[r].do = "reload" /\ Answer(r)
    /\ UNCHANGED <<clock, expires, fresh, apLogin, apDisk, service, lastUse, misserved>>

\* /api/status and /api/logs/tail read in a worker thread, too.
ApiRead(r, sid) ==
    /\ Begin(r, sid, "read")
    /\ UNCHANGED <<clock, fresh, apLogin, apDisk, service>>

ReadReturned(r) ==
    /\ doing[r].do = "read" /\ Answer(r)
    /\ UNCHANGED <<clock, expires, fresh, apLogin, apDisk, service, lastUse, misserved>>

ServiceFlips ==
    /\ service' = ~service
    /\ UNCHANGED <<clock, expires, fresh, apLogin, apDisk, doing, lastUse, misserved>>

-----------------------------------------------------------------------------
(* CachedDiskInspector.inspect, for /api/disk and /api/sessions *)

ApiDisk(r, sid) ==
    /\ Begin(r, sid, "lock") /\ lockQueue' = Append(lockQueue, r)
    /\ UNCHANGED <<clock, fresh, apLogin, cached, outdated, service>>

CacheHolds == cached.measured # Never /\ clock - cached.at < ApTtl

Shows(r, measured) ==
    outdated' = (outdated \/ (measured < doing[r].since /\ clock - measured >= ApTtl))

AnswerCached(r) ==
    /\ doing[r].do = "lock" /\ Head(lockQueue) = r /\ CacheHolds
    /\ Shows(r, cached.measured) /\ lockQueue' = Tail(lockQueue) /\ Answer(r)
    /\ UNCHANGED <<clock, expires, fresh, apLogin, cached, service, lastUse, misserved>>

\* The worker thread measures at some point of the scan, its start at the earliest.
StartScan(r) ==
    /\ doing[r].do = "lock" /\ Head(lockQueue) = r /\ ~CacheHolds
    /\ doing' = [doing EXCEPT ![r] = [do |-> "scan", since |-> clock]]
    /\ UNCHANGED <<clock, expires, fresh, apLogin, apDisk, service, lastUse, misserved>>

\* now was taken before the scan.
Stamp(r) == [measured |-> doing[r].since, at |-> doing[r].since]

EndScan(r) ==
    /\ doing[r].do = "scan" /\ cached' = Stamp(r) /\ Shows(r, doing[r].since)
    /\ lockQueue' = Tail(lockQueue) /\ Answer(r)
    /\ UNCHANGED <<clock, expires, fresh, apLogin, service, lastUse, misserved>>

-----------------------------------------------------------------------------

ApNext ==
    \/ Tick \/ PurgeExpired \/ ServiceFlips
    \/ \E ip \in ApIps : LoginBlocked(ip) \/ LoginFailed(ip)
                         \/ \E sid \in ApSids : LoginSuccess(ip, sid)
    \/ \E sid \in ApSids :
          \/ PassMiddleware(sid) \/ Logout(sid)
          \/ \E cookie, header \in AnyCookie : CsrfRefused(sid, cookie, header)
    \/ \E r \in ApRequests :
          \/ \E rc \in {0, 1} : RestartReturned(r, rc)
          \/ RestartPolled(r) \/ ReloadReturned(r) \/ ReadReturned(r)
          \/ AnswerCached(r) \/ StartScan(r) \/ EndScan(r)
          \/ \E sid \in ApSids :
                \/ ApiDisk(r, sid) \/ ApiRead(r, sid)
                \/ \E cookie, header \in AnyCookie :
                      ApiRestart(r, sid, cookie, header) \/ ApiReload(r, sid, cookie, header)

ApSpec == ApInit /\ [][ApNext]_apVars

-----------------------------------------------------------------------------

\* A session was served only while it lived: its last hit less than
\* session_idle_seconds ago, and no logout since the login (auth.py:225-242).
SessionsHonest == ~misserved

\* However logins, prunings and the clock interleave, an address has at most
\* login_rate_limit_per_5min passwords refused in any window (auth.py:276-295).
FailuresCapped ==
    \A ip \in ApIps : Len(Recent(ip)) <= ApMaxFailures

\* A disk usage shown was measured for this request, or less than cache_ttl
\* ago, however long the scan took that others waited for (inspect.py:487-505).
DiskIsFresh == ~outdated

\* The panel's guarantees together.
PanelSound == SessionsHonest /\ FailuresCapped /\ DiskIsFresh
=============================================================================
