------------------------------ MODULE TunnelPost ------------------------------
(***************************************************************************)
(* One TunnelDialer's request path (src/tunnel.go): doPost, the re-auth    *)
(* loop refreshToken that a 401 or 404 answer starts, and the Login it     *)
(* calls.  A poster is a goroutine that runs doPost; many of them share    *)
(* the Authenticator's token, the mutex reAuthMu and the UI hooks.         *)
(*                                                                         *)
(* Tokens are numbered in the order they are issued.  Time is counted in   *)
(* ticks; a deadline is kept as the age of the window it closes, so        *)
(* "now.After(deadline)" reads "age > window".  The token field is read    *)
(* without a lock; tokens have one width, so a racing read sees the old    *)
(* or the new one, which is what the interleaving of Send with LoginReturn *)
(* allows.  Hooks are recorded at the point where their goroutine starts.  *)
(***************************************************************************)
EXTENDS Integers, FiniteSets

CONSTANTS
    Posters,        \* goroutines that call doPost
    NoPoster,       \* "nobody holds reAuthMu"
    Methods,        \* configured auth methods, a subset of {"key", "password"}
    HasDevice,      \* a device_id is set, so the control cache can be asked
    RelayAtStart,   \* "none" (TCP dialer) or "up" (UDP relay dialer)
    Backoff0,       \* first sleep of the re-auth loop
    BackoffCap,     \* the sleep doubles while it is below this
    RejectWindow,   \* authRejectWindow
    ServerWindow,   \* serverErrorWindow
    MaxToken        \* bound: how many tokens are ever issued

ASSUME PostersAssumption == NoPoster \notin Posters
ASSUME MethodsAssumption == Methods \subseteq {"key", "password"}
ASSUME RelayAssumption == RelayAtStart \in {"none", "up"}
ASSUME TimeAssumption ==
    /\ Backoff0 \in Nat \ {0} /\ BackoffCap \in Nat
    /\ RejectWindow \in Nat /\ ServerWindow \in Nat
ASSUME BoundAssumption == MaxToken \in Nat \ {0}

VARIABLES
    token,        \* Authenticator.token
    valid,        \* tokens the control accepts (server side)
    mu,           \* holder of reAuthMu
    pc,           \* where each poster is
    tok,          \* doPost's snapshot of the token
    allowRetry,   \* doPost's parameter
    retryOn404,   \* doPost's parameter
    badToken,     \* refreshToken's parameter
    warned, rejectAge, serverAge, backoff, sleepLeft,  \* refreshToken's locals
    relay,        \* td.udpRelay: none, up or failed
    hookArmed,    \* onUDPFailed is still set
    udpHooks,     \* how often onUDPFailed was started
    warningShown, \* the warning hook ran last, not the recovered hook
    fatals        \* how often onFatalError was started, counted up to 2

local == <<warned, rejectAge, serverAge, backoff, sleepLeft>>
hooks == <<warningShown, fatals>>
udp   == <<relay, hookArmed, udpHooks>>
vars  == <<token, valid, mu, pc, tok, allowRetry, retryOn404, badToken, local, udp, hooks>>

Unset == -1

Refreshing(p) == pc[p] \in {"lock", "login", "sleep"}

-----------------------------------------------------------------------------
Init ==
    /\ token = 1
    /\ valid = {1}
    /\ mu = NoPoster
    /\ pc = [p \in Posters |-> "idle"]
    /\ tok = [p \in Posters |-> 1]
    /\ allowRetry = [p \in Posters |-> TRUE]
    /\ retryOn404 = [p \in Posters |-> TRUE]
    /\ badToken = [p \in Posters |-> 0]
    /\ warned = [p \in Posters |-> FALSE]
    /\ rejectAge = [p \in Posters |-> Unset]
    /\ serverAge = [p \in Posters |-> 0]
    /\ backoff = [p \in Posters |-> Backoff0]
    /\ sleepLeft = [p \in Posters |-> 0]
    /\ relay = RelayAtStart
    /\ hookArmed = TRUE
    /\ udpHooks = 0
    /\ warningShown = FALSE
    /\ fatals = 0

-----------------------------------------------------------------------------
(* Login: the configured methods run in parallel and the first success     *)
(* wins; otherwise the errors are merged, and the control's cache is tried *)
(* when the failure was transient and nobody rejected the credentials.     *)

\* What one method can return.  "invalid" is ErrAuthRejected whose text is a
\* definitive rejection, "refused" any other ErrAuthRejected, "transient"
\* ErrAuthTransient, "network" an error without an answer.
Outcomes == {"ok", "invalid", "refused", "transient", "network"}

\* tryAuthViaControlCache can only succeed with a device_id.
CacheCanServe(cache) == cache /\ HasDevice

\* isAuthRejection on the joined error text.
isAuthRejection(out) == \E m \in Methods : out[m] = "invalid"

LoginResult(out, cache) ==
    LET has(kinds) == \E m \in Methods : out[m] \in kinds
        viaCache == /\ has({"transient"}) /\ ~has({"invalid", "refused"})
                    /\ CacheCanServe(cache)
    IN  CASE has({"ok"}) \/ viaCache -> "ok"
          [] ~has({"ok"}) /\ ~viaCache /\ isAuthRejection(out) -> "definitive"
          [] OTHER -> "unavailable"

LoginResults == {LoginResult(out, cache) : out \in [Methods -> Outcomes], cache \in BOOLEAN}

-----------------------------------------------------------------------------
(* doPost                                                                  *)

\* A failed relay fires onUDPFailed, taken under hookMu so that it fires once.
TakeUDPHook ==
    IF relay = "failed" /\ hookArmed
    THEN hookArmed' = FALSE /\ udpHooks' = udpHooks + 1
    ELSE UNCHANGED <<hookArmed, udpHooks>>

\* From the token snapshot to the request on the wire; once the relay has
\* failed the request falls through to TCP.
Send(p, retry) ==
    /\ tok' = [tok EXCEPT ![p] = token]
    /\ allowRetry' = [allowRetry EXCEPT ![p] = retry]
    /\ pc' = [pc EXCEPT ![p] = IF relay = "up" THEN "sentUDP" ELSE "sentTCP"]
    /\ TakeUDPHook
    /\ UNCHANGED <<token, valid, mu, badToken, local, relay, hooks>>

Post(p) ==
    /\ pc[p] = "idle"
    /\ \E r \in BOOLEAN : retryOn404' = [retryOn404 EXCEPT ![p] = r]
    /\ Send(p, TRUE)

\* The recursive doPost after a successful refreshToken.
Resend(p) ==
    /\ pc[p] = "resend"
    /\ UNCHANGED retryOn404
    /\ Send(p, FALSE)

\* What the control can answer: an unknown token gets 401 or 404; a 404 for a
\* known one means the exit rejected the target.  "other" is 200, another
\* status, a transport error or an undecodable body: doPost returns in all.
Statuses(t) == IF t \in valid THEN {"404", "other"} ELSE {"401", "404", "other"}

ShouldRetry(p, status) ==
    allowRetry[p] /\ (status = "401" \/ (status = "404" /\ retryOn404[p]))

Reply(p) ==
    /\ pc[p] \in {"sentTCP", "sentUDP"}
    /\ \E status \in Statuses(tok[p]) :
         IF ShouldRetry(p, status)
         THEN /\ pc' = [pc EXCEPT ![p] = "lock"]
              /\ badToken' = [badToken EXCEPT ![p] = tok[p]]
         ELSE /\ pc' = [pc EXCEPT ![p] = "idle"]
              /\ UNCHANGED badToken
    /\ UNCHANGED <<token, valid, mu, tok, allowRetry, retryOn404, local, udp, hooks>>

-----------------------------------------------------------------------------
(* refreshToken                                                            *)

ResetLocals(p) ==
    /\ warned' = [warned EXCEPT ![p] = FALSE]
    /\ rejectAge' = [rejectAge EXCEPT ![p] = Unset]
    /\ serverAge' = [serverAge EXCEPT ![p] = 0]
    /\ backoff' = [backoff EXCEPT ![p] = Backoff0]
    /\ sleepLeft' = [sleepLeft EXCEPT ![p] = 0]

\* Mutants: no re-check of the token, and the re-check the wrong way round.
TokenReplacedUnchecked(p) == FALSE
TokenReplacedInverted(p) == token = badToken[p]

\* The re-check made each time the mutex has been taken.
TokenReplaced(p) == token # badToken[p]

\* Under the mutex: return at once if somebody replaced the bad token.
Lock(p) ==
    /\ pc[p] = "lock"
    /\ mu = NoPoster
    /\ IF TokenReplaced(p)
       THEN pc' = [pc EXCEPT ![p] = "resend"] /\ UNCHANGED mu
       ELSE pc' = [pc EXCEPT ![p] = "login"] /\ mu' = p
    /\ ResetLocals(p)
    /\ UNCHANGED <<token, valid, tok, allowRetry, retryOn404, badToken, udp, hooks>>

\* Login succeeded; the recovered hook runs only if this goroutine warned.
LoginOk(p) ==
    /\ token < MaxToken
    /\ token' = token + 1
    /\ valid' = valid \cup {token + 1}
    /\ warningShown' = (warningShown /\ ~warned[p])
    /\ mu' = NoPoster
    /\ pc' = [pc EXCEPT ![p] = "resend"]
    /\ ResetLocals(p)
    /\ UNCHANGED fatals

FireWarn(p) ==
    warningShown' = (warningShown \/ ~warned[p])

\* The fatal hook is started and doPost returns the error.
GiveUp(p) ==
    /\ FireWarn(p)
    /\ fatals' = IF fatals < 2 THEN fatals + 1 ELSE fatals
    /\ mu' = NoPoster
    /\ pc' = [pc EXCEPT ![p] = "idle"]
    /\ ResetLocals(p)
    /\ UNCHANGED <<token, valid>>

\* Release the mutex and sleep for the backoff.
Sleep(p) ==
    /\ mu' = NoPoster
    /\ pc' = [pc EXCEPT ![p] = "sleep"]
    /\ sleepLeft' = [sleepLeft EXCEPT ![p] = backoff[p]]
    /\ UNCHANGED <<token, valid, fatals, serverAge, backoff>>

\* A definitive rejection warns, starts the short window once, and is fatal
\* after it.
LoginRejected(p) ==
    IF rejectAge[p] > RejectWindow
    THEN GiveUp(p)
    ELSE /\ FireWarn(p)
         /\ warned' = [warned EXCEPT ![p] = TRUE]
         /\ rejectAge' = [rejectAge EXCEPT ![p] = IF @ = Unset THEN 0 ELSE @]
         /\ Sleep(p)

\* Mutant: the long window is never tested.
LoginUnavailableForever(p) ==
    Sleep(p) /\ UNCHANGED <<warned, rejectAge, warningShown>>

\* Any other failure is silent until the long window is over.
LoginUnavailable(p) ==
    IF serverAge[p] > ServerWindow
    THEN GiveUp(p)
    ELSE Sleep(p) /\ UNCHANGED <<warned, rejectAge, warningShown>>

LoginReturn(p) ==
    /\ pc[p] = "login"
    /\ \E r \in LoginResults :
         \/ r = "ok" /\ LoginOk(p)
         \/ r = "definitive" /\ LoginRejected(p)
         \/ r = "unavailable" /\ LoginUnavailable(p)
    /\ UNCHANGED <<tok, allowRetry, retryOn404, badToken, udp>>

\* The sleep is over: double the backoff, take the mutex, re-check the token.
Wake(p) ==
    /\ pc[p] = "sleep" /\ sleepLeft[p] = 0
    /\ mu = NoPoster
    /\ IF TokenReplaced(p)
       THEN pc' = [pc EXCEPT ![p] = "resend"] /\ ResetLocals(p) /\ UNCHANGED mu
       ELSE /\ pc' = [pc EXCEPT ![p] = "login"]
            /\ mu' = p
            /\ backoff' = [backoff EXCEPT ![p] = IF @ < BackoffCap THEN 2 * @ ELSE @]
            /\ UNCHANGED <<warned, rejectAge, serverAge, sleepLeft>>
    /\ UNCHANGED <<token, valid, tok, allowRetry, retryOn404, badToken, udp, hooks>>

-----------------------------------------------------------------------------
(* The environment: time, the control's session table, the relay.          *)

\* Ages saturate one past their window, where only "> window" is asked of them.
Older(age, window) == IF age = Unset \/ age > window THEN age ELSE age + 1

CountDown(n) == IF n > 0 THEN n - 1 ELSE 0

Tick ==
    /\ \E p \in Posters : pc[p] \in {"login", "sleep"}
    /\ rejectAge' = [p \in Posters |-> Older(rejectAge[p], RejectWindow)]
    /\ serverAge' = [p \in Posters |-> IF pc[p] \in {"login", "sleep"}
                                       THEN Older(serverAge[p], ServerWindow)
                                       ELSE serverAge[p]]
    /\ sleepLeft' = [p \in Posters |-> CountDown(sleepLeft[p])]
    /\ UNCHANGED <<token, valid, mu, pc, tok, allowRetry, retryOn404, badToken,
                   warned, backoff, udp, hooks>>

\* The control forgets a session.
Expire ==
    /\ \E t \in valid : valid' = valid \ {t}
    /\ UNCHANGED <<token, mu, pc, tok, allowRetry, retryOn404, badToken, local, udp, hooks>>

\* The relay passes its error threshold (module UDPRelay).
RelayFails ==
    /\ relay = "up"
    /\ relay' = "failed"
    /\ UNCHANGED <<token, valid, mu, pc, tok, allowRetry, retryOn404, badToken, local,
                   hookArmed, udpHooks, hooks>>

Step(p) == Post(p) \/ Resend(p) \/ Reply(p) \/ Lock(p) \/ LoginReturn(p) \/ Wake(p)

Next == Tick \/ Expire \/ RelayFails \/ \E p \in Posters : Step(p)

Spec == Init /\ [][Next]_vars

\* Time passes, a login returns (its HTTP clients have 30 s timeouts), a
\* runnable goroutine runs, and sync.Mutex does not starve a waiter.
Fairness ==
    /\ WF_vars(Tick)
    /\ \A p \in Posters :
         /\ WF_vars(LoginReturn(p) \/ Reply(p) \/ Resend(p))
         /\ SF_vars(Lock(p) \/ Wake(p))

FairSpec == Spec /\ Fairness

-----------------------------------------------------------------------------
PCs == {"idle", "sentTCP", "sentUDP", "lock", "login", "sleep", "resend"}

\* Every variable stays in its domain.
TypeOK ==
    /\ token \in Nat \ {0}
    /\ valid \subseteq Nat
    /\ mu \in Posters \cup {NoPoster}
    /\ pc \in [Posters -> PCs]
    /\ tok \in [Posters -> Nat]
    /\ allowRetry \in [Posters -> BOOLEAN]
    /\ retryOn404 \in [Posters -> BOOLEAN]
    /\ badToken \in [Posters -> Nat]
    /\ warned \in [Posters -> BOOLEAN]
    /\ rejectAge \in [Posters -> Nat \cup {Unset}]
    /\ serverAge \in [Posters -> Nat]
    /\ backoff \in [Posters -> Nat \ {0}]
    /\ sleepLeft \in [Posters -> Nat]
    /\ relay \in {"none", "up", "failed"}
    /\ hookArmed \in BOOLEAN
    /\ udpHooks \in Nat
    /\ warningShown \in BOOLEAN
    /\ fatals \in 0..2

\* A goroutine that is logging in still holds the token it was told is bad:
\* the re-checks under reAuthMu never let two goroutines replace one token.
LoginReplacesBadToken ==
    \A p \in Posters : pc[p] = "login" => mu = p /\ token = badToken[p]

\* The one retry doPost makes after refreshToken returned nil never goes out
\* with the token that was rejected, whoever did the re-authentication.
RetryUsesFreshToken ==
    \A p \in Posters :
        pc[p] \in {"sentTCP", "sentUDP"} /\ ~allowRetry[p] => tok[p] # badToken[p]

\* onFatalError is raised only over the token that is still current, and only
\* while the warning is on display: a goroutine whose window ran out never
\* disconnects a session that another goroutine has already restored.
FatalOnlyOverDeadSession ==
    [][fatals' # fatals =>
         /\ warningShown'
         /\ \E p \in Posters : pc[p] = "login" /\ badToken[p] = token]_vars

\* onUDPFailed runs at most once however many posters find the relay failed
\* together (comment "fire only once" in doPost).
UDPFailedHookOnce == udpHooks <= 1 /\ (hookArmed <=> udpHooks = 0)

\* refreshToken returns: a poster that lost its session is not stuck behind
\* the mutex or in the retry loop for ever.
RefreshReturns == \A p \in Posters : Refreshing(p) ~> ~Refreshing(p)
=============================================================================
