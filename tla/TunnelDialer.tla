---------------------------- MODULE TunnelDialer ----------------------------
(***************************************************************************)
(* One TunnelDialer's view of its control's health (src/tunnel.go): Dial   *)
(* with its retries, classifyDialErr, the rolling outcome window behind    *)
(* the two eviction hooks, FailRatio, the stream-death reports of open     *)
(* connections and the count of open connections.                          *)
(*                                                                         *)
(* Time is counted in ticks of dialWinMinSpan / MinSpan; a sample carries  *)
(* its age.  recordDialOutcome takes its timestamp inside dialWinMu, so    *)
(* one Record is one step and samples are in time order.                   *)
(***************************************************************************)
EXTENDS Integers, Sequences, FiniteSets

CONSTANTS
    Conns,        \* goroutines that dial and then own a connection
    WinSize,      \* dialWinSize
    MinSpan,      \* dialWinMinSpan
    MinSamples,   \* dialWinMinSamples
    MaxAttempts,  \* sends of one Dial
    MaxReports,   \* recordStreamDead calls of one connection (TunnelConn!ReportsBounded)
    MaxWindow     \* bound: samples in the window

ASSUME ConnsAssumption == IsFiniteSet(Conns)
ASSUME WindowAssumption ==
    /\ WinSize \in Nat /\ MinSpan \in Nat /\ MinSpan <= WinSize
    /\ MinSamples \in Nat \ {0} /\ MaxWindow \in Nat
ASSUME DialAssumption == MaxAttempts \in Nat \ {0} /\ MaxReports \in Nat

VARIABLES
    window,         \* dialWindow: samples [age, ok], oldest first
    firstWinFired,
    dataWinFired,
    fired,          \* the hooks that the last Record started
    dpc,            \* each goroutine: idle, dialing, open
    attempt,        \* sends made by its Dial
    reports,        \* stream deaths its connection reported
    activeConns

health == <<window, firstWinFired, dataWinFired, fired>>
vars == <<health, dpc, attempt, reports, activeConns>>

Sample == [age : Nat, ok : BOOLEAN]

Init ==
    /\ window = <<>> /\ firstWinFired = FALSE /\ dataWinFired = FALSE /\ fired = {}
    /\ dpc = [c \in Conns |-> "idle"]
    /\ attempt = [c \in Conns |-> 0]
    /\ reports = [c \in Conns |-> 0]
    /\ activeConns = 0

-----------------------------------------------------------------------------
(* The outcome window                                                      *)

Fails(w) == Cardinality({i \in 1..Len(w) : ~w[i].ok})

\* Enough samples, over a long enough time, to judge the control.
Judged(w) == Len(w) >= MinSamples /\ w[1].age >= MinSpan

\* firstFailRatio and dataFailRatio, without fractions.
SoftBad(w) == 2 * Fails(w) >= Len(w)
HardBad(w) == 5 * Fails(w) >= 4 * Len(w)

\* Older than the cutoff; a sample exactly dialWinSize old is kept.
Expired(o) == o.age > WinSize

\* j counts the expired samples at the front, as the trimming loop does.
TrimTo(j) ==
    /\ \A i \in 1..j : Expired(window[i])
    /\ j < Len(window) => ~Expired(window[j + 1])

Trimmed(j) == SubSeq(window, j + 1, Len(window))

\* Mutant: the hard flag is never cleared.
JudgeHardSticky(w) ==
    /\ firstWinFired' = IF Judged(w) THEN SoftBad(w) ELSE firstWinFired
    /\ dataWinFired' = (dataWinFired \/ (Judged(w) /\ HardBad(w)))

\* The flags follow the ratio whenever the window can be judged.
Judge(w) ==
    /\ firstWinFired' = IF Judged(w) THEN SoftBad(w) ELSE firstWinFired
    /\ dataWinFired' = IF Judged(w) THEN HardBad(w) ELSE dataWinFired

\* recordDialOutcome.
Record(ok) ==
    \E j \in 0..Len(window) :
        LET w == Append(Trimmed(j), [age |-> 0, ok |-> ok])
        IN  /\ TrimTo(j)
            /\ Len(w) <= MaxWindow
            /\ window' = w
            /\ Judge(w)
            /\ fired' = (IF firstWinFired' /\ ~firstWinFired THEN {"first"} ELSE {})
                          \cup (IF dataWinFired' /\ ~dataWinFired THEN {"data"} ELSE {})

\* FailRatio, called by Pick, trims the window as well.
FailRatio ==
    /\ \E j \in 0..Len(window) : TrimTo(j) /\ window' = Trimmed(j)
    /\ fired' = {}
    /\ UNCHANGED <<firstWinFired, dataWinFired, dpc, attempt, reports, activeConns>>

-----------------------------------------------------------------------------
(* Dial                                                                    *)

DialStart(c) ==
    /\ dpc[c] = "idle"
    /\ dpc' = [dpc EXCEPT ![c] = "dialing"]
    /\ attempt' = [attempt EXCEPT ![c] = 1]
    /\ fired' = {}
    /\ UNCHANGED <<window, firstWinFired, dataWinFired, reports, activeConns>>

\* classifyDialErr: an answer counts for the control, a 404 counts for
\* nobody, the lack of an answer counts against it.
classifyDialErr(r) ==
    \/ r \in {"ok", "http"} /\ Record(TRUE)
    \/ r = "http404" /\ fired' = {} /\ UNCHANGED <<window, firstWinFired, dataWinFired>>
    \/ r = "net" /\ Record(FALSE)

\* Only a transport error is retried.
RetryAgain(c, r) == r = "net" /\ attempt[c] < MaxAttempts

\* One send(0, nil) returns: the connection opens, or the attempt is repeated,
\* or Dial returns the error.
DialReturn(c) ==
    /\ dpc[c] = "dialing"
    /\ \E r \in {"ok", "http", "http404", "net"} :
         /\ classifyDialErr(r)
         /\ dpc' = [dpc EXCEPT ![c] = CASE r = "ok" -> "open"
                                        [] RetryAgain(c, r) -> "dialing"
                                        [] OTHER -> "idle"]
         /\ attempt' = [attempt EXCEPT ![c] = IF RetryAgain(c, r) THEN @ + 1 ELSE 0]
         /\ activeConns' = IF r = "ok" THEN activeConns + 1 ELSE activeConns
    /\ UNCHANGED reports

\* The stream loop of an open connection renews or gives up.
recordStreamDead(c) ==
    /\ dpc[c] = "open" /\ reports[c] < MaxReports
    /\ Record(FALSE)
    /\ reports' = [reports EXCEPT ![c] = @ + 1]
    /\ UNCHANGED <<dpc, attempt, activeConns>>

\* onClose.
CloseCounts(c) == activeConns' = activeConns - 1

CloseConn(c) ==
    /\ dpc[c] = "open"
    /\ dpc' = [dpc EXCEPT ![c] = "idle"]
    /\ reports' = [reports EXCEPT ![c] = 0]
    /\ CloseCounts(c)
    /\ fired' = {}
    /\ UNCHANGED <<window, firstWinFired, dataWinFired, attempt>>

-----------------------------------------------------------------------------
\* Ages saturate one past the window, where a sample is expired for good.
Tick ==
    /\ window' = [i \in 1..Len(window) |->
                    [window[i] EXCEPT !.age = IF @ > WinSize THEN @ ELSE @ + 1]]
    /\ fired' = {}
    /\ UNCHANGED <<firstWinFired, dataWinFired, dpc, attempt, reports, activeConns>>

Step(c) == DialStart(c) \/ DialReturn(c) \/ recordStreamDead(c) \/ CloseConn(c)

Next == FailRatio \/ Tick \/ \E c \in Conns : Step(c)

Spec == Init /\ [][Next]_vars

-----------------------------------------------------------------------------
\* Every variable stays in its domain.
TypeOK ==
    /\ window \in Seq(Sample)
    /\ firstWinFired \in BOOLEAN /\ dataWinFired \in BOOLEAN
    /\ fired \subseteq {"first", "data"}
    /\ dpc \in [Conns -> {"idle", "dialing", "open"}]
    /\ attempt \in [Conns -> 0..MaxAttempts]
    /\ reports \in [Conns -> 0..MaxReports]
    /\ activeConns \in Int

\* The hard tier is never active without the soft tier: a control is never
\* banned as data-dead (80%) without having been evicted from the pool (50%).
HardImpliesSoft == dataWinFired => firstWinFired

\* The flags a Record leaves agree with what FailRatio computes at that
\* moment: Pick's weighting and the eviction hooks never judge one window
\* differently.
FlagsMatchWindow ==
    window # <<>> /\ window[Len(window)].age = 0 /\ ~Expired(window[1]) /\ Judged(window) =>
        /\ firstWinFired <=> SoftBad(window)
        /\ dataWinFired <=> HardBad(window)

\* activeConns is the number of open connections, so OpenConns never reports
\* a dialer drained that is not.
ActiveConnsExact == activeConns = Cardinality({c \in Conns : dpc[c] = "open"})
=============================================================================
