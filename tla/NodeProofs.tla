---------------------------- MODULE NodeProofs -----------------------------
(***************************************************************************)
(* The three tables of one node: the failure windows of its dialer, the    *)
(* paths of its router and the contacts of its DHT.                        *)
(***************************************************************************)
EXTENDS TunnelDialer, Router, Dht, FiniteSetTheorems, TLAPS

\* The backends, in the order in which a leaf that names none tries them.
USE SMT, ZenonT(20), Z3T(60), SMTT(60)

-----------------------------------------------------------------------------
(* The dialer: any number of connections, any window, sample and span      *)
(* limits.                                                                 *)

\* Just after a Record nothing in the window is expired and the flags are
\* those of the window; time and trimming move on from there.
FreshInv ==
    window # <<>> /\ window[Len(window)].age = 0 =>
        /\ ~Expired(window[1])
        /\ Judged(window) => /\ firstWinFired <=> SoftBad(window)
                             /\ dataWinFired <=> HardBad(window)

IInv == TypeOK /\ HardImpliesSoft /\ FreshInv /\ ActiveConnsExact

-----------------------------------------------------------------------------
\* The number of failures in a window is a number.
LEMMA FailsType ==
  ASSUME NEW w \in Seq(Sample)
  PROVE  Fails(w) \in Nat /\ Len(w) \in Nat
<1>1. Len(w) \in Nat
  OBVIOUS
<1>2. IsFiniteSet(1..Len(w))
  BY <1>1, FS_Interval
<1>3. IsFiniteSet({i \in 1..Len(w) : ~w[i].ok})
  BY <1>2, FS_Subset
<1> QED BY <1>1, <1>3, FS_CardinalityType DEF Fails

\* 80% of the samples are at least 50% of them.
LEMMA HardBadIsSoftBad ==
  ASSUME NEW w \in Seq(Sample), HardBad(w)
  PROVE  SoftBad(w)
  BY FailsType DEF HardBad, SoftBad

\* The samples of a window from the a-th to the b-th.
LEMMA PartOfWindow ==
  ASSUME NEW s \in Seq(Sample), NEW a \in Nat \ {0}, NEW b \in Nat, b <= Len(s), a <= b + 1
  PROVE  /\ SubSeq(s, a, b) \in Seq(Sample) /\ Len(SubSeq(s, a, b)) = b + 1 - a
         /\ \A k \in 1..(b + 1 - a) : SubSeq(s, a, b)[k] = s[a + k - 1]
<1>1. \A k \in a..b : s[k] \in Sample
  OBVIOUS
<1>2. /\ SubSeq(s, a, b) \in Seq(Sample)
      /\ Len(SubSeq(s, a, b)) = IF a <= b THEN b - a + 1 ELSE 0
      /\ \A k \in 1..(b - a + 1) : SubSeq(s, a, b)[k] = s[a + k - 1]
  BY <1>1, Z3
<1>3. b - a + 1 = b + 1 - a /\ (a <= b \/ b + 1 - a = 0)
  OBVIOUS
<1> QED BY <1>2, <1>3

\* Trimming leaves a window whose last sample, if any, is the old last one.
LEMMA TrimmedType ==
  ASSUME window \in Seq(Sample), NEW j \in 0..Len(window)
  PROVE  /\ Trimmed(j) \in Seq(Sample)
         /\ Len(Trimmed(j)) = Len(window) - j
         /\ \A i \in 1..Len(Trimmed(j)) : Trimmed(j)[i] = window[j + i]
<1>1. PICK n \in Nat : n = Len(window)
  OBVIOUS
<1>2. j \in Nat /\ j <= n /\ j + 1 \in Nat \ {0} /\ j + 1 <= n + 1
  BY <1>1
<1>3. /\ Trimmed(j) \in Seq(Sample) /\ Len(Trimmed(j)) = n + 1 - (j + 1)
      /\ \A k \in 1..(n + 1 - (j + 1)) : Trimmed(j)[k] = window[(j + 1) + k - 1]
  BY <1>1, <1>2, PartOfWindow DEF Trimmed
<1>4. n + 1 - (j + 1) = n - j /\ \A k \in 1..(n - j) : (j + 1) + k - 1 = j + k
  BY <1>2
<1> QED BY <1>1, <1>3, <1>4

\* The window with one more sample at its end.
LEMMA WindowAppend ==
  ASSUME NEW s \in Seq(Sample), NEW e \in Sample
  PROVE  /\ Append(s, e) \in Seq(Sample) /\ Append(s, e) # <<>>
         /\ Len(Append(s, e)) = Len(s) + 1
         /\ \A i \in 1..Len(s) : Append(s, e)[i] = s[i]
         /\ Append(s, e)[Len(s) + 1] = e
<1>1. Append(s, e) \in Seq(Sample) /\ Len(Append(s, e)) = Len(s) + 1
  OBVIOUS
<1>2. \A i \in 1..Len(s) : Append(s, e)[i] = s[i]
  OBVIOUS
<1>3. Append(s, e)[Len(s) + 1] = e
  OBVIOUS
<1>4. Append(s, e) # <<>>
  <2>1. Len(s) \in Nat /\ Len(<<>>) = 0
    OBVIOUS
  <2>2. Len(Append(s, e)) # Len(<<>>)
    BY <1>1, <2>1
  <2> QED BY <2>2, Zenon
<1> QED BY <1>1, <1>2, <1>3, <1>4

\* What one Record leaves behind.
LEMMA RecordStep ==
  ASSUME IInv, NEW ok \in BOOLEAN, Record(ok)
  PROVE  /\ window' \in Seq(Sample)
         /\ firstWinFired' \in BOOLEAN /\ dataWinFired' \in BOOLEAN
         /\ fired' \subseteq {"first", "data"}
         /\ HardImpliesSoft' /\ FreshInv'
<1> DEFINE new == [age |-> 0, ok |-> ok]
           W(j) == Append(Trimmed(j), new)
<1>1. PICK j \in 0..Len(window) :
        TrimTo(j) /\ window' = W(j) /\ Judge(W(j))
        /\ fired' = (IF firstWinFired' /\ ~firstWinFired THEN {"first"} ELSE {})
                      \cup (IF dataWinFired' /\ ~dataWinFired THEN {"data"} ELSE {})
  BY DEF Record
<1>2. window \in Seq(Sample) /\ Len(window) \in Nat
  BY DEF IInv, TypeOK
<1>3. /\ Trimmed(j) \in Seq(Sample) /\ Len(Trimmed(j)) = Len(window) - j
      /\ \A i \in 1..Len(Trimmed(j)) : Trimmed(j)[i] = window[j + i]
  BY <1>2, TrimmedType
<1>4. new \in Sample
  BY DEF Sample
<1>5. /\ W(j) \in Seq(Sample) /\ W(j) # <<>>
      /\ Len(W(j)) = Len(Trimmed(j)) + 1
      /\ \A i \in 1..Len(Trimmed(j)) : W(j)[i] = Trimmed(j)[i]
      /\ W(j)[Len(W(j))] = new
  <2>1. /\ W(j) \in Seq(Sample) /\ W(j) # <<>>
        /\ Len(W(j)) = Len(Trimmed(j)) + 1
        /\ \A i \in 1..Len(Trimmed(j)) : W(j)[i] = Trimmed(j)[i]
        /\ W(j)[Len(Trimmed(j)) + 1] = new
    <3> HIDE DEF new
    <3> QED BY <1>3, <1>4, WindowAppend
  <2> QED BY <2>1
<1>6. ~Expired(W(j)[1])
  <2>1. CASE j = Len(window)
    BY <2>1, <1>2, <1>3, <1>5, WindowAssumption DEF Expired
  <2>2. CASE j < Len(window)
    BY <2>2, <1>1, <1>2, <1>3, <1>5 DEF TrimTo
  <2> QED BY <2>1, <2>2, <1>2
<1>7. firstWinFired \in BOOLEAN /\ dataWinFired \in BOOLEAN /\ HardImpliesSoft
  BY DEF IInv, TypeOK
<1>8. firstWinFired' \in BOOLEAN /\ dataWinFired' \in BOOLEAN
  <2>1. SoftBad(W(j)) \in BOOLEAN /\ HardBad(W(j)) \in BOOLEAN
    BY DEF SoftBad, HardBad
  <2> HIDE DEF W
  <2> QED BY <1>1, <1>7, <2>1, Zenon DEF Judge
<1>9. HardImpliesSoft'
  BY <1>1, <1>5, <1>7, HardBadIsSoftBad, Zenon DEF Judge, HardImpliesSoft
<1>10. FreshInv'
  BY <1>1, <1>6 DEF FreshInv, Judge
<1>11. fired' \subseteq {"first", "data"}
  BY <1>1
<1> QED BY <1>1, <1>5, <1>8, <1>9, <1>10, <1>11

\* The number of open connections goes up by one when one opens and down by
\* one when one closes.
LEMMA OpenCount ==
  ASSUME TypeOK, NEW c \in Conns, NEW s \in {"idle", "dialing", "open"},
         dpc' = [dpc EXCEPT ![c] = s]
  PROVE  /\ dpc[c] # "open" /\ s = "open" =>
              Cardinality({d \in Conns : dpc[d] = "open"}') =
              Cardinality({d \in Conns : dpc[d] = "open"}) + 1
         /\ dpc[c] = "open" /\ s # "open" =>
              Cardinality({d \in Conns : dpc[d] = "open"}') =
              Cardinality({d \in Conns : dpc[d] = "open"}) - 1
         /\ dpc[c] # "open" /\ s # "open" =>
              {d \in Conns : dpc[d] = "open"}' = {d \in Conns : dpc[d] = "open"}
<1> DEFINE O == {d \in Conns : dpc[d] = "open"}
           P == {d \in Conns : dpc'[d] = "open"}
<1>1. IsFiniteSet(O)
  BY ConnsAssumption, FS_Subset
<1>2. dpc[c] # "open" /\ s = "open" => P = O \cup {c} /\ c \notin O
  BY DEF TypeOK
<1>3. dpc[c] = "open" /\ s # "open" => P = O \ {c} /\ c \in O
  BY DEF TypeOK
<1>4. dpc[c] # "open" /\ s # "open" => P = O
  BY DEF TypeOK
<1>5. Cardinality(O \cup {c}) = IF c \in O THEN Cardinality(O) ELSE Cardinality(O) + 1
  BY <1>1, FS_AddElement
<1>6. Cardinality(O \ {c}) = IF c \in O THEN Cardinality(O) - 1 ELSE Cardinality(O)
  BY <1>1, FS_RemoveElement, Zenon
<1> QED BY <1>2, <1>3, <1>4, <1>5, <1>6

-----------------------------------------------------------------------------
\* A fresh dialer satisfies the inductive invariant.
LEMMA InitIInv == Init => IInv
<1> SUFFICES ASSUME Init PROVE IInv
  OBVIOUS
<1>1. window = <<>> /\ window \in Seq(Sample)
  BY DEF Init
<1>2. firstWinFired = FALSE /\ dataWinFired = FALSE /\ fired = {} /\ activeConns = 0
  BY DEF Init
<1>3. /\ dpc \in [Conns -> {"idle", "dialing", "open"}]
      /\ attempt \in [Conns -> 0..MaxAttempts] /\ reports \in [Conns -> 0..MaxReports]
  BY DialAssumption DEF Init
<1>4. firstWinFired \in BOOLEAN /\ dataWinFired \in BOOLEAN
  BY <1>2, Zenon
<1>5. fired \subseteq {"first", "data"} /\ activeConns \in Int
  BY <1>2
<1>6. TypeOK
  BY <1>1, <1>3, <1>4, <1>5 DEF TypeOK
<1>7. HardImpliesSoft
  BY <1>2 DEF HardImpliesSoft
<1>8. FreshInv
  BY <1>1 DEF FreshInv
<1>9. {c \in Conns : dpc[c] = "open"} = {}
  BY DEF Init
<1>10. ActiveConnsExact
  BY <1>2, <1>9, FS_EmptySet DEF ActiveConnsExact
<1> QED BY <1>6, <1>7, <1>8, <1>10 DEF IInv

\* FailRatio and the passing of time keep the window a window, and do not
\* touch the flags; a sample of age 0 is there only if neither moved it.
LEMMA WindowIInv ==
  ASSUME IInv, FailRatio \/ Tick
  PROVE  IInv'
<1>1. window \in Seq(Sample) /\ Len(window) \in Nat
      /\ window \in [1..Len(window) -> Sample]
  BY DEF IInv, TypeOK
<1>2. /\ fired' = {}
      /\ UNCHANGED <<firstWinFired, dataWinFired, dpc, attempt, reports, activeConns>>
  BY DEF FailRatio, Tick
<1>3. window' \in Seq(Sample) /\ FreshInv'
  <2>1. CASE FailRatio
    <3>1. PICK j \in 0..Len(window) : TrimTo(j) /\ window' = Trimmed(j)
      BY <2>1 DEF FailRatio
    <3>2. /\ window' \in Seq(Sample) /\ Len(window') = Len(window) - j
          /\ \A i \in 1..Len(window') : window'[i] = window[j + i]
      BY <1>1, <3>1, TrimmedType, Zenon
    <3>3. CASE window' # <<>> /\ window'[Len(window')].age = 0
      <4>1. Len(window') > 0
        BY <3>2, <3>3
      <4>2. window'[Len(window')] = window[Len(window)] /\ Len(window) > 0
        BY <1>1, <3>2, <4>1
      <4>3. window # <<>>
        BY <4>2
      <4>4. ~Expired(window[1])
        BY <3>3, <4>2, <4>3 DEF IInv, FreshInv
      <4>5. j = 0
        BY <1>1, <3>1, <4>4 DEF TrimTo
      <4>6. window' = window
        BY <1>1, <1>2, <3>1, <4>5 DEF Trimmed
      <4> QED BY <1>1, <1>2, <4>6 DEF IInv, FreshInv, SoftBad, HardBad, Judged, Fails, Expired
    <3>4. CASE ~(window' # <<>> /\ window'[Len(window')].age = 0)
      BY <3>2, <3>4 DEF FreshInv
    <3> QED BY <3>2, <3>3, <3>4
  <2>2. CASE Tick
    <3> DEFINE old(i) == [window[i] EXCEPT !.age = IF @ > WinSize THEN @ ELSE @ + 1]
    <3>1. window' = [i \in 1..Len(window) |-> old(i)]
      BY <2>2 DEF Tick
    <3>2. \A i \in 1..Len(window) : old(i) \in Sample /\ old(i).age > 0
      BY <1>1, WindowAssumption DEF Sample
    <3>3. window' \in Seq(Sample) /\ Len(window') = Len(window)
      <4> HIDE DEF old
      <4> QED BY <1>1, <3>1, <3>2
    <3>4. ~(window' # <<>> /\ window'[Len(window')].age = 0)
      <4>1. Len(window) = 0 => window' = <<>>
        BY <3>3
      <4>2. Len(window) > 0 => window'[Len(window')].age > 0
        <5> HIDE DEF old
        <5> QED BY <1>1, <3>1, <3>2, <3>3
      <4> QED BY <1>1, <4>1, <4>2
    <3> QED BY <3>3, <3>4 DEF FreshInv
  <2> QED BY <2>1, <2>2
<1>4. TypeOK'
  BY <1>2, <1>3 DEF IInv, TypeOK
<1>5. HardImpliesSoft' /\ ActiveConnsExact'
  BY <1>2 DEF IInv, HardImpliesSoft, ActiveConnsExact
<1> QED BY <1>3, <1>4, <1>5 DEF IInv

\* A dialling goroutine or an open connection keeps the invariant.
LEMMA StepIInv ==
  ASSUME IInv, NEW c \in Conns, Step(c)
  PROVE  IInv'
<1> DEFINE Kept == fired' = {} /\ UNCHANGED <<window, firstWinFired, dataWinFired>>
<1> USE DEF IInv
<1>1. ASSUME Kept \/ Record(TRUE) \/ Record(FALSE)
      PROVE  /\ window' \in Seq(Sample)
             /\ firstWinFired' \in BOOLEAN /\ dataWinFired' \in BOOLEAN
             /\ fired' \subseteq {"first", "data"}
             /\ HardImpliesSoft' /\ FreshInv'
  <2>1. CASE Kept
    BY <2>1 DEF TypeOK, HardImpliesSoft, FreshInv, SoftBad, HardBad, Judged, Fails, Expired
  <2>2. CASE Record(TRUE)
    BY <2>2, RecordStep, Zenon
  <2>3. CASE Record(FALSE)
    BY <2>3, RecordStep, Zenon
  <2> QED BY <1>1, <2>1, <2>2, <2>3, Zenon
<1>2. CASE DialStart(c)
  <2>1. Kept /\ dpc[c] = "idle" /\ dpc' = [dpc EXCEPT ![c] = "dialing"]
        /\ attempt' = [attempt EXCEPT ![c] = 1] /\ UNCHANGED <<reports, activeConns>>
    BY <1>2 DEF DialStart
  <2>2. {d \in Conns : dpc[d] = "open"}' = {d \in Conns : dpc[d] = "open"}
    BY <2>1, OpenCount
  <2>3. ActiveConnsExact'
    BY <2>1, <2>2 DEF ActiveConnsExact
  <2>4. /\ dpc' \in [Conns -> {"idle", "dialing", "open"}]
        /\ attempt' \in [Conns -> 0..MaxAttempts] /\ reports' \in [Conns -> 0..MaxReports]
        /\ activeConns' \in Int
    BY <2>1, DialAssumption DEF TypeOK
  <2> QED BY <1>1, <2>1, <2>3, <2>4 DEF TypeOK
<1>3. CASE DialReturn(c)
  <2>1. PICK r \in {"ok", "http", "http404", "net"} :
          /\ classifyDialErr(r)
          /\ dpc' = [dpc EXCEPT ![c] = CASE r = "ok" -> "open"
                                         [] RetryAgain(c, r) -> "dialing"
                                         [] OTHER -> "idle"]
          /\ attempt' = [attempt EXCEPT ![c] = IF RetryAgain(c, r) THEN @ + 1 ELSE 0]
          /\ activeConns' = IF r = "ok" THEN activeConns + 1 ELSE activeConns
    BY <1>3, Zenon DEF DialReturn
  <2>2. dpc[c] = "dialing" /\ UNCHANGED reports
    BY <1>3 DEF DialReturn
  <2>3. Kept \/ Record(TRUE) \/ Record(FALSE)
    BY <2>1, Zenon DEF classifyDialErr
  <2>4. PICK s \in {"idle", "dialing", "open"} :
          dpc' = [dpc EXCEPT ![c] = s] /\ (s = "open" <=> r = "ok")
    BY <2>1, Zenon DEF RetryAgain
  <2>5. ActiveConnsExact'
    BY <2>1, <2>2, <2>4, OpenCount, Zenon DEF ActiveConnsExact
  <2>6. attempt' \in [Conns -> 0..MaxAttempts]
    BY <2>1, DialAssumption DEF TypeOK, RetryAgain
  <2>7. dpc' \in [Conns -> {"idle", "dialing", "open"}] /\ activeConns' \in Int
    BY <2>1, <2>4 DEF TypeOK
  <2> QED BY <1>1, <2>2, <2>3, <2>5, <2>6, <2>7, Zenon DEF TypeOK
<1>4. CASE recordStreamDead(c)
  <2>1. /\ Record(FALSE) /\ reports[c] < MaxReports
        /\ reports' = [reports EXCEPT ![c] = @ + 1] /\ UNCHANGED <<dpc, attempt, activeConns>>
    BY <1>4, Zenon DEF recordStreamDead
  <2>2. reports' \in [Conns -> 0..MaxReports]
    BY <2>1, DialAssumption DEF TypeOK
  <2>3. ActiveConnsExact'
    BY <2>1 DEF ActiveConnsExact
  <2> QED BY <1>1, <2>1, <2>2, <2>3 DEF TypeOK
<1>5. CASE CloseConn(c)
  <2>1. Kept /\ dpc[c] = "open" /\ dpc' = [dpc EXCEPT ![c] = "idle"]
        /\ reports' = [reports EXCEPT ![c] = 0] /\ activeConns' = activeConns - 1
        /\ UNCHANGED attempt
    BY <1>5 DEF CloseConn, CloseCounts
  <2>2. ActiveConnsExact'
    BY <2>1, OpenCount, Zenon DEF ActiveConnsExact
  <2>3. /\ dpc' \in [Conns -> {"idle", "dialing", "open"}]
        /\ reports' \in [Conns -> 0..MaxReports] /\ activeConns' \in Int
    BY <2>1, DialAssumption DEF TypeOK
  <2> QED BY <1>1, <2>1, <2>2, <2>3 DEF TypeOK
<1> QED BY <1>2, <1>3, <1>4, <1>5 DEF Step

\* The inductive invariant holds in every reachable state.
LEMMA Inductive == Spec => []IInv
<1>1. IInv /\ [Next]_vars => IInv'
  <2> SUFFICES ASSUME IInv, [Next]_vars PROVE IInv'
    OBVIOUS
  <2>1. CASE FailRatio \/ Tick
    BY <2>1, WindowIInv
  <2>2. ASSUME NEW c \in Conns, Step(c) PROVE IInv'
    BY <2>2, StepIInv
  <2>3. CASE UNCHANGED vars
    BY <2>3 DEF vars, health, IInv, TypeOK, HardImpliesSoft, FreshInv, ActiveConnsExact,
                SoftBad, HardBad, Judged, Fails, Expired
  <2> QED BY <2>1, <2>2, <2>3 DEF Next
<1> QED BY InitIInv, <1>1, PTL DEF Spec

-----------------------------------------------------------------------------
\* The types of the window, the flags and the connection counters.
THEOREM TypeCorrect == Spec => []TypeOK
<1>1. IInv => TypeOK
  BY DEF IInv
<1> QED BY Inductive, <1>1, PTL

\* The data-dead tier is never active without the eviction tier, for any
\* window size, minimum span and minimum number of samples.
THEOREM TiersNested == Spec => []HardImpliesSoft
<1>1. IInv => HardImpliesSoft
  BY DEF IInv
<1> QED BY Inductive, <1>1, PTL

\* The flags agree with FailRatio whenever a sample has just been recorded.
THEOREM FlagsAgree == Spec => []FlagsMatchWindow
<1>1. IInv => FlagsMatchWindow
  BY DEF IInv, FreshInv, FlagsMatchWindow
<1> QED BY Inductive, <1>1, PTL

\* activeConns counts the open connections exactly, for any finite number of
\* dialling goroutines.
THEOREM ActiveConnsCorrect == Spec => []ActiveConnsExact
<1>1. IInv => ActiveConnsExact
  BY DEF IInv
<1> QED BY Inductive, <1>1, PTL

-----------------------------------------------------------------------------
(* The router: any controls and relays.  A UDP probe in flight is compared *)
(* with the marks that may have overtaken it, and the lists that callers   *)
(* are given with what the probes have written so far.                     *)

Candidates == [control : Addrs, relay : Relays \cup {NoRelay}]
Running == [at : {"tcp", "udp"}, addr : Addrs, cur : BOOLEAN]

\* What the probe goroutine and the marks know of each other: a node that is
\* still listed belongs to a current control, and a UDP probe of a control
\* that is marked has been overtaken by the mark.
ProbeInv ==
    /\ fresh \subseteq controls
    /\ probe.at # "idle" /\ probe.cur => probe.addr \in controls
    /\ probe.at = "udp" /\ probe.addr \in udpDataFailed => probe.addr \in raced

NodeTypes ==
    /\ controls \subseteq Addrs /\ fresh \subseteq Addrs /\ udp \subseteq Addrs
    /\ dataDead \subseteq Addrs /\ udpDataFailed \subseteq Addrs /\ raced \subseteq Addrs
    /\ liveRelays \subseteq relays /\ relays \subseteq Relays
    /\ probe \in {Idle} \cup Running

PathTypes ==
    /\ paths \subseteq Candidates /\ Cardinality(paths) <= MaxPaths /\ pathIdx \in 0..MaxPaths
    /\ IndexInRange

RouterInv == NodeTypes /\ ProbeInv /\ UDPOnlyByRace /\ PathTypes

\* The probe is idle or has all its fields.
LEMMA ProbeCases ==
  ASSUME NodeTypes
  PROVE  \/ probe = Idle /\ probe.at = "idle"
         \/ probe # Idle /\ probe \in Running /\ probe.at \in {"tcp", "udp"} /\ probe.addr \in Addrs
            /\ probe.cur \in BOOLEAN
<1>1. CASE probe = Idle
  BY <1>1 DEF Idle
<1>2. CASE probe \in Running
  <2>1. probe.at \in {"tcp", "udp"} /\ probe.addr \in Addrs /\ probe.cur \in BOOLEAN
    BY <1>2 DEF Running
  <2>2. probe # Idle
    BY <2>1 DEF Idle
  <2> QED BY <1>2, <2>1, <2>2
<1> QED BY <1>1, <1>2 DEF NodeTypes

\* There are finitely many paths to choose from.
LEMMA CandidatesFinite ==
  ASSUME NEW S, S \subseteq Candidates
  PROVE  IsFiniteSet(S) /\ Cardinality(S) \in Nat /\ (S # {} <=> Cardinality(S) > 0)
<1> DEFINE R == Relays \cup {NoRelay}
           f == [p \in Candidates |-> <<p.control, p.relay>>]
<1>1. IsFiniteSet(R)
  BY RouterAssumption, FS_AddElement
<1>2. IsFiniteSet(Addrs \X R)
  BY <1>1, RouterAssumption, FS_Product
<1>3. f \in Injection(Candidates, Addrs \X R)
  <2>1. f \in [Candidates -> Addrs \X R]
    BY DEF Candidates
  <2>2. \A p, r \in Candidates : f[p] = f[r] => p = r
    BY DEF Candidates
  <2> QED BY <2>1, <2>2 DEF Injection, IsInjective
<1>4. IsFiniteSet(Candidates)
  <2> HIDE DEF f, R
  <2> QED BY <1>2, <1>3, FS_Injection
<1>5. IsFiniteSet(S)
  BY <1>4, FS_Subset
<1>6. Cardinality(S) \in Nat /\ (Cardinality(S) = 0 <=> S = {})
  BY <1>5, FS_CardinalityType, FS_EmptySet
<1> QED BY <1>5, <1>6

\* Lists, marks, probes and time keep what is known of the nodes.
LEMMA NodeStep ==
  ASSUME NodeTypes, ProbeInv, UDPOnlyByRace, [RouterNext]_routerVars
  PROVE  NodeTypes' /\ ProbeInv' /\ UDPOnlyByRace'
<1> USE DEF NodeTypes, ProbeInv, UDPOnlyByRace
<1>1. ASSUME NEW S \in Lists, SetControlsWithRegions(S)
      PROVE  NodeTypes' /\ ProbeInv' /\ UDPOnlyByRace'
  <2>1. /\ controls' = S /\ fresh' = S /\ udp' = {} /\ S \subseteq Addrs
        /\ UNCHANGED <<dataDead, udpDataFailed, raced, relays, liveRelays>>
    BY <1>1, RouterAssumption DEF SetControlsWithRegions, marks, rnodes
  <2>2. CASE probe = Idle
    <3>1. probe' = Idle /\ probe'.at = "idle"
      BY <1>1, <2>2 DEF SetControlsWithRegions, Idle
    <3> QED BY <2>1, <3>1
  <2>3. CASE probe # Idle
    <3>1. probe \in Running /\ probe' = [probe EXCEPT !.cur = FALSE]
      BY <1>1, <2>3, ProbeCases DEF SetControlsWithRegions
    <3>2. /\ probe' \in Running /\ probe'.at = probe.at /\ probe'.addr = probe.addr
          /\ probe'.cur = FALSE
      BY <3>1, Zenon DEF Running
    <3> QED BY <2>1, <3>2
  <2> QED BY <2>2, <2>3
<1>2. ASSUME NEW S \in SUBSET Relays, UpdateRelays(S) \/ MergeDHTRelays(S)
      PROVE  NodeTypes' /\ ProbeInv' /\ UDPOnlyByRace'
  BY <1>2 DEF UpdateRelays, MergeDHTRelays, nodes, marks
<1>3. ASSUME NEW r \in Relays, MarkRelayAlive(r)
      PROVE  NodeTypes' /\ ProbeInv' /\ UDPOnlyByRace'
  BY <1>3 DEF MarkRelayAlive, nodes, marks
<1>4. ASSUME NEW a \in Addrs, MarkControlDataDead(a) \/ MarkControlAlive(a)
      PROVE  NodeTypes' /\ ProbeInv' /\ UDPOnlyByRace'
  BY <1>4 DEF MarkControlDataDead, MarkControlAlive, nodes, marks, rnodes
<1>5. ASSUME NEW a \in Addrs, MarkUDPDataFailed(a)
      PROVE  NodeTypes' /\ ProbeInv' /\ UDPOnlyByRace'
  BY <1>5 DEF MarkUDPDataFailed, rnodes
<1>6. ASSUME NEW a \in Addrs, ProbeDataPlane(a)
      PROVE  NodeTypes' /\ ProbeInv' /\ UDPOnlyByRace'
  <2>1. /\ probe' \in Running /\ probe'.at = "tcp" /\ probe'.addr = a /\ a \in controls
        /\ UNCHANGED <<controls, fresh, udp, dataDead, udpDataFailed, raced, relays, liveRelays>>
    BY <1>6 DEF ProbeDataPlane, Running, nodes, marks, rnodes
  <2> QED BY <2>1
<1>7. ASSUME NEW ok \in BOOLEAN, NEW isUDP \in BOOLEAN, WriteNode(ok, isUDP),
             probe.at \in {"tcp", "udp"}, isUDP => probe.at = "udp"
      PROVE  NodeTypes' /\ ProbeInv' /\ UDPOnlyByRace'
  <2>1. /\ probe' = Idle /\ probe'.at = "idle"
        /\ UNCHANGED <<controls, dataDead, udpDataFailed, raced, relays, liveRelays>>
    BY <1>7 DEF WriteNode, Idle, marks, rnodes
  <2>2. probe.addr \in Addrs /\ (probe.cur => probe.addr \in controls)
    BY <1>7, ProbeCases
  <2>3. /\ fresh' \subseteq fresh \/ (probe.cur /\ fresh' = fresh \cup {probe.addr})
        /\ udp' \subseteq udp \/ (probe.cur /\ isUDP /\ udp' = udp \cup {probe.addr})
    BY <1>7 DEF WriteNode
  <2> QED BY <1>7, <2>1, <2>2, <2>3
<1>8. CASE ProbedTCP
  BY <1>7, <1>8, ZenonT(60) DEF ProbedTCP
<1>9. CASE TCPFailed
  <2>1. CASE udpSuppressed
    BY <1>7, <1>9, <2>1, ZenonT(60) DEF TCPFailed
  <2>2. CASE ~udpSuppressed
    <3>1. /\ probe' = [probe EXCEPT !.at = "udp"] /\ probe.at = "tcp"
          /\ UNCHANGED <<controls, fresh, udp, dataDead, udpDataFailed, raced, relays, liveRelays>>
      BY <1>9, <2>2 DEF TCPFailed, nodes, marks, rnodes
    <3>2. probe \in Running
      BY <3>1, ProbeCases
    <3>3. /\ probe' \in Running /\ probe'.at = "udp" /\ probe'.addr = probe.addr
          /\ probe'.cur = probe.cur
      BY <3>1, <3>2 DEF Running
    <3> QED BY <2>2, <3>1, <3>3 DEF udpSuppressed
  <2> QED BY <2>1, <2>2
<1>10. ASSUME NEW ok \in BOOLEAN, ProbedUDP(ok)
       PROVE  NodeTypes' /\ ProbeInv' /\ UDPOnlyByRace'
  BY <1>7, <1>10 DEF ProbedUDP
<1>11. CASE Time
  <2>1. UNCHANGED <<controls, udp, relays, probe>>
    BY <1>11 DEF Time
  <2>2. /\ fresh' \subseteq fresh /\ liveRelays' \subseteq liveRelays
        /\ dataDead' \subseteq dataDead /\ udpDataFailed' \subseteq udpDataFailed
        /\ raced' \subseteq raced /\ raced \cap udpDataFailed' \subseteq raced'
    BY <1>11 DEF Time, Expire
  <2> QED BY <2>1, <2>2
<1>12. CASE BuildPaths \/ Advance \/ Reset \/ UNCHANGED routerVars
  <2>1. UNCHANGED <<controls, fresh, udp, dataDead, udpDataFailed, raced, relays, liveRelays, probe>>
    BY <1>12 DEF BuildPaths, Advance, Reset, routerVars, nodes, marks, rnodes
  <2> QED BY <2>1
<1> QED BY <1>1, <1>2, <1>3, <1>4, <1>5, <1>6, <1>8, <1>9, <1>10, <1>11, <1>12, ZenonT(60)
   DEF RouterNext

\* BuildPaths chooses among the live controls, at least one and at most
\* MaxPaths of them, and only in-country ones when there are enough.
LEMMA BuiltPaths ==
  ASSUME NodeTypes, BuildPaths, Filtered # {}
  PROVE  /\ paths' \subseteq Candidates /\ Cardinality(paths') \in 1..MaxPaths
         /\ pathIdx' = 0 /\ paths' # {}
         /\ Pool' \subseteq alive
         /\ myCountry /\ Cardinality((alive \cap Home) \ udp) >= MinPool => Pool' \subseteq Home
<1>1. PICK pool \in Supplements :
        paths' \in TopPaths([control : pool, relay : LiveRelays \cup {NoRelay}])
  BY DEF BuildPaths
<1>2. pathIdx' = 0
  BY DEF BuildPaths, ResetIdx
<1>3. alive \subseteq Addrs /\ Filtered \subseteq alive /\ OutOfCountry \subseteq alive
  BY DEF alive, Filtered, PreferTCP, OutOfCountry, NodeTypes
<1>4. Filtered \subseteq pool /\ pool \subseteq alive
  BY <1>1, <1>3 DEF Supplements, kSubset
<1> DEFINE C == [control : pool, relay : LiveRelays \cup {NoRelay}]
           k == IF Cardinality(C) < MaxPaths THEN Cardinality(C) ELSE MaxPaths
<1>5. C \subseteq Candidates /\ C # {}
  <2>1. LiveRelays \subseteq Relays /\ pool \subseteq Addrs
    BY <1>3, <1>4 DEF LiveRelays, NodeTypes
  <2>2. PICK c \in pool : TRUE
    BY <1>4
  <2>3. [control |-> c, relay |-> NoRelay] \in C
    OBVIOUS
  <2> QED BY <2>1, <2>3, Zenon DEF Candidates
<1>6. Cardinality(C) \in Nat /\ Cardinality(C) > 0
  BY <1>5, CandidatesFinite, Zenon
<1>7. paths' \subseteq C /\ Cardinality(paths') = k
  BY <1>1 DEF TopPaths, kSubset
<1>8. k \in 1..MaxPaths
  <2> HIDE DEF C
  <2> QED BY <1>6, RouterAssumption
<1>9. paths' # {}
  <2>1. Cardinality(paths') # 0
    BY <1>7, <1>8, RouterAssumption
  <2>2. Cardinality({}) = 0
    BY FS_EmptySet
  <2> QED BY <2>1, <2>2
<1>10. Pool' \subseteq pool
  BY <1>7 DEF Pool
<1>11. ASSUME myCountry, Cardinality((alive \cap Home) \ udp) >= MinPool
       PROVE  pool \subseteq Home
  <2> DEFINE D == (alive \cap Home) \ udp
  <2>1. D # {}
    <3>1. D = {} => Cardinality(D) = 0
      BY FS_EmptySet
    <3> HIDE DEF D
    <3> QED BY <1>11, <3>1, RouterAssumption DEF D
  <2>2. Domestic /\ Filtered = D
    BY <1>11, <2>1 DEF Domestic, Filtered, PreferTCP
  <2>3. IsFiniteSet(D) /\ Cardinality(D) \in Nat
    BY <1>3, RouterAssumption, FS_Subset, FS_CardinalityType
  <2>4. ~(Cardinality(Filtered) < MinPool)
    <3> HIDE DEF D
    <3> QED BY <1>11, <2>2, <2>3, RouterAssumption DEF D
  <2>5. pool = Filtered
    BY <1>1, <2>4 DEF Supplements
  <2> QED BY <2>2, <2>5
<1> QED BY <1>2, <1>4, <1>5, <1>7, <1>8, <1>9, <1>10, <1>11

\* No path when no control passes the filters, and then none is alive.
LEMMA FilteredEmpty ==
  ASSUME Filtered = {}
  PROVE  alive = {}
  BY DEF Filtered, PreferTCP, Domestic

\* The index stays inside the list.
LEMMA PathStep ==
  ASSUME NodeTypes, PathTypes, [RouterNext]_routerVars
  PROVE  PathTypes'
<1>1. IsFiniteSet(paths) /\ Cardinality(paths) \in Nat
  BY CandidatesFinite DEF PathTypes
<1>2. CASE BuildPaths /\ Filtered = {}
  <2>1. paths' = {} /\ pathIdx' = pathIdx
    BY <1>2 DEF BuildPaths
  <2> QED BY <2>1, FS_EmptySet, RouterAssumption DEF PathTypes, IndexInRange
<1>3. CASE BuildPaths /\ Filtered # {}
  <2>1. paths' \subseteq Candidates /\ Cardinality(paths') \in 1..MaxPaths /\ pathIdx' = 0
    BY <1>3, BuiltPaths
  <2> QED BY <2>1, RouterAssumption DEF PathTypes, IndexInRange
<1>4. CASE Advance \/ Reset
  <2>1. paths' = paths /\ (pathIdx' = 0 \/ (pathIdx' = pathIdx + 1 /\ pathIdx + 1 < Cardinality(paths)))
    BY <1>4 DEF Advance, Reset
  <2>2. paths # {} => Cardinality(paths) > 0
    BY <1>1, CandidatesFinite DEF PathTypes
  <2> QED BY <1>1, <2>1, <2>2, RouterAssumption DEF PathTypes, IndexInRange
<1>5. CASE ~(BuildPaths \/ Advance \/ Reset)
  <2>1. UNCHANGED <<paths, pathIdx>>
    BY <1>5 DEF RouterNext, SetControlsWithRegions, UpdateRelays, MergeDHTRelays, MarkRelayAlive,
       MarkControlDataDead, MarkControlAlive, MarkUDPDataFailed, ProbeDataPlane, ProbedTCP,
       TCPFailed, ProbedUDP, WriteNode, Time, route, routerVars
  <2> QED BY <2>1 DEF PathTypes, IndexInRange
<1> QED BY <1>2, <1>3, <1>4, <1>5

\* The router starts with nothing, and every step keeps the invariant.
LEMMA RouterInvariant == RouterSpec => []RouterInv
<1>1. RouterInit => RouterInv
  <2> SUFFICES ASSUME RouterInit PROVE RouterInv
    OBVIOUS
  <2>1. NodeTypes /\ ProbeInv /\ UDPOnlyByRace
    BY DEF RouterInit, NodeTypes, ProbeInv, UDPOnlyByRace, Idle
  <2>2. PathTypes
    BY FS_EmptySet, RouterAssumption DEF RouterInit, PathTypes, IndexInRange
  <2> QED BY <2>1, <2>2 DEF RouterInv
<1>2. RouterInv /\ [RouterNext]_routerVars => RouterInv'
  BY NodeStep, PathStep DEF RouterInv
<1> QED BY <1>1, <1>2, PTL DEF RouterSpec

\* For any controls and lists: a control whose UDP data plane has failed is on
\* UDP again only through a probe that the mark overtook (src/router.go).
THEOREM MarkCorrect == RouterSpec => []UDPOnlyByRace
<1>1. RouterInv => UDPOnlyByRace
  BY DEF RouterInv
<1> QED BY <1>1, RouterInvariant, PTL

\* For any controls, relays and limits: what Primary hands out can be dialed.
THEOREM PathsCorrect == RouterSpec => PathsSound
<1>1. RouterInv => RouterTypeOK /\ IndexInRange
  BY DEF RouterInv, NodeTypes, PathTypes, RouterTypeOK, Candidates, Running
<1>2. RouterInv /\ [RouterNext]_routerVars
        => [Built => Pool' \subseteq controls \ dataDead]_routerVars
  <2> SUFFICES ASSUME RouterInv, RouterNext, Built PROVE Pool' \subseteq controls \ dataDead
    OBVIOUS
  <2>1. BuildPaths
    BY DEF Built, RouterNext, SetControlsWithRegions, UpdateRelays, MergeDHTRelays,
       MarkRelayAlive,
       MarkControlDataDead, MarkControlAlive, MarkUDPDataFailed, ProbeDataPlane, ProbedTCP,
       TCPFailed, ProbedUDP, WriteNode, Time, Advance, Reset, route
  <2>2. CASE Filtered = {}
    BY <2>1, <2>2 DEF BuildPaths, Pool
  <2>3. CASE Filtered # {}
    BY <2>1, <2>3, BuiltPaths DEF RouterInv, ProbeInv, alive
  <2> QED BY <2>2, <2>3
<1> QED BY <1>1, <1>2, RouterInvariant, PTL DEF RouterSpec, PathsSound, PathsUseKnownControls

\* For any controls and limits: the filters of BuildPaths never lose the last
\* live control, and foreign controls never displace enough domestic ones.
THEOREM FiltersCorrect == RouterSpec => FiltersSound
<1>1. RouterInv /\ [RouterNext]_routerVars
        => /\ [Built /\ paths' = {} => alive = {}]_routerVars
           /\ [Built /\ myCountry /\ Cardinality((alive \cap Home) \ udp) >= MinPool
                 => Pool' \subseteq Home]_routerVars
  <2> SUFFICES ASSUME RouterInv, RouterNext, Built
               PROVE  /\ paths' = {} => alive = {}
                      /\ myCountry /\ Cardinality((alive \cap Home) \ udp) >= MinPool
                           => Pool' \subseteq Home
    OBVIOUS
  <2>1. BuildPaths
    BY DEF Built, RouterNext, SetControlsWithRegions, UpdateRelays, MergeDHTRelays,
       MarkRelayAlive,
       MarkControlDataDead, MarkControlAlive, MarkUDPDataFailed, ProbeDataPlane, ProbedTCP,
       TCPFailed, ProbedUDP, WriteNode, Time, Advance, Reset, route
  <2>2. CASE Filtered = {}
    BY <2>1, <2>2, FilteredEmpty DEF BuildPaths, Pool
  <2>3. CASE Filtered # {}
    BY <2>1, <2>3, BuiltPaths DEF RouterInv
  <2> QED BY <2>2, <2>3
<1> QED BY <1>1, RouterInvariant, PTL
        DEF RouterSpec, FiltersSound, EmptyOnlyWhenNoneAlive, HomeFirst

-----------------------------------------------------------------------------
(* The routing table: any peers, bucket size and limits.  The bucket, the  *)
(* list of its peers by when they were seen, the suspects and the pending  *)
(* pings are related to each other at every step, a restart included.      *)

\* A list of different peers, at most n of them.
PeerList(s, n) == s \in Seq(Peers) /\ IsInjective(s) /\ Len(s) <= n

TableInv ==
    /\ PeerList(bucket, BucketSize) /\ PeerList(peersFile, BucketSize)
    /\ seen \in Seq(Peers) /\ IsInjective(seen) /\ Range(seen) = Range(bucket)
    /\ missed \in [Peers -> 0..(MaxMissed - 1)] /\ suspects \subseteq Range(bucket)

\* A pending ping is to a contact that is neither heard of since nor suspect.
PingInv ==
    /\ pendingPings \subseteq timers /\ timers \subseteq Peers /\ heard \subseteq Peers
    /\ pendingPings \cap heard = {} /\ pendingPings \cap suspects = {}

\* No entry was signed after the relay fell silent.
StoreInv ==
    /\ signed \subseteq -Skew..TTL
    /\ entry \in -Skew..None /\ relaysFile \in -Skew..None /\ silent \in -Skew..None
    /\ \A a \in signed : silent <= a + Skew
    /\ silent <= entry + Skew /\ silent <= relaysFile + Skew

DhtInv == TableInv /\ PingInv /\ StoreInv

\* The part of a list from the a-th to the b-th peer.
LEMMA PartOfList ==
  ASSUME NEW s \in Seq(Peers), NEW a \in Nat \ {0}, NEW b \in Nat, b <= Len(s), a <= b + 1
  PROVE  /\ SubSeq(s, a, b) \in Seq(Peers) /\ Len(SubSeq(s, a, b)) = b + 1 - a
         /\ \A k \in 1..(b + 1 - a) : SubSeq(s, a, b)[k] = s[a + k - 1]
<1>1. \A k \in a..b : s[k] \in Peers
  OBVIOUS
<1>2. /\ SubSeq(s, a, b) \in Seq(Peers)
      /\ Len(SubSeq(s, a, b)) = IF a <= b THEN b - a + 1 ELSE 0
      /\ \A k \in 1..(b - a + 1) : SubSeq(s, a, b)[k] = s[a + k - 1]
  BY <1>1, Z3
<1>3. b - a + 1 = b + 1 - a /\ (a <= b \/ b + 1 - a = 0)
  OBVIOUS
<1> QED BY <1>2, <1>3

\* Two lists, one behind the other.
LEMMA JoinedLists ==
  ASSUME NEW s \in Seq(Peers), NEW r \in Seq(Peers)
  PROVE  /\ s \o r \in Seq(Peers) /\ Len(s \o r) = Len(s) + Len(r)
         /\ \A k \in 1..Len(s) : (s \o r)[k] = s[k]
         /\ \A k \in 1..Len(r) : (s \o r)[Len(s) + k] = r[k]
<1>1. Len(s) \in Nat /\ Len(r) \in Nat
  OBVIOUS
<1>2. /\ s \o r \in Seq(Peers) /\ Len(s \o r) = Len(s) + Len(r)
      /\ \A k \in 1..(Len(s) + Len(r)) : (s \o r)[k] = IF k <= Len(s) THEN s[k] ELSE r[k - Len(s)]
  OBVIOUS
<1>3. ASSUME NEW k \in 1..Len(r) PROVE (s \o r)[Len(s) + k] = r[k]
  <2>1. Len(s) + k \in 1..(Len(s) + Len(r)) /\ ~(Len(s) + k <= Len(s)) /\ (Len(s) + k) - Len(s) = k
    BY <1>1
  <2> QED BY <1>2, <2>1
<1> QED BY <1>1, <1>2, <1>3

\* A list without one of its peers.
LEMMA WithoutList ==
  ASSUME NEW s \in Seq(Peers), IsInjective(s), NEW p
  PROVE  /\ Without(s, p) \in Seq(Peers) /\ IsInjective(Without(s, p))
         /\ Range(Without(s, p)) = Range(s) \ {p} /\ Len(Without(s, p)) <= Len(s)
<1>1. CASE p \notin Range(s)
  BY <1>1 DEF Without
<1>2. CASE p \in Range(s)
  <2> DEFINE i == CHOOSE j \in DOMAIN s : s[j] = p
             a == SubSeq(s, 1, i - 1)
             b == SubSeq(s, i + 1, Len(s))
             t == a \o b
             at(k) == IF k < i THEN k ELSE k + 1
  <2>1. i \in DOMAIN s /\ s[i] = p
    BY <1>2 DEF Range
  <2>2. i \in 1..Len(s) /\ s[i] = p /\ DOMAIN s = 1..Len(s) /\ Len(s) \in Nat
    BY <2>1
  <2>3. Without(s, p) = t
    BY <1>2, Zenon DEF Without
  <2> HIDE DEF i
  <2>4. PICK n \in Nat : n = Len(s) /\ i \in 1..n
    BY <2>2, ZenonT(60)
  <2>5. a \in Seq(Peers) /\ Len(a) = i - 1 /\ \A k \in 1..(i - 1) : a[k] = s[k]
    <3>1. i - 1 \in Nat /\ i - 1 <= Len(s) /\ 1 <= (i - 1) + 1 /\ (i - 1) + 1 - 1 = i - 1
          /\ \A k \in 1..(i - 1) : 1 + k - 1 = k
      BY <2>2
    <3>2. /\ a \in Seq(Peers) /\ Len(a) = (i - 1) + 1 - 1
          /\ \A k \in 1..((i - 1) + 1 - 1) : a[k] = s[1 + k - 1]
      BY <3>1, PartOfList
    <3> HIDE DEF a
    <3> QED BY <3>1, <3>2
  <2>6. b \in Seq(Peers) /\ Len(b) = Len(s) - i /\ \A k \in 1..(Len(s) - i) : b[k] = s[k + i]
    <3>1. i + 1 \in Nat \ {0} /\ i + 1 <= Len(s) + 1 /\ Len(s) + 1 - (i + 1) = Len(s) - i
      <4>1. i + 1 \in Nat \ {0} /\ i + 1 <= n + 1 /\ n + 1 - (i + 1) = n - i
        BY <2>4
      <4> QED BY <2>4, <4>1
    <3>3. ASSUME NEW k \in 1..(Len(s) - i) PROVE (i + 1) + k - 1 = k + i
      BY <2>2
    <3>2. /\ b \in Seq(Peers) /\ Len(b) = Len(s) + 1 - (i + 1)
          /\ \A k \in 1..(Len(s) + 1 - (i + 1)) : b[k] = s[(i + 1) + k - 1]
      BY <2>2, <3>1, PartOfList
    <3> HIDE DEF b
    <3> QED BY <3>1, <3>2, <3>3
  <2> HIDE DEF a, b
  <2>7. /\ t \in Seq(Peers) /\ Len(t) = Len(s) - 1
        /\ \A k \in 1..Len(a) : t[k] = a[k]
        /\ \A k \in 1..Len(b) : t[Len(a) + k] = b[k]
    <3>1. Len(t) = Len(a) + Len(b)
      BY <2>5, <2>6, JoinedLists
    <3>2. Len(t) = Len(s) - 1
      BY <2>2, <2>5, <2>6, <3>1
    <3> QED BY <2>5, <2>6, <3>2, JoinedLists, ZenonT(60)
  <2>8. ASSUME NEW k \in 1..(Len(s) - 1)
        PROVE  t[k] = s[at(k)] /\ at(k) \in 1..Len(s) /\ at(k) # i
    <3>1. CASE k < i
      <4>1. k \in 1..Len(a) /\ k \in 1..(i - 1) /\ k \in 1..Len(s) /\ k # i
        BY <2>2, <2>5, <3>1
      <4> QED BY <2>7, <2>5, <3>1, <4>1
    <3>2. CASE ~(k < i)
      <4> DEFINE l == k - (i - 1)
      <4>1. /\ l \in 1..Len(b) /\ l \in 1..(Len(s) - i) /\ Len(a) + l = k /\ l + i = k + 1
            /\ k + 1 \in 1..Len(s) /\ k + 1 # i
        BY <2>2, <2>5, <2>6, <3>2
      <4> HIDE DEF l
      <4>2. t[Len(a) + l] = b[l] /\ b[l] = s[l + i]
        BY <2>7, <2>6, <4>1
      <4> QED BY <3>2, <4>1, <4>2
    <3> QED BY <3>1, <3>2, ZenonT(60)
  <2> HIDE DEF t
  <2>9. DOMAIN t = 1..(Len(s) - 1)
    BY <2>7
  <2>10. IsInjective(t)
    <3> SUFFICES ASSUME NEW k \in 1..(Len(s) - 1), NEW l \in 1..(Len(s) - 1), t[k] = t[l]
                 PROVE  k = l
      BY <2>9, ZenonT(60) DEF IsInjective
    <3>1. at(k) \in DOMAIN s /\ at(l) \in DOMAIN s /\ s[at(k)] = s[at(l)]
      BY <2>2, <2>8
    <3>2. at(k) = at(l)
      BY <3>1, Zenon DEF IsInjective
    <3> QED BY <2>2, <3>2
  <2>11. \A k \in DOMAIN t : t[k] \in Range(s) \ {p}
    <3> SUFFICES ASSUME NEW k \in 1..(Len(s) - 1)
                 PROVE  t[k] \in Range(s) /\ t[k] # p
      BY <2>9, ZenonT(60)
    <3>1. t[k] = s[at(k)] /\ at(k) \in DOMAIN s /\ at(k) # i
      BY <2>2, <2>8
    <3> HIDE DEF at
    <3> QED BY <2>1, <3>1, Zenon DEF Range, IsInjective
  <2>12. \A m \in DOMAIN s : m # i => s[m] \in Range(t)
    <3> SUFFICES ASSUME NEW m \in 1..Len(s), m # i PROVE s[m] \in Range(t)
      BY <2>2, Zenon
    <3>1. CASE m < i
      <4>1. m \in 1..(Len(s) - 1) /\ at(m) = m
        BY <2>2, <3>1
      <4>2. t[m] = s[m]
        BY <2>8, <4>1
      <4> QED BY <2>9, <4>1, <4>2, Zenon DEF Range
    <3>2. CASE m > i
      <4>1. m - 1 \in 1..(Len(s) - 1) /\ at(m - 1) = m
        BY <2>2, <3>2
      <4>2. t[m - 1] = s[m]
        BY <2>8, <4>1
      <4> QED BY <2>9, <4>1, <4>2, ZenonT(60) DEF Range
    <3> QED BY <2>2, <3>1, <3>2
  <2>13. Range(t) = Range(s) \ {p}
    <3>1. Range(t) \subseteq Range(s) \ {p}
      BY <2>11, Zenon DEF Range
    <3>2. Range(s) \ {p} \subseteq Range(t)
      <4> SUFFICES ASSUME NEW m \in DOMAIN s, s[m] # p PROVE s[m] \in Range(t)
        BY Zenon DEF Range
      <4> QED BY <2>1, <2>12, Zenon
    <3> QED BY <3>1, <3>2
  <2> QED BY <2>2, <2>3, <2>7, <2>10, <2>13
<1> QED BY <1>1, <1>2

\* A peer at the end of a list that does not have it.
LEMMA AppendList ==
  ASSUME NEW s \in Seq(Peers), IsInjective(s), NEW p \in Peers, p \notin Range(s)
  PROVE  /\ Append(s, p) \in Seq(Peers) /\ IsInjective(Append(s, p))
         /\ Range(Append(s, p)) = Range(s) \cup {p} /\ Len(Append(s, p)) = Len(s) + 1
<1> DEFINE t == Append(s, p)
<1>1. /\ t \in Seq(Peers) /\ Len(t) = Len(s) + 1 /\ t[Len(s) + 1] = p /\ Len(s) \in Nat
      /\ \A i \in 1..Len(s) : t[i] = s[i]
  OBVIOUS
<1> HIDE DEF t
<1>2. /\ DOMAIN s = 1..Len(s) /\ DOMAIN t = 1..(Len(s) + 1)
      /\ Len(s) + 1 \in DOMAIN t /\ DOMAIN s \subseteq DOMAIN t
      /\ \A i \in DOMAIN t : i \in DOMAIN s \/ i = Len(s) + 1
  BY <1>1
<1>3. \A i \in DOMAIN s : s[i] # p /\ t[i] = s[i]
  BY <1>1, <1>2, Zenon DEF Range
<1>4. IsInjective(t)
  BY <1>1, <1>2, <1>3, Zenon DEF IsInjective
<1>5. Range(t) = Range(s) \cup {p}
  <2>1. Range(t) \subseteq Range(s) \cup {p}
    BY <1>1, <1>2, <1>3, ZenonT(60) DEF Range
  <2>2. Range(s) \cup {p} \subseteq Range(t)
    BY <1>1, <1>2, <1>3 DEF Range
  <2> QED BY <2>1, <2>2
<1> QED BY <1>1, <1>4, <1>5 DEF t

\* A list without its first peer.
LEMMA TailList ==
  ASSUME NEW s \in Seq(Peers), IsInjective(s), s # <<>>
  PROVE  /\ Tail(s) \in Seq(Peers) /\ IsInjective(Tail(s)) /\ Head(s) \in Range(s)
         /\ Range(Tail(s)) = Range(s) \ {Head(s)} /\ Len(Tail(s)) = Len(s) - 1
<1> DEFINE t == Tail(s)
<1>1. /\ t \in Seq(Peers) /\ Len(t) = Len(s) - 1 /\ Len(s) \in Nat \ {0} /\ Head(s) = s[1]
      /\ \A i \in 1..(Len(s) - 1) : t[i] = s[i + 1]
  OBVIOUS
<1> HIDE DEF t
<1>2. /\ DOMAIN s = 1..Len(s) /\ DOMAIN t = 1..(Len(s) - 1) /\ 1 \in DOMAIN s
      /\ \A i \in DOMAIN t : i + 1 \in DOMAIN s /\ i + 1 # 1 /\ t[i] = s[i + 1]
      /\ \A i, j \in DOMAIN t : i + 1 = j + 1 => i = j
  BY <1>1
<1>3. \A m \in DOMAIN s : m = 1 \/ (m - 1 \in DOMAIN t /\ t[m - 1] = s[m])
  <2> SUFFICES ASSUME NEW m \in 1..Len(s), m # 1 PROVE m - 1 \in DOMAIN t /\ t[m - 1] = s[m]
    BY <1>2, Zenon
  <2>1. m - 1 \in 1..(Len(s) - 1) /\ (m - 1) + 1 = m
    BY <1>1
  <2>2. t[m - 1] = s[(m - 1) + 1]
    BY <1>1, <2>1
  <2> QED BY <1>2, <2>1, <2>2
<1>4. IsInjective(t)
  BY <1>2, Zenon DEF IsInjective
<1>5. Range(t) = Range(s) \ {Head(s)}
  <2>1. \A i \in DOMAIN t : t[i] \in Range(s) /\ t[i] # s[1]
    BY <1>2, Zenon DEF Range, IsInjective
  <2>2. Range(t) \subseteq Range(s) \ {Head(s)}
    BY <1>1, <2>1, ZenonT(60) DEF Range
  <2>3. Range(s) \ {Head(s)} \subseteq Range(t)
    <3> SUFFICES ASSUME NEW m \in DOMAIN s, s[m] # s[1] PROVE s[m] \in Range(t)
      BY <1>1, ZenonT(60) DEF Range
    <3> QED BY <1>3, Zenon DEF Range
  <2> QED BY <2>2, <2>3
<1>6. Head(s) \in Range(s)
  BY <1>1, <1>2, Zenon DEF Range
<1> QED BY <1>1, <1>4, <1>5, <1>6 DEF t

\* Adding a contact keeps the bucket and the order of LastSeen in step.
LEMMA AddList ==
  ASSUME NEW b, PeerList(b, BucketSize), NEW s \in Seq(Peers), IsInjective(s), Range(s) = Range(b),
         NEW p \in Peers
  PROVE  /\ PeerList(Add(b, p), BucketSize)
         /\ See(b, s, p) \in Seq(Peers) /\ IsInjective(See(b, s, p))
         /\ Range(See(b, s, p)) = Range(Add(b, p))
<1> USE DhtAssumption
<1>1. b \in Seq(Peers) /\ IsInjective(b) /\ Len(b) <= BucketSize /\ Len(b) \in Nat
  BY DEF PeerList
<1>2. CASE p \in Range(b)
  <2>1. Add(b, p) = b /\ See(b, s, p) = Append(Without(s, p), p)
    BY <1>2 DEF Add, See, Evicts
  <2>2. /\ Without(s, p) \in Seq(Peers) /\ IsInjective(Without(s, p))
        /\ Range(Without(s, p)) = Range(s) \ {p}
    BY WithoutList
  <2>3. /\ Append(Without(s, p), p) \in Seq(Peers) /\ IsInjective(Append(Without(s, p), p))
        /\ Range(Append(Without(s, p), p)) = Range(Without(s, p)) \cup {p}
    BY <2>2, AppendList
  <2> QED BY <1>2, <2>1, <2>2, <2>3
<1>3. CASE p \notin Range(b) /\ Len(b) < BucketSize
  <2>1. Add(b, p) = Append(b, p) /\ See(b, s, p) = Append(Without(s, p), p)
    BY <1>1, <1>3 DEF Add, See, Evicts
  <2>2. /\ Without(s, p) \in Seq(Peers) /\ IsInjective(Without(s, p))
        /\ Range(Without(s, p)) = Range(s) \ {p}
    BY WithoutList
  <2>3. /\ Append(Without(s, p), p) \in Seq(Peers) /\ IsInjective(Append(Without(s, p), p))
        /\ Range(Append(Without(s, p), p)) = Range(Without(s, p)) \cup {p}
    BY <2>2, AppendList
  <2>4. /\ Append(b, p) \in Seq(Peers) /\ IsInjective(Append(b, p))
        /\ Range(Append(b, p)) = Range(b) \cup {p} /\ Len(Append(b, p)) = Len(b) + 1
    BY <1>1, <1>3, AppendList
  <2>5. Len(Append(b, p)) <= BucketSize
    BY <1>1, <1>3, <2>4
  <2> QED BY <1>3, <2>1, <2>2, <2>3, <2>4, <2>5 DEF PeerList
<1>4. CASE p \notin Range(b) /\ Len(b) >= BucketSize
  <2> DEFINE h == Head(b)
             c == Tail(b)
             u == Without(s, h)
             v == Without(u, p)
  <2>1. Add(b, p) = Append(c, p) /\ See(b, s, p) = Append(v, p)
    BY <1>1, <1>4 DEF Add, See, Evicts
  <2>2. b # <<>>
    BY <1>1, <1>4
  <2>3. /\ c \in Seq(Peers) /\ IsInjective(c) /\ h \in Range(b)
        /\ Range(c) = Range(b) \ {h} /\ Len(c) = Len(b) - 1
    BY <1>1, <2>2, TailList
  <2>4. u \in Seq(Peers) /\ IsInjective(u) /\ Range(u) = Range(s) \ {h}
    BY WithoutList
  <2> HIDE DEF u
  <2>5. v \in Seq(Peers) /\ IsInjective(v) /\ Range(v) = Range(u) \ {p}
    BY <2>4, WithoutList
  <2> HIDE DEF v, c, h
  <2>6. Append(v, p) \in Seq(Peers) /\ IsInjective(Append(v, p))
        /\ Range(Append(v, p)) = Range(v) \cup {p}
    BY <2>5, AppendList
  <2>7. /\ Append(c, p) \in Seq(Peers) /\ IsInjective(Append(c, p))
        /\ Range(Append(c, p)) = Range(c) \cup {p} /\ Len(Append(c, p)) = Len(c) + 1
    BY <1>4, <2>3, AppendList
  <2>8. Len(Append(c, p)) <= BucketSize
    BY <1>1, <2>3, <2>7
  <2>9. Range(Append(v, p)) = Range(Append(c, p))
    BY <1>4, <2>3, <2>4, <2>5, <2>6, <2>7
  <2> QED BY <2>1, <2>6, <2>7, <2>8, <2>9 DEF PeerList
<1> QED BY <1>1, <1>2, <1>3, <1>4

\* Keep forgets misses and suspicions and adds none.
LEMMA KeepTypes ==
  ASSUME NEW S, Keep(S), missed \in [Peers -> 0..(MaxMissed - 1)]
  PROVE  missed' \in [Peers -> 0..(MaxMissed - 1)] /\ suspects' = suspects \cap S
  BY DhtAssumption DEF Keep

\* Messages, pings, timeouts and restarts keep the routing table sound.
LEMMA TableStep ==
  ASSUME TableInv, PingInv, [DhtNext]_dhtvars
  PROVE  TableInv'
<1> USE DhtAssumption
<1>1. ASSUME NEW p \in Peers, handleFindNode(p) PROVE TableInv'
  <2>1. /\ bucket' = Add(bucket, p) /\ seen' = See(bucket, seen, p) /\ Keep(Range(bucket') \ {p})
        /\ peersFile' = peersFile
    BY <1>1 DEF handleFindNode
  <2>2. /\ PeerList(bucket', BucketSize) /\ seen' \in Seq(Peers) /\ IsInjective(seen')
        /\ Range(seen') = Range(bucket')
    BY <2>1, AddList DEF TableInv
  <2>3. missed' \in [Peers -> 0..(MaxMissed - 1)] /\ suspects' = suspects \cap (Range(bucket') \ {p})
    BY <2>1, KeepTypes, ZenonT(60) DEF TableInv
  <2> QED BY <2>1, <2>2, <2>3 DEF TableInv
<1>2. ASSUME NEW p \in Peers, handleNodes(p) PROVE TableInv'
  <2>1. PICK q \in Peers \ {p} :
          /\ bucket' = Add(Add(bucket, p), q)
          /\ seen' = See(Add(bucket, p), See(bucket, seen, p), q)
          /\ Keep(Range(bucket') \ {p, q})
    BY <1>2 DEF handleNodes
  <2>2. /\ PeerList(Add(bucket, p), BucketSize)
        /\ See(bucket, seen, p) \in Seq(Peers) /\ IsInjective(See(bucket, seen, p))
        /\ Range(See(bucket, seen, p)) = Range(Add(bucket, p))
    BY AddList DEF TableInv
  <2>3. /\ PeerList(bucket', BucketSize) /\ seen' \in Seq(Peers) /\ IsInjective(seen')
        /\ Range(seen') = Range(bucket')
    BY <2>1, <2>2, AddList
  <2>4. missed' \in [Peers -> 0..(MaxMissed - 1)] /\ suspects' = suspects \cap (Range(bucket') \ {p, q})
    BY <2>1, KeepTypes, ZenonT(60) DEF TableInv
  <2>5. peersFile' = peersFile
    BY <1>2 DEF handleNodes
  <2> QED BY <2>3, <2>4, <2>5 DEF TableInv
<1>3. ASSUME NEW p \in Peers, Heard(p) PROVE TableInv'
  <2>1. UNCHANGED <<bucket, seen, peersFile>>
    BY <1>3 DEF Heard
  <2>2. CASE p \in pendingPings
    <3>1. missed' \in [Peers -> 0..(MaxMissed - 1)] /\ suspects' = suspects \cap (Peers \ {p})
      BY <1>3, <2>2, KeepTypes, ZenonT(60) DEF TableInv, Heard, resetMissed
    <3> QED BY <2>1, <3>1 DEF TableInv
  <2>3. CASE p \notin pendingPings
    BY <1>3, <2>1, <2>3 DEF TableInv, Heard
  <2> QED BY <2>2, <2>3
<1>4. ASSUME NEW p \in Peers, PingTimeout(p) PROVE TableInv'
  <2>1. CASE markMissed(p) /\ p \in Known /\ missed[p] + 1 >= MaxMissed
    <3>1. /\ bucket' = Without(bucket, p) /\ seen' = Without(seen, p) /\ Keep(Known \ {p})
          /\ peersFile' = peersFile
      BY <1>4, <2>1 DEF markMissed, PingTimeout
    <3>2. /\ bucket' \in Seq(Peers) /\ IsInjective(bucket') /\ Range(bucket') = Range(bucket) \ {p}
          /\ Len(bucket') <= Len(bucket)
      BY <3>1, WithoutList DEF TableInv, PeerList
    <3>3. seen' \in Seq(Peers) /\ IsInjective(seen') /\ Range(seen') = Range(seen) \ {p}
      BY <3>1, WithoutList DEF TableInv
    <3>4. Len(bucket') <= BucketSize
      <4>1. Len(bucket) \in Nat /\ Len(bucket') \in Nat /\ Len(bucket) <= BucketSize
        BY <3>2 DEF TableInv, PeerList
      <4> QED BY <3>2, <4>1
    <3>5. missed' \in [Peers -> 0..(MaxMissed - 1)] /\ suspects' = suspects \cap (Known \ {p})
      BY <3>1, KeepTypes, ZenonT(60) DEF TableInv
    <3> QED BY <3>1, <3>2, <3>3, <3>4, <3>5, ZenonT(60) DEF TableInv, PeerList, Known
  <2>2. CASE markMissed(p) /\ p \in Known /\ ~(missed[p] + 1 >= MaxMissed)
    <3>1. /\ missed' = [missed EXCEPT ![p] = @ + 1] /\ suspects' = suspects \cup {p}
          /\ UNCHANGED <<bucket, seen, peersFile>>
      BY <1>4, <2>2 DEF markMissed, PingTimeout
    <3>2. missed[p] \in 0..(MaxMissed - 1) /\ missed[p] + 1 \in 0..(MaxMissed - 1)
      BY <2>2 DEF TableInv
    <3>3. missed' \in [Peers -> 0..(MaxMissed - 1)]
      BY <3>1, <3>2 DEF TableInv
    <3> QED BY <2>2, <3>1, <3>3 DEF TableInv, Known
  <2>3. CASE UNCHANGED routing
    BY <1>4, <2>3 DEF TableInv, routing, PingTimeout
  <2> QED BY <1>4, <2>1, <2>2, <2>3 DEF PingTimeout, markMissed
<1>5. CASE Restart
  <2>1. PeerList(peersFile', BucketSize)
    <3>1. PeerList(<<>>, BucketSize)
      BY DEF PeerList, IsInjective
    <3> QED BY <1>5, <3>1 DEF Restart, TableInv
  <2>2. bucket' = peersFile' /\ seen' = peersFile' /\ Keep({})
    BY <1>5 DEF Restart
  <2>3. missed' \in [Peers -> 0..(MaxMissed - 1)] /\ suspects' = suspects \cap {}
    BY <2>2, KeepTypes, ZenonT(60) DEF TableInv
  <2> QED BY <2>1, <2>2, <2>3 DEF TableInv, PeerList
<1>6. CASE savePeers
  BY <1>6 DEF savePeers, routing, TableInv
<1>7. CASE pingStale \/ reprobeSuspects \/ announce \/ DhtTick \/ SaveRelays \/ UNCHANGED dhtvars
  <2>1. UNCHANGED <<bucket, missed, suspects, seen, peersFile>>
    BY <1>7 DEF pingStale, reprobeSuspects, pingAddr, announce, DhtTick, SaveRelays,
       dhtvars,
       routing
  <2> QED BY <2>1 DEF TableInv
<1> QED BY <1>1, <1>2, <1>3, <1>4, <1>5, <1>6, <1>7
   DEF DhtNext, handlePing, handleAnnounce

\* Answers and timeouts keep pending pings apart from what was heard and from
\* the suspects.
LEMMA PingStep ==
  ASSUME TableInv, PingInv, [DhtNext]_dhtvars
  PROVE  PingInv'
<1>1. ASSUME NEW p \in Peers, handleFindNode(p) \/ handleNodes(p) \/ Heard(p) PROVE PingInv'
  <2>1. /\ heard' = heard \cup {p} /\ pendingPings' = pendingPings \ {p} /\ timers' = timers
    BY <1>1 DEF handleFindNode, handleNodes, Heard, clearSuspectByAddr, resetPending
  <2>2. suspects' \subseteq suspects
    BY <1>1 DEF handleFindNode, handleNodes, Heard, resetMissed, Keep
  <2> QED BY <2>1, <2>2 DEF PingInv
<1>2. ASSUME NEW p \in Peers, PingTimeout(p) PROVE PingInv'
  <2>1. timers' = timers \ {p} /\ pendingPings' = pendingPings \ {p} /\ heard' = heard
    BY <1>2 DEF PingTimeout
  <2>2. suspects' \subseteq suspects \cup {p}
    BY <1>2 DEF PingTimeout, markMissed, Keep, routing
  <2> QED BY <2>1, <2>2 DEF PingInv
<1>3. CASE pingStale \/ reprobeSuspects
  <2>1. PICK S : /\ pendingPings' = pendingPings \cup (S \cap Pingable)
                 /\ timers' = timers \cup (S \cap Pingable)
                 /\ heard' = heard \ (S \cap Pingable)
                 /\ suspects' = suspects
    BY <1>3 DEF pingStale, reprobeSuspects, pingAddr, routing
  <2>2. Pingable \subseteq Peers /\ Pingable \cap suspects = {}
    BY DEF Pingable, Known, TableInv, PeerList, Range
  <2> QED BY <2>1, <2>2 DEF PingInv
<1>4. CASE Restart
  BY <1>4 DEF Restart, PingInv, Keep
<1>5. CASE announce \/ DhtTick \/ savePeers \/ SaveRelays \/ UNCHANGED dhtvars
  <2>1. UNCHANGED <<pendingPings, timers, heard, suspects>>
    BY <1>5 DEF announce, DhtTick, savePeers, SaveRelays, dhtvars, pings, routing
  <2> QED BY <2>1 DEF PingInv
<1> QED BY <1>1, <1>2, <1>3, <1>4, <1>5 DEF DhtNext, handlePing, handleAnnounce

\* However entries travel, none is newer than the relay's silence.
LEMMA StoreStep ==
  ASSUME StoreInv, [DhtNext]_dhtvars
  PROVE  StoreInv'
<1> USE DhtAssumption DEF None
<1>1. CASE announce
  <2>1. PICK s \in -Skew..Skew : signed' = signed \cup {s}
    BY <1>1 DEF announce
  <2>2. silent' = 0 /\ UNCHANGED <<entry, relaysFile>>
    BY <1>1 DEF announce
  <2> QED BY <2>1, <2>2 DEF StoreInv
<1>2. CASE DhtTick
  <2>1. /\ signed' = {Older(a) : a \in {b \in signed : b < TTL}}
        /\ entry' = Older(entry) /\ relaysFile' = Older(relaysFile) /\ silent' = Older(silent)
    BY <1>2 DEF DhtTick
  <2>2. ASSUME NEW a \in -Skew..None, silent <= a + Skew
        PROVE  Older(a) \in -Skew..None /\ Older(silent) <= Older(a) + Skew
    BY <2>2 DEF Older, StoreInv
  <2>3. entry' \in -Skew..None /\ relaysFile' \in -Skew..None /\ silent' \in -Skew..None
    BY <2>1 DEF Older, StoreInv
  <2>4. silent' <= entry' + Skew /\ silent' <= relaysFile' + Skew
    BY <2>1, <2>2 DEF StoreInv
  <2>5. ASSUME NEW a \in signed'
        PROVE  a \in -Skew..TTL /\ silent' <= a + Skew
    <3>1. PICK b \in signed : b < TTL /\ a = Older(b)
      BY <2>1
    <3>2. b \in -Skew..TTL /\ silent <= b + Skew
      BY DEF StoreInv
    <3>3. a = b + 1
      BY <3>1, <3>2 DEF Older
    <3>4. b \in -Skew..None /\ a \in -Skew..TTL
      BY <3>1, <3>2, <3>3
    <3> QED BY <2>1, <2>2, <3>1, <3>2, <3>4
  <2> QED BY <2>3, <2>4, <2>5, ZenonT(60) DEF StoreInv
<1>3. ASSUME NEW p \in Peers, handleAnnounce(p) PROVE StoreInv'
  <2>1. PICK age \in signed : StoreEntry(age)
    BY <1>3 DEF handleAnnounce
  <2>2. UNCHANGED <<signed, relaysFile, silent>>
    BY <1>3 DEF handleAnnounce
  <2> QED BY <2>1, <2>2 DEF StoreEntry, Stamp, StoreInv
<1>4. CASE SaveRelays
  BY <1>4 DEF SaveRelays, StoreInv
<1>5. CASE Restart
  <2>1. relaysFile' = relaysFile \/ relaysFile' = None
    BY <1>5 DEF Restart
  <2>2. entry' = (IF relaysFile' <= TTL THEN relaysFile' ELSE None) /\ UNCHANGED <<signed, silent>>
    BY <1>5 DEF Restart
  <2> QED BY <2>1, <2>2 DEF StoreInv
<1>6. CASE pingStale \/ reprobeSuspects \/ savePeers \/ UNCHANGED dhtvars
           \/ \E p \in Peers : handleFindNode(p) \/ handleNodes(p) \/ handlePing(p) \/ PingTimeout(p)
  <2>1. UNCHANGED <<signed, entry, relaysFile, silent>>
    BY <1>6, Zenon DEF pingStale, reprobeSuspects, pingAddr, savePeers, dhtvars, handleFindNode,
       handleNodes,
       handlePing, PingTimeout, store
  <2> QED BY <2>1 DEF StoreInv
<1> QED BY <1>1, <1>2, <1>3, <1>4, <1>5, <1>6 DEF DhtNext

\* The invariant holds from the empty tables on.
LEMMA DhtInvariant == DhtSpec => []DhtInv
<1>1. DhtInit => DhtInv
  <2> SUFFICES ASSUME DhtInit PROVE DhtInv
    OBVIOUS
  <2>1. TableInv
    <3>1. <<>> \in Seq(Peers) /\ IsInjective(<<>>) /\ Len(<<>>) <= BucketSize
      BY DhtAssumption DEF IsInjective
    <3>2. missed \in [Peers -> 0..(MaxMissed - 1)]
      BY DhtAssumption DEF DhtInit
    <3> QED BY <3>1, <3>2 DEF DhtInit, TableInv, PeerList
  <2>2. PingInv
    BY DEF DhtInit, PingInv
  <2>3. StoreInv
    BY DhtAssumption DEF DhtInit, StoreInv, None
  <2> QED BY <2>1, <2>2, <2>3 DEF DhtInv
<1>2. DhtInv /\ [DhtNext]_dhtvars => DhtInv'
  BY TableStep, PingStep, StoreStep DEF DhtInv
<1> QED BY <1>1, <1>2, PTL DEF DhtSpec

\* For any peers, bucket size and number of misses: the routing table stays
\* within its size and without duplicates, and every pending ping has its
\* timeout (src/dht/dht.go, src/dht/dht_node.go).
THEOREM NodeCorrect == DhtSpec => []NodeSound
<1>1. DhtInv => NodeSound
  BY DEF DhtInv, TableInv, PingInv, StoreInv, PeerList, NodeSound, DhtTypeOK,
     PendingHasTimer, Known
<1> QED BY <1>1, DhtInvariant, PTL

\* For any TTL and clock error: a relay that is served has signed an entry
\* within RelayTTL and its clock's error (relayStore in src/dht/dht_node.go).
THEOREM ServedCorrect == DhtSpec => []ServedIsRecent
<1>1. DhtInv => ServedIsRecent
  BY DhtAssumption DEF DhtInv, StoreInv, ServedIsRecent, Served, None
<1> QED BY <1>1, DhtInvariant, PTL

\* For any peers: a contact becomes suspect only for silence, and only being
\* added again or a restart clears it.
THEOREM SuspicionCorrect == DhtSpec => SuspicionSound
<1>1. DhtInv /\ [DhtNext]_dhtvars
        => [\A p \in Peers : p \in suspects' \ suspects => p \notin heard]_dhtvars
  <2> SUFFICES ASSUME DhtInv, DhtNext, NEW p \in Peers, p \in suspects' \ suspects
               PROVE  p \notin heard
    OBVIOUS
  <2>1. PICK q \in Peers : PingTimeout(q)
    BY ZenonT(60) DEF DhtNext, pingStale, reprobeSuspects, pingAddr, announce, DhtTick, savePeers,
       SaveRelays,
       Restart, handleFindNode, handleNodes, handlePing, handleAnnounce, Heard, resetMissed, Keep,
       routing
  <2>2. q \in pendingPings /\ p = q
    BY <2>1 DEF PingTimeout, markMissed, Keep, routing
  <2> QED BY <2>2 DEF DhtInv, PingInv
<1>2. DhtInv /\ [DhtNext]_dhtvars
        => [\A p \in suspects : p \in suspects' \/ Restart
                               \/ \E q \in Peers : handleFindNode(q) \/ handleNodes(q)]_dhtvars
  <2> SUFFICES ASSUME DhtInv, DhtNext, NEW p \in suspects, ~Restart,
                      \A q \in Peers : ~(handleFindNode(q) \/ handleNodes(q))
               PROVE  p \in suspects'
    OBVIOUS
  <2>1. p \in Range(bucket) /\ p \in Peers /\ p \notin pendingPings
    <3>1. p \in Range(bucket) /\ p \notin pendingPings
      BY DEF DhtInv, TableInv, PingInv
    <3>2. PeerList(bucket, BucketSize)
      BY DEF DhtInv, TableInv
    <3>3. Range(bucket) \subseteq Peers
      BY <3>2 DEF PeerList, Range
    <3> QED BY <3>1, <3>3
  <2>2. ASSUME NEW q \in Peers, Heard(q) PROVE p \in suspects'
    <3>1. CASE q \in pendingPings
      BY <2>1, <2>2, <3>1 DEF Heard, resetMissed, Keep
    <3>2. CASE q \notin pendingPings
      BY <2>2, <3>2 DEF Heard
    <3> QED BY <3>1, <3>2
  <2>3. ASSUME NEW q \in Peers, PingTimeout(q) PROVE p \in suspects'
    <3>1. CASE q \in pendingPings
      <4>1. p # q
        BY <2>1, <3>1
      <4> QED BY <2>1, <2>3, <3>1, <4>1
         DEF PingTimeout, markMissed, Keep, routing, Known
    <3>2. CASE q \notin pendingPings
      BY <2>3, <3>2 DEF PingTimeout, routing
    <3> QED BY <3>1, <3>2
  <2>4. CASE pingStale \/ reprobeSuspects \/ announce \/ DhtTick \/ savePeers \/ SaveRelays
    BY <2>4 DEF pingStale, reprobeSuspects, pingAddr, announce, DhtTick, savePeers, SaveRelays,
       routing
  <2> QED BY <2>2, <2>3, <2>4 DEF DhtNext, handlePing, handleAnnounce
<1> QED BY <1>1, <1>2, DhtInvariant, PTL
        DEF DhtSpec, SuspicionSound, SuspectedOnlyAfterSilence, SuspicionIsSticky
=============================================================================
