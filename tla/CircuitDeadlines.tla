--------------------------- MODULE CircuitDeadlines ---------------------------
(***************************************************************************)
(* ProviderCircuit with two history variables that measure real time: how  *)
(* far the wall clock has been set back in all, and when, in real time,    *)
(* the last failure recorded for a key promised to let it be tried again.  *)
(***************************************************************************)
EXTENDS ProviderCircuit

VARIABLES
    setBack,    \* sum of the backward corrections so far
    corrections,    \* their number
    due         \* real time before which a key must not be probed (NoTime: any)

dvars == <<clock, lastClock, alive, file, req, setBack, corrections, due>>

MaxSetBack == MaxTime       \* bound on the corrections of one behaviour

RealTime == clock + setBack

\* The keys the failure report of r stamps with a new deadline.
Stamped(r, reason) ==
    IF reason # "none" /\ ActiveLease(Opened(req[r].proc), r)
    THEN req[r].keys \cup {FailureScope(req[r].tgt, reason)}
    ELSE {}

\* A block recorded now lasts for (until - now) of real time.
NewDue(K, now) ==
    [k \in Target |->
        LET e == file'.entries[k] IN
        IF e.state \in {"closed", "absent"} THEN NoTime
        ELSE IF k \in K
             THEN IF e.until = NoTime THEN NoTime ELSE RealTime + e.until - now
        ELSE due[k]]

DInit == Init /\ setBack = 0 /\ corrections = 0 /\ due = [k \in Target |-> NoTime]

DFailure ==
    \E r \in Req, retry \in RetryAfter \cup {NoTime}, reason \in Reason \cup {"none"} :
        /\ RecordFailure(r, reason, retry)
        /\ due' = NewDue(Stamped(r, reason), NowOf(req[r].proc))
        /\ UNCHANGED <<setBack, corrections>>

DOther ==
    /\ OtherStep
    /\ setBack' = setBack + (IF clock' < clock THEN clock - clock' ELSE 0)
    /\ setBack' <= MaxSetBack
    /\ corrections' = corrections + (IF clock' < clock THEN 1 ELSE 0)
    /\ due' = NewDue({}, 0)

DNext == DFailure \/ DOther

DSpec == DInit /\ [][DNext]_dvars

(***************************************************************************)
(* Properties.                                                             *)
(***************************************************************************)
\* What process p would see if it looked now.
View(p) == Refresh(Opened(p), Target, NowOf(p), p)

\* "Persist the provider/account block and return the limit/reset diagnosis
\* without calling it again" (docs/EDGE-CASE-AUDIT.md): however the clock is set
\* back, and after every restart, no running process finds a circuit ready for a
\* probe before the recorded cooldown has passed in real time.  It is claimed of
\* one process at a time: beside a second one, a process that has not looked at
\* its clock for longer than the skew takes the store for one from the future
\* and shortens its blocks (load, :995).
BlockNotShortened ==
    \A p \in Proc : alive[p] =>
        \A k \in Target :
            (View(p)[k].state = "half-open" /\ due[k] # NoTime) => RealTime >= due[k]

\* now(), load(): "Backward jumps larger than this rebase deadlines instead of
\* extending them": no running process sees a block that has longer to go than
\* the longest cooldown, beyond the tolerated skew for each correction.
LongestBlock ==
    CHOOSE n \in RetryAfter \cup {QuotaCooldown, ModelCooldown, MaxCooldown} :
        \A m \in RetryAfter \cup {QuotaCooldown, ModelCooldown, MaxCooldown} : m <= n
BlockNotExtended ==
    \A p \in Proc : alive[p] =>
        \A k \in Target :
            View(p)[k].state = "open" => View(p)[k].until <= NowOf(p) + LongestBlock + Skew * corrections

\* A clock that is set back makes a block neither shorter nor longer.
BlockLastsAsPromised == BlockNotShortened /\ BlockNotExtended
===============================================================================
