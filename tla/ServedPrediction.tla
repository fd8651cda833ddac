-------------------------- MODULE ServedPrediction --------------------------
(***************************************************************************)
(* What the predictive trigger promises KEDA, apart from how it is built:  *)
(* every answer of the external scaler is zero, or the demand of a         *)
(* forecast that somebody made, that is not from the future and not too    *)
(* old, and whose source was observed not too long ago.                    *)
(***************************************************************************)
EXTENDS Integers

CONSTANTS Scalers, SnapshotMaxAge, SourceMaxAge

VARIABLES
    now,       \* the clock
    forecasts, \* forecasts made: records with generated, observed and demand
    answer     \* the last answer of each scaler

Init == now = 0 /\ forecasts = {} /\ answer = [s \in Scalers |-> 0]

Within(time, age) == time <= now /\ now - time <= age

Fresh(f) == Within(f.generated, SnapshotMaxAge) /\ Within(f.observed, SourceMaxAge)

Tick == now' = now + 1 /\ UNCHANGED <<forecasts, answer>>

Forecast == forecasts \subseteq forecasts' /\ UNCHANGED <<now, answer>>

Answer(s) ==
    /\ \/ answer' = [answer EXCEPT ![s] = 0]
       \/ \E f \in forecasts :
             Fresh(f) /\ answer' = [answer EXCEPT ![s] = f.demand]
    /\ UNCHANGED <<now, forecasts>>

Next == Tick \/ Forecast \/ \E s \in Scalers : Answer(s)

Spec == Init /\ [][Next]_<<now, forecasts, answer>>
=============================================================================
