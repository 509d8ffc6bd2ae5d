-------------------------------- MODULE Meter --------------------------------
(***************************************************************************)
(* ProgressMeter of progress.ts: the fields of one meter as a record, and  *)
(* what start() and set() make of them.  A rate is the bytes and the time  *)
(* it divides, never rounded.                                              *)
(***************************************************************************)
EXTENDS Integers, Sequences, FiniteSetsExt

CONSTANTS Window,      \* WINDOW_MS
          Tick,        \* TICK_MS
          RatesKept    \* HISTORY

ASSUME MeterAssumption == Window \in Nat /\ Tick \in Nat /\ RatesKept \in Nat

NoRate == [bytes |-> 0, time |-> 0]

\* start(total), at time now
Started(now) ==
  [transferred |-> 0, lastTick |-> now, samples |-> <<[at |-> now, bytes |-> 0]>>, rates |-> <<>>]

\* rate()
RateOf(samples) ==
  LET first == samples[1] last == samples[Len(samples)] IN
  IF last.at <= first.at THEN NoRate
  ELSE [bytes |-> last.bytes - first.bytes, time |-> last.at - first.at]

\* Mutant: every sample older than the window goes.
KeptWithin(samples, now) == SelectSeq(samples, LAMBDA s : now - s.at <= Window)

\* The loop of set(): a sample goes when the one after it is older than the window.
Kept(samples, now) ==
  LET drop == Max({0} \cup {d \in 1 .. Len(samples) - 1 :
                              \A j \in 1 .. d : now - samples[j + 1].at > Window})
  IN SubSeq(samples, drop + 1, Len(samples))

\* set(transferred), at time now: a rate is noted when a tick has passed.
Measured(m, transferred, now) ==
  LET samples == Kept(Append(m.samples, [at |-> now, bytes |-> transferred]), now)
      due == now - m.lastTick >= Tick
      rates == Append(m.rates, RateOf(samples))
  IN [transferred |-> transferred, samples |-> samples,
      lastTick |-> IF due THEN now ELSE m.lastTick,
      rates |-> IF ~due THEN m.rates
                ELSE IF Len(rates) > RatesKept THEN Tail(rates) ELSE rates]

\* snapshot() of m, for a batch of total bytes: what the readout shows of it.
\* The time that is left is remaining divided by the rate, and unknown
\* ("none") while there is none.
Snapshot(m, total) ==
  LET rate == RateOf(m.samples) remaining == total - m.transferred IN
  [transferred |-> m.transferred, remaining |-> remaining, rate |-> rate,
   eta |-> IF rate.bytes > 0 /\ remaining > 0 THEN "known" ELSE "none"]
=============================================================================
