-------------------------- MODULE SignalingChannel --------------------------
(***************************************************************************)
(* The class SignalingChannel of apps/web/src/lib/transfer/signaling.ts:   *)
(* the fields of one object as a record, and what its methods and socket   *)
(* events make of them.  ws is the socket, "aborting" once close() was     *)
(* called on one that was still dialing; first says that open() ran with   *)
(* first = TRUE for it.                                                    *)
(***************************************************************************)
EXTENDS Naturals

CONSTANT MaxAttempts   \* MAX_ATTEMPTS, 8 in the code

ASSUME AttemptsAssumption == MaxAttempts \in Nat

Socket == {"none", "dialing", "open", "aborting"}

Channel == [ws : Socket, first : BOOLEAN, closed : BOOLEAN, reconnect : BOOLEAN,
            attempt : 0 .. MaxAttempts, timer : BOOLEAN]

NoChannel == [ws |-> "none", first |-> FALSE, closed |-> FALSE, reconnect |-> FALSE,
              attempt |-> 0, timer |-> FALSE]

\* The constructor and connect(): the first socket dials.
Connecting == [ws |-> "dialing", first |-> TRUE, closed |-> FALSE, reconnect |-> TRUE,
               attempt |-> 0, timer |-> FALSE]

\* The timer of scheduleRetry: open(false).
Redialing(s) == [s EXCEPT !.ws = "dialing", !.first = FALSE, !.timer = FALSE]

\* onopen
Opened(s) == [s EXCEPT !.ws = "open", !.attempt = 0]

\* Mutant: an exhausted channel just stops.
GivingUpSilently(s) ==
  IF s.closed \/ ~s.reconnect \/ s.attempt >= MaxAttempts THEN s
  ELSE [s EXCEPT !.attempt = @ + 1, !.timer = TRUE]

\* Mutant: retries are not counted.
RetryingForever(s) ==
  IF s.closed \/ ~s.reconnect THEN s ELSE [s EXCEPT !.attempt = @ + 1, !.timer = TRUE]

\* scheduleRetry()
ScheduleRetry(s) ==
  IF s.closed \/ ~s.reconnect THEN s
  ELSE IF s.attempt >= MaxAttempts THEN [s EXCEPT !.closed = TRUE]
  ELSE [s EXCEPT !.attempt = @ + 1, !.timer = TRUE]

\* onclose: a retry while reconnection is wanted, else the end.
Dropped(s) ==
  LET gone == [s EXCEPT !.ws = "none"] IN
  IF s.closed THEN gone
  ELSE IF s.reconnect THEN ScheduleRetry(gone)
  ELSE [gone EXCEPT !.closed = TRUE]

\* handlers.onClose runs when a step closes the channel that close() did not.
TellsOwner(s, t) == ~s.closed /\ t.closed

RetireReconnect(s) == [s EXCEPT !.reconnect = FALSE, !.timer = FALSE]

\* Mutant: the retry timer survives close().
ShutKeepingTimer(s) ==
  [s EXCEPT !.closed = TRUE, !.reconnect = FALSE,
            !.ws = IF @ = "dialing" THEN "aborting" ELSE "none"]

\* close(): a socket still dialing reports an error later.
Shut(s) == [s EXCEPT !.closed = TRUE, !.reconnect = FALSE, !.timer = FALSE,
                     !.ws = IF @ = "dialing" THEN "aborting" ELSE "none"]
=============================================================================
