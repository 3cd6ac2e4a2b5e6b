----------------------------- MODULE OutboundCall -----------------------------
(***************************************************************************)
(* The circuit breaker in front of one dependency of a process (id-service,*)
(* api-internal, a participant, the payment gateway), shared by every call *)
(* to it.  The state machine is the library's (opossum), driven by the     *)
(* options CircuitBreakerFactory gives it; what a rejection counts for and *)
(* what the caller is told is the code's.  The breaker is one that was     *)
(* given isDownstreamFault: the mail breaker is not, and counts every      *)
(* rejection.                                                              *)
(***************************************************************************)
EXTENDS Integers

CONSTANTS
  Calls,            \* concurrent calls
  VolumeThreshold,  \* calls the window must hold before the share counts
  ErrorThreshold,   \* the share of failures, in percent, that must be exceeded
  MaxWindow         \* bound: calls the window remembers

VARIABLES
  breaker,   \* closed, open, half_open or shutdown
  trial,     \* whether the half-open breaker still has its trial to give
  window,    \* fires and failures of the rolling window
  call,      \* per call: where its caller is, where its request is, what the caller was told
  faulted    \* history: the dependency has failed or kept a call waiting

vars == <<breaker, trial, window, call, faulted>>

NotCalled == [caller |-> "idle", request |-> "none", told |-> "nothing"]

(* What the dependency makes of a request. *)
Outcomes == {"ok", "rejected", "fault"}

(* What isDownstreamFault disowns is "rejected": a 4xx, a replica between leases.  An answer off the  *)
(* contract is a fault, as a 5xx or a lost connection is.                                             *)
IsDownstreamFault(outcome) == outcome = "fault"

\* Defect: a timed out call is reported like a refused one.
ToldOpen(verdict) == IF verdict \in {"EOPENBREAKER", "ESHUTDOWN", "ETIMEDOUT"} THEN "open" ELSE verdict

(* The breaker's own verdicts become a DownstreamUnavailableError, with its reason; the task's        *)
(* rejection passes through.                                                                          *)
Told(verdict) ==
  CASE verdict \in {"EOPENBREAKER", "ESHUTDOWN"} -> "open"
    [] verdict = "ETIMEDOUT"                     -> "timeout"
    [] OTHER                                     -> verdict

Answers(c, verdict) == [call[c] EXCEPT !.caller = "told", !.told = Told(verdict)]

-----------------------------------------------------------------------------

Refuses == breaker \in {"open", "shutdown"} \/ (breaker = "half_open" /\ ~trial)

refuse(c) ==
  /\ call[c] = NotCalled /\ Refuses
  /\ call' = [call EXCEPT ![c] = Answers(c, IF breaker = "shutdown" THEN "ESHUTDOWN" ELSE "EOPENBREAKER")]
  /\ UNCHANGED <<breaker, trial, window, faulted>>

fire(c) ==
  /\ call[c] = NotCalled /\ ~Refuses /\ window.fires < MaxWindow
  /\ call' = [call EXCEPT ![c].caller = "waiting", ![c].request = "sent"]
  /\ window' = [window EXCEPT !.fires = @ + 1]
  /\ trial' = FALSE
  /\ UNCHANGED <<breaker, faulted>>

(* The dependency carries the request out, whether or not anyone still waits. *)
lands(c) ==
  /\ call[c].request = "sent"
  /\ call' = [call EXCEPT ![c].request = "landed"]
  /\ UNCHANGED <<breaker, trial, window, faulted>>

Tripped(failures) ==
  \/ breaker = "half_open"
  \/ window.fires >= VolumeThreshold /\ 100 * failures > ErrorThreshold * window.fires

(* What the library makes of a failure and of a success. *)
Counts(failed) ==
  /\ window' = [window EXCEPT !.failures = IF failed THEN @ + 1 ELSE @]
  /\ breaker' = CASE breaker = "shutdown"                                               -> breaker
                  [] failed /\ breaker # "open" /\ Tripped(window.failures + 1)         -> "open"
                  [] ~failed /\ breaker = "half_open"                                   -> "closed"
                  [] OTHER                                                              -> breaker
  /\ UNCHANGED trial

answers(c, outcome) ==
  /\ call[c].caller = "waiting" /\ (outcome = "ok" => call[c].request = "landed")
  /\ call' = [call EXCEPT ![c] = [Answers(c, outcome) EXCEPT
                !.request = IF outcome = "rejected" THEN "none" ELSE call[c].request]]
  /\ Counts(IsDownstreamFault(outcome))
  /\ faulted' = (faulted \/ outcome = "fault")

(* The wait is abandoned; the request stays on the wire. *)
timesOut(c) ==
  /\ call[c].caller = "waiting"
  /\ call' = [call EXCEPT ![c] = Answers(c, "ETIMEDOUT")]
  /\ Counts(TRUE)
  /\ faulted' = TRUE

(* The caller is gone; what its request still does is followed no further. *)
ends(c) ==
  /\ call[c].caller = "told"
  /\ call' = [call EXCEPT ![c] = NotCalled]
  /\ UNCHANGED <<breaker, trial, window, faulted>>

resetTimeout ==
  /\ breaker = "open"
  /\ breaker' = "half_open" /\ trial' = TRUE
  /\ UNCHANGED <<window, call, faulted>>

(* The window forgets. *)
rolls ==
  /\ window' = [fires |-> 0, failures |-> 0] /\ window' # window
  /\ UNCHANGED <<breaker, trial, call, faulted>>

onApplicationShutdown ==
  /\ breaker # "shutdown"
  /\ breaker' = "shutdown"
  /\ UNCHANGED <<trial, window, call, faulted>>

-----------------------------------------------------------------------------

Init ==
  /\ breaker = "closed" /\ trial = FALSE
  /\ window = [fires |-> 0, failures |-> 0]
  /\ call = [c \in Calls |-> NotCalled]
  /\ faulted = FALSE

Next ==
  \/ \E c \in Calls :
       \/ refuse(c) \/ fire(c) \/ lands(c) \/ timesOut(c) \/ ends(c)
       \/ \E outcome \in Outcomes : answers(c, outcome)
  \/ resetTimeout \/ rolls \/ onApplicationShutdown

Spec == Init /\ [][Next]_vars

-----------------------------------------------------------------------------

(* "So a caller can tell `we didn't ask' from `they said no'": a call reported as open has not        *)
(* reached the dependency and never will, while one that timed out may; and a dependency that only    *)
(* ever said no never finds its circuit open, where isDownstreamFault tells a no from a fault (the    *)
(* mail breaker is created without it).                                                               *)
BreakerTells ==
  /\ \A c \in Calls : call[c].told = "open" => call[c].request = "none"
  /\ breaker \in {"open", "half_open"} => faulted
===============================================================================
