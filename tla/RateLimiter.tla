------------------------------ MODULE RateLimiter ------------------------------
(***************************************************************************)
(* benzene-resilience, rate_limit.py: a token bucket that refills lazily,  *)
(* when somebody looks.  Tokens are counted in units so that a fractional  *)
(* refill_rate stays exact: one token is Unit of them, and Rate units      *)
(* arrive per tick of the clock (refill_rate = Rate / Unit).  _try_acquire *)
(* has no await, so it is one step; what run() does afterwards cannot      *)
(* touch the limiter.                                                      *)
(***************************************************************************)
EXTENDS Naturals

CONSTANTS Unit, Rate, Burst,   \* refill_rate = Rate / Unit, max(1, burst)
          MaxTime              \* bound on the clock, for model checking

ASSUME UnitAssumption == Unit \in Nat \ {0}
ASSUME RateAssumption == Rate \in Nat \ {0}
ASSUME BurstAssumption == Burst \in Nat \ {0}
ASSUME MaxTimeAssumption == MaxTime \in Nat

VARIABLES now,         \* clock()
          tokens,      \* RateLimiter._tokens, in units
          updated_at,  \* RateLimiter._updated_at
          verdict,     \* what the last execute did
          since,       \* history: the start of an arbitrary window of time
          admitted     \* history: the calls admitted in that window

limiterVars == <<now, tokens, updated_at, verdict, since, admitted>>

Size == Burst * Unit

Smaller(a, b) == IF a <= b THEN a ELSE b

LimiterInit ==
    /\ now = 0
    /\ tokens = Size
    /\ updated_at = now
    /\ verdict = "none"
    /\ since = now
    /\ admitted = 0

-----------------------------------------------------------------------------
\* Fault: the refill is not capped by the burst.
RefilledUncapped == tokens + (now - updated_at) * Rate

\* _refill: the tokens after it.  With no time elapsed they are unchanged.
Refilled == IF now - updated_at > 0
            THEN Smaller(Size, tokens + (now - updated_at) * Rate)
            ELSE tokens

\* Fault: a call that leaves the bucket untouched forgets the elapsed time.
RefuseDropsTime == /\ Refilled < Unit
                   /\ tokens' = tokens
                   /\ updated_at' = now
                   /\ verdict' = "refused"
                   /\ UNCHANGED <<now, since, admitted>>

\* execute: the bucket is empty and the call gets too-many-requests.
Refuse == /\ Refilled < Unit
          /\ tokens' = Refilled
          /\ updated_at' = now
          /\ verdict' = "refused"
          /\ UNCHANGED <<now, since, admitted>>

\* Fault: the time of the refill is not remembered, so it is paid out twice.
AdmitForgetsTime == /\ Refilled >= Unit
                    /\ tokens' = Refilled - Unit
                    /\ verdict' = "admitted"
                    /\ admitted' = admitted + 1
                    /\ UNCHANGED <<now, updated_at, since>>

\* execute: spend one token and run.
Admit == /\ Refilled >= Unit
         /\ tokens' = Refilled - Unit
         /\ updated_at' = now
         /\ verdict' = "admitted"
         /\ admitted' = admitted + 1
         /\ UNCHANGED <<now, since>>

\* The available property refills too.
Available == /\ tokens' = Refilled
             /\ updated_at' = now
             /\ UNCHANGED <<now, verdict, since, admitted>>

\* time.monotonic.
LimiterTick ==
    /\ now < MaxTime
    /\ now' = now + 1
    /\ UNCHANGED <<tokens, updated_at, verdict, since, admitted>>

\* The window under observation may start at any time.
StartWindow == /\ since' = now
               /\ admitted' = 0
               /\ UNCHANGED <<now, tokens, updated_at, verdict>>

\* Each message through rate_limit_interception, and each send_message of a
\* RateLimitingMessageSender, is one execute of the shared limiter.
LimiterNext == Admit \/ Refuse \/ Available \/ LimiterTick \/ StartWindow

LimiterSpec == LimiterInit /\ [][LimiterNext]_limiterVars

-----------------------------------------------------------------------------
LimiterTypeOK ==
    /\ now \in 0 .. MaxTime
    /\ tokens \in 0 .. Size
    /\ updated_at \in 0 .. now
    /\ verdict \in {"none", "admitted", "refused"}
    /\ since \in 0 .. now
    /\ admitted \in Nat

\* The bound callers rely on: in any window of time, at most burst calls plus
\* refill_rate calls per second of the window are admitted.
WindowBound == admitted * Unit <= Size + (now - since) * Rate

\* Refilling lazily, at whatever moments calls happen to arrive, is the steady
\* bucket: no admission comes early and no earned token is lost.
Bucket == INSTANCE TokenBucket WITH level <- Refilled
SteadyBucket == Bucket!Spec

\* What execute promises: the bucket stays within its capacity and no window admits
\* more than the burst and the rate allow.
RateKept == LimiterTypeOK /\ WindowBound
=============================================================================
