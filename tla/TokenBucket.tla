----------------------------- MODULE TokenBucket -----------------------------
(***************************************************************************)
(* The rate limiter in front of the model services (TokenBucket in         *)
(* src/src/dynavec/utils.py): a caller takes a token under the lock, or is *)
(* told how long to sleep before it tries again; a waiter keeps no place.  *)
(*                                                                         *)
(* Time is counted in ticks and tokens in parts, One to a token.  A sleep  *)
(* lasts at least as long as asked, rounded up to a tick.                  *)
(***************************************************************************)
EXTENDS Integers

CONSTANTS
  Callers,
  One,         \* parts of a token
  Rate,        \* parts that flow in at each tick
  Capacity,    \* in parts
  LastTick     \* bound: the clock stops there

ASSUME BucketAssumption ==
  One \in Nat \ {0} /\ Rate \in Nat \ {0} /\ Capacity \in Nat \ {0} /\ LastTick \in Nat

VARIABLES
  tokens, lastTime,  \* TokenBucket.tokens and last_time
  now,         \* time.monotonic()
  waiter,      \* [Callers -> what a caller does, and until when it sleeps]
  granted,     \* ghost: tokens given out
  mark         \* ghost: an instant, and the tokens given out until then

tbvars == <<tokens, lastTime, now, waiter, granted, mark>>

Least(a, b) == IF a <= b THEN a ELSE b
Away == [does |-> "away", until |-> 0]

(* Mutant: what has flowed in is not limited. *)
RefilledUncapped == tokens + (now - lastTime) * Rate
Refilled == Least(Capacity, tokens + (now - lastTime) * Rate)

(* The sleep for the missing part.                                         *)
WaitFor(have) == (One - have + Rate - 1) \div Rate

Acquire(c) ==
  /\ waiter[c].does = "away"
  /\ waiter' = [waiter EXCEPT ![c] = [does |-> "tries", until |-> now]]
  /\ UNCHANGED <<tokens, lastTime, now, granted, mark>>

MayTry(c) == waiter[c].does = "tries" /\ waiter[c].until <= now

Grant(c) ==
  /\ MayTry(c) /\ Refilled >= One
  /\ tokens' = Refilled - One /\ lastTime' = now
  /\ granted' = granted + 1
  /\ waiter' = [waiter EXCEPT ![c] = Away]
  /\ UNCHANGED <<now, mark>>

Sleep(c) ==
  /\ MayTry(c) /\ Refilled < One
  /\ tokens' = Refilled /\ lastTime' = now
  /\ waiter' = [waiter EXCEPT ![c] = [does |-> "tries", until |-> now + WaitFor(Refilled)]]
  /\ UNCHANGED <<now, granted, mark>>

Tick ==
  /\ now < LastTick
  /\ now' = now + 1
  /\ UNCHANGED <<tokens, lastTime, waiter, granted, mark>>

(* An observer begins to count.                                            *)
Mark ==
  /\ mark' = [time |-> now, granted |-> granted]
  /\ UNCHANGED <<tokens, lastTime, now, waiter, granted>>

BucketInit ==
  /\ tokens = Capacity /\ lastTime = 0 /\ now = 0
  /\ waiter = [c \in Callers |-> Away]
  /\ granted = 0 /\ mark = [time |-> 0, granted |-> 0]

BucketNext ==
  \/ \E c \in Callers : Acquire(c) \/ Grant(c) \/ Sleep(c)
  \/ Tick
  \/ Mark

BucketSpec == BucketInit /\ [][BucketNext]_tbvars
-----------------------------------------------------------------------------
BucketTypeOK ==
  /\ tokens \in 0 .. Capacity /\ now \in 0 .. LastTick /\ lastTime \in 0 .. now
  /\ granted \in Nat
  /\ waiter \in [Callers -> [does: {"away", "tries"}, until: Nat]]
  /\ mark \in [time: 0 .. now, granted: 0 .. granted]

(* Over any interval, whoever calls and however they are interleaved, no   *)
(* more tokens are given out than a full bucket and what flowed in during  *)
(* the interval.                                                           *)
RateBounded ==
  (granted - mark.granted) * One <= Capacity + (now - mark.time) * Rate
=============================================================================
