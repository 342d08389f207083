----------------------------- MODULE JitoSession -----------------------------
(***************************************************************************)
(* jito_auth: two tasks keep the shred subscription alive.  The refresher  *)
(* (auth.rs) keeps the bearer token ahead of its expiry, the heartbeat     *)
(* (heartbeat.rs) renews the subscription at a third of the ttl the block  *)
(* engine last granted.  They meet in the interceptor's token.             *)
(*                                                                         *)
(* Time is discrete: every instant that matters is kept as what is left    *)
(* until it, and Tick takes one unit off all of them at once.              *)
(***************************************************************************)
EXTENDS Integers

CONSTANTS
    REFRESH_MARGIN, REFRESH_POLL,
    FirstPeriod,                \* the heartbeat's cadence before the first answer
    Latency,                    \* the longest a call takes to be answered or to fail
    AccessLives, RefreshLives,  \* lifetimes of the tokens the block engine issues
    Ttls,                       \* ttl_ms the block engine grants
    MaxFaults                   \* bound: calls that fail

ASSUME SessionAssumption ==
    /\ REFRESH_MARGIN \in Nat /\ REFRESH_POLL \in Nat \ {0} /\ FirstPeriod \in Nat \ {0}
    /\ Latency \in Nat /\ MaxFaults \in Nat
    /\ AccessLives \subseteq Nat /\ RefreshLives \subseteq Nat /\ Ttls \subseteq Nat

VARIABLES
    exit,
    auth, auth_timer,           \* refresher: where it is, what is left of its sleep or call
    access_expires, refresh_expires,
    bearer,                     \* interceptor: what is left of the token in it
    beat, call_timer,           \* heartbeat: where it is, what is left of its call
    ticker, period,             \* heartbeat: time to the next tick, cadence
    stamp, reply,               \* what is left of the token on the wire, the ttl in the answer
    subscription,               \* block engine: what is left of it
    faults,
    subscribed, missed,         \* history: was there one, calls that failed since it was renewed
    failed                      \* history: auth calls that failed in a row

authVars == <<auth, auth_timer, access_expires, refresh_expires, bearer, failed>>
beatVars == <<beat, call_timer, ticker, period, stamp, reply, subscription, subscribed, missed>>
vars == <<exit, faults, authVars, beatVars>>

Init ==
    /\ exit = FALSE /\ faults = 0
    /\ auth = "check" /\ auth_timer = 0 /\ failed = 0
    /\ access_expires \in AccessLives /\ refresh_expires \in RefreshLives
    /\ bearer = access_expires
    /\ beat = "wait" /\ call_timer = 0 /\ ticker = 0 /\ period = FirstPeriod
    /\ stamp = 0 /\ reply = 0 /\ subscription = 0 /\ subscribed = FALSE /\ missed = 0

\* Counted up to two.
oneMore(n) == IF n < 2 THEN n + 1 ELSE n

Fault == faults < MaxFaults /\ faults' = faults + 1

SetExit == ~exit /\ exit' = TRUE /\ UNCHANGED <<faults, authVars, beatVars>>
-----------------------------------------------------------------------------
\* The refresher's loop: where it goes from its head.
Goes(to, timer) ==
    /\ auth = "check"
    /\ auth' = to /\ auth_timer' = timer
    /\ UNCHANGED <<exit, faults, access_expires, refresh_expires, bearer, failed, beatVars>>

\* Mutant: a token is renewed once it has expired.
due_Expired(left) == left = 0

due(left) == left < REFRESH_MARGIN

AuthExit == exit /\ Goes("done", 0)
Rotate == ~exit /\ due(refresh_expires) /\ Goes("handshake", Latency)

Refresh ==
    /\ ~exit /\ ~due(refresh_expires) /\ due(access_expires)
    /\ Goes("refresh", Latency)

Idle ==
    /\ ~exit /\ ~due(refresh_expires) /\ ~due(access_expires)
    /\ Goes("sleep", REFRESH_POLL)

Wake ==
    /\ auth = "sleep" /\ auth_timer = 0 /\ auth' = "check"
    /\ UNCHANGED <<exit, faults, auth_timer, access_expires, refresh_expires, bearer, failed,
                   beatVars>>

\* challenge_and_sign: both tokens are new.
Rotated ==
    /\ auth = "handshake"
    /\ access_expires' \in AccessLives /\ refresh_expires' \in RefreshLives
    /\ bearer' = access_expires'
    /\ auth' = "check" /\ auth_timer' = 0 /\ failed' = 0
    /\ UNCHANGED <<exit, faults, beatVars>>

\* Mutant: the new token does not reach the interceptor.
Refreshed_KeepsBearer ==
    /\ auth = "refresh"
    /\ access_expires' \in AccessLives
    /\ auth' = "check" /\ auth_timer' = 0 /\ failed' = 0
    /\ UNCHANGED <<exit, faults, refresh_expires, bearer, beatVars>>

Refreshed ==
    /\ auth = "refresh"
    /\ access_expires' \in AccessLives
    /\ bearer' = access_expires'
    /\ auth' = "check" /\ auth_timer' = 0 /\ failed' = 0
    /\ UNCHANGED <<exit, faults, refresh_expires, beatVars>>

\* A failed handshake is retried after a sleep, a failed refresh at once.
AuthFails ==
    /\ Fault
    /\ \/ auth = "handshake" /\ auth' = "sleep" /\ auth_timer' = REFRESH_POLL
       \/ auth = "refresh" /\ auth' = "check" /\ auth_timer' = 0
    /\ failed' = failed + 1
    /\ UNCHANGED <<exit, access_expires, refresh_expires, bearer, beatVars>>

\* An answer without an expiry: the token is stored, then expect ends the task.
Panic ==
    /\ Fault
    /\ auth \in {"handshake", "refresh"}
    /\ bearer' \in AccessLives
    /\ auth' = "panicked" /\ auth_timer' = 0
    /\ UNCHANGED <<exit, access_expires, refresh_expires, failed, beatVars>>
-----------------------------------------------------------------------------
\* A tick is due.  The next one is a period away (MissedTickBehavior::Delay).
Send ==
    /\ beat = "wait" /\ ticker = 0
    /\ beat' = "sent" /\ call_timer' = Latency
    /\ ticker' = period
    /\ stamp' = bearer
    /\ UNCHANGED <<exit, faults, authVars, period, reply, subscription, subscribed, missed>>

\* The block engine takes a heartbeat whose token is valid.
Accept ==
    /\ beat = "sent" /\ stamp > 0
    /\ reply' \in Ttls /\ subscription' = reply'
    /\ subscribed' = (reply' > 0) /\ missed' = 0
    /\ beat' = "answered"
    /\ UNCHANGED <<exit, faults, authVars, call_timer, ticker, period, stamp>>

\* The loop's condition, after a call.
Loops == beat' = IF exit THEN "done" ELSE "wait"

\* Mutant: the cadence is the ttl itself.
Hear_WholeTtl ==
    /\ beat = "answered"
    /\ Loops
    /\ LET desired == reply IN
         IF desired # 0 /\ desired # period
         THEN period' = desired /\ ticker' = desired
         ELSE UNCHANGED <<period, ticker>>
    /\ UNCHANGED <<exit, faults, authVars, call_timer, stamp, reply, subscription, subscribed,
                   missed>>

Hear ==
    /\ beat = "answered"
    /\ Loops
    /\ LET desired == reply \div 3 IN
         IF desired # 0 /\ desired # period
         THEN period' = desired /\ ticker' = desired
         ELSE UNCHANGED <<period, ticker>>
    /\ UNCHANGED <<exit, faults, authVars, call_timer, stamp, reply, subscription, subscribed,
                   missed>>

Missed ==
    /\ beat = "sent"
    /\ Loops
    /\ missed' = oneMore(missed)
    /\ UNCHANGED <<exit, authVars, call_timer, ticker, period, stamp, reply, subscription,
                   subscribed>>

Refuse == stamp = 0 /\ Missed /\ UNCHANGED faults
LoseRequest == Fault /\ Missed

LoseReply ==
    /\ Fault
    /\ beat = "answered"
    /\ Loops
    /\ missed' = oneMore(missed)
    /\ UNCHANGED <<exit, authVars, call_timer, ticker, period, stamp, reply, subscription,
                   subscribed>>

\* InvalidArgument: the advertised address is not the connection's.
Bail ==
    /\ Fault
    /\ beat = "sent" /\ beat' = "bailed"
    /\ UNCHANGED <<exit, authVars, call_timer, ticker, period, stamp, reply, subscription,
                   subscribed, missed>>
-----------------------------------------------------------------------------
\* Mutant: what is left of a past instant goes below zero.
less_Plain(t) == t - 1

less(t) == IF t = 0 THEN 0 ELSE t - 1

\* Time passes when nobody has something to do now.
Tick ==
    /\ auth # "check"
    /\ auth \in {"sleep", "handshake", "refresh"} => auth_timer > 0
    /\ beat = "wait" => ticker > 0
    /\ beat \in {"sent", "answered"} => call_timer > 0
    /\ auth_timer' = less(auth_timer) /\ bearer' = less(bearer)
    /\ access_expires' = less(access_expires) /\ refresh_expires' = less(refresh_expires)
    /\ call_timer' = less(call_timer) /\ ticker' = less(ticker) /\ stamp' = less(stamp)
    /\ subscription' = less(subscription)
    /\ UNCHANGED <<exit, faults, auth, failed, beat, period, reply, subscribed, missed>>

Refresher == AuthExit \/ Rotate \/ Refresh \/ Idle \/ Wake \/ Rotated \/ Refreshed
Heartbeat == Send \/ Accept \/ Hear \/ Refuse
Faulty == AuthFails \/ Panic \/ LoseRequest \/ LoseReply \/ Bail

Next == SetExit \/ Refresher \/ Heartbeat \/ Faulty \/ Tick

Spec == Init /\ [][Next]_vars
FairSpec == Spec /\ WF_vars(Refresher) /\ WF_vars(Heartbeat) /\ WF_vars(Tick)
-----------------------------------------------------------------------------
TypeOK ==
    /\ exit \in BOOLEAN /\ faults \in 0 .. MaxFaults
    /\ auth \in {"check", "handshake", "refresh", "sleep", "panicked", "done"}
    /\ beat \in {"wait", "sent", "answered", "bailed", "done"}
    /\ \A t \in {auth_timer, access_expires, refresh_expires, bearer, call_timer, ticker, stamp,
                 reply, subscription} : t \in Nat
    /\ period \in Nat \ {0} /\ ticker <= period
    /\ subscribed \in BOOLEAN /\ missed \in 0 .. 2 /\ failed \in 0 .. MaxFaults

\* "so we never miss the keep-alive deadline" (heartbeat.rs:44-45): a subscription
\* outlives any one failed call since it was last renewed, and any change of the ttl
\* that is granted, as long as the task runs.
KeptAlive ==
    subscribed /\ beat \notin {"bailed", "done"} => subscription > 0 \/ missed >= 2

\* The bearer token is good as long as the refresher runs, unless auth calls failed in
\* a row for as long as the margin is (auth.rs:26-29).
TokenOutlives ==
    auth \notin {"panicked", "done"} =>
        bearer > 0 \/ (failed + 1) * (Latency + REFRESH_POLL) >= REFRESH_MARGIN

\* Once calls stop failing, the subscription is there for good, unless a task has
\* ended: each recovers from what the other one's failure did to it.
Recovers ==
    <>[](subscription > 0 \/ beat \in {"bailed", "done"} \/ auth \in {"panicked", "done"})
=============================================================================
