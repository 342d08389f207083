-------------------------- MODULE JitoSession_proofs --------------------------
(***************************************************************************)
(* The bearer token outlives any outage shorter than the margin, and the   *)
(* subscription outlives any one failed heartbeat: for all lifetimes,      *)
(* margins, polls, latencies and ttls that leave room for the calls.       *)
(***************************************************************************)
EXTENDS JitoSession, TLAPS

(* The block engine issues access tokens that live for the margin at       *)
(* least; one that does not is due from the start.                         *)
LongLived == \A life \in AccessLives : life >= REFRESH_MARGIN

(* Two periods and two calls fit into every ttl, and a call after any      *)
(* period the heartbeat may still have from before does.                   *)
Periods == {FirstPeriod} \cup {r \div 3 : r \in Ttls \ {0}}
Prompt ==
    \A r \in Ttls \ {0} :
        /\ r >= 3 /\ 2 * (Latency + r \div 3) < r
        /\ \A p \in Periods : Latency + p < r

-----------------------------------------------------------------------------
(* What one failed auth call may cost. *)
Attempt == Latency + REFRESH_POLL

(* What is left of the token, and what failed calls have cost, always make *)
(* up for the margin; a sleep or a call under way has yet to cost its own. *)
TokenInv ==
    /\ bearer = access_expires
    /\ auth = "check" => bearer + failed * Attempt + REFRESH_POLL >= REFRESH_MARGIN
    /\ auth = "sleep" =>
         bearer + failed * Attempt + REFRESH_POLL >= REFRESH_MARGIN + auth_timer
    /\ auth \in {"handshake", "refresh"} =>
         bearer + (failed + 1) * Attempt >= REFRESH_MARGIN + auth_timer

IToken == auth \notin {"panicked", "done"} => TokenInv

(* What is left of the subscription covers the call under way and, while   *)
(* none has failed, the next tick and the call it starts.                  *)
Covered ==
    /\ beat = "wait" /\ missed = 0 =>
         subscription > ticker + period + Latency /\ Latency <= period
    /\ beat = "wait" /\ missed = 1 => subscription > ticker + Latency
    /\ beat = "sent" /\ missed = 0 =>
         subscription > ticker + Latency /\ subscription > call_timer + Latency
    /\ beat = "sent" /\ missed = 1 => subscription > call_timer
    /\ beat = "answered" =>
         /\ subscription > call_timer + 2 * (reply \div 3) + Latency
         /\ subscription > ticker + Latency
         /\ reply \div 3 = period => subscription > ticker + period + Latency

IBeat ==
    /\ call_timer <= Latency /\ period \in Periods
    /\ beat = "answered" => missed = 0 /\ reply \in Ttls /\ (subscribed => reply > 0)
    /\ subscribed /\ beat \notin {"bailed", "done"} /\ missed < 2 => Covered

IType == TypeOK /\ failed <= faults

-----------------------------------------------------------------------------
(* Types. *)

LEMMA Constants ==
    /\ REFRESH_MARGIN \in Nat /\ REFRESH_POLL \in Nat /\ REFRESH_POLL > 0
    /\ FirstPeriod \in Nat /\ FirstPeriod > 0 /\ Latency \in Nat /\ MaxFaults \in Nat
    /\ AccessLives \subseteq Nat /\ RefreshLives \subseteq Nat /\ Ttls \subseteq Nat
  BY SessionAssumption

LEMMA Less ==
    ASSUME NEW t \in Nat
    PROVE  /\ less(t) \in Nat /\ less(t) <= t /\ t <= less(t) + 1
           /\ t > 0 => less(t) = t - 1
  BY DEF less

LEMMA TypeInit == Init => IType
  <1> SUFFICES ASSUME Init PROVE IType
    OBVIOUS
  <1>1. /\ {auth_timer, call_timer, ticker, stamp, reply, subscription} = {0}
        /\ access_expires \in Nat /\ refresh_expires \in Nat /\ bearer \in Nat
    BY Constants DEF Init
  <1>2. \A t \in {auth_timer, access_expires, refresh_expires, bearer, call_timer, ticker, stamp,
                  reply, subscription} : t \in Nat
    BY <1>1
  <1>3. period \in Nat \ {0} /\ ticker <= period
    BY Constants DEF Init
  <1>4. faults \in 0 .. MaxFaults /\ failed \in 0 .. MaxFaults /\ missed \in 0 .. 2
    BY Constants DEF Init
  <1>5. exit \in BOOLEAN /\ subscribed \in BOOLEAN
    BY DEF Init
  <1>6. failed <= faults /\ auth = "check" /\ beat = "wait"
    BY DEF Init
  <1> QED
    BY <1>2, <1>3, <1>4, <1>5, <1>6 DEF IType, TypeOK

(* The refresher's steps leave the heartbeat's state alone, *)
LEMMA AuthTypes ==
    ASSUME IType, SetExit \/ Refresher \/ AuthFails \/ Panic
    PROVE  IType'
  <1> USE DEF IType, TypeOK, authVars, beatVars
  <1>1. CASE SetExit
    BY <1>1 DEF SetExit
  <1>2. CASE AuthExit \/ Rotate \/ Refresh \/ Idle
    <2>1. PICK to, timer :
            /\ Goes(to, timer) /\ timer \in Nat
            /\ to \in {"done", "handshake", "refresh", "sleep"}
      BY <1>2, Constants DEF AuthExit, Rotate, Refresh, Idle
    <2> QED
      BY <2>1 DEF Goes
  <1>3. CASE Wake
    BY <1>3 DEF Wake
  <1>4. CASE Rotated
    BY <1>4, Constants DEF Rotated
  <1>5. CASE Refreshed
    BY <1>5, Constants DEF Refreshed
  <1>6. CASE AuthFails
    BY <1>6, Constants DEF AuthFails, Fault
  <1>7. CASE Panic
    BY <1>7, Constants DEF Panic, Fault
  <1> QED
    BY <1>1, <1>2, <1>3, <1>4, <1>5, <1>6, <1>7 DEF Refresher

(* and the other way round. *)
LEMMA BeatTypes ==
    ASSUME IType, Heartbeat \/ LoseRequest \/ LoseReply \/ Bail
    PROVE  IType'
  <1> USE DEF IType, TypeOK, authVars, beatVars
  <1>1. CASE Send
    BY <1>1, Constants DEF Send
  <1>2. CASE Accept
    BY <1>2, Constants DEF Accept
  <1>3. CASE Hear
    <2> DEFINE d == reply \div 3
    <2> HIDE DEF d
    <2>1. d \in Nat
      BY DEF d
    <2>2. \/ d # 0 /\ period' = d /\ ticker' = d
          \/ UNCHANGED <<period, ticker>>
      BY <1>3 DEF Hear, d
    <2>3. period' \in Nat \ {0} /\ ticker' \in Nat /\ ticker' <= period'
      <3>1. CASE d # 0 /\ period' = d /\ ticker' = d
        BY <2>1, <3>1
      <3>2. CASE UNCHANGED <<period, ticker>>
        BY <3>2
      <3> QED
        BY <2>2, <3>1, <3>2
    <2> QED
      BY <1>3, <2>3 DEF Hear, Loops
  <1>4. CASE Refuse \/ LoseRequest
    <2>1. faults' \in 0 .. MaxFaults /\ faults <= faults'
      BY <1>4, Constants DEF Refuse, LoseRequest, Fault
    <2>2. Missed
      BY <1>4 DEF Refuse, LoseRequest
    <2>3. missed' \in 0 .. 2
      BY <2>2 DEF Missed, oneMore
    <2> QED
      BY <2>1, <2>2, <2>3 DEF Missed, Loops
  <1>5. CASE LoseReply
    BY <1>5, Constants DEF LoseReply, Fault, Loops, oneMore
  <1>6. CASE Bail
    BY <1>6, Constants DEF Bail, Fault
  <1> QED
    BY <1>1, <1>2, <1>3, <1>4, <1>5, <1>6 DEF Heartbeat

LEMMA TickTypes == ASSUME IType, Tick PROVE IType'
  <1>1. \A t \in Nat : less(t) \in Nat
    BY Less
  <1>2. ticker' <= period'
    <2>1. ticker \in Nat /\ period \in Nat /\ ticker <= period
      BY DEF IType, TypeOK
    <2>2. ticker' = less(ticker) /\ period' = period
      BY DEF Tick
    <2>3. less(ticker) \in Nat /\ less(ticker) <= ticker
      BY <2>1, Less
    <2> QED
      BY <2>1, <2>2, <2>3
  <1> QED
    BY <1>1, <1>2 DEF IType, TypeOK, Tick

LEMMA TypeStep == IType /\ [Next]_vars => IType'
  <1>1. ASSUME IType, UNCHANGED vars PROVE IType'
    BY <1>1 DEF IType, TypeOK, vars, authVars, beatVars
  <1> QED
    BY <1>1, AuthTypes, BeatTypes, TickTypes DEF Next, Faulty

-----------------------------------------------------------------------------
(* The bearer token. *)

(* One more failed call costs one attempt more. *)
LEMMA Costs ==
    ASSUME NEW n \in Nat
    PROVE  n * Attempt \in Nat /\ (n + 1) * Attempt = n * Attempt + Latency + REFRESH_POLL
  <1>1. Attempt \in Nat /\ Attempt = Latency + REFRESH_POLL
    BY Constants DEF Attempt
  <1>2. n * Attempt \in Nat /\ (n + 1) * Attempt = n * Attempt + Attempt
    BY <1>1
  <1> QED
    BY <1>1, <1>2, Constants

(* A unit of time takes no more from the token than from what is left of   *)
(* the sleep or call.                                                      *)
LEMMA Passing ==
    ASSUME NEW b \in Nat, NEW c \in Nat, NEW s \in Nat, NEW t \in Nat, NEW n \in Nat,
           NEW m \in Nat, b <= c + 1, s = t + 1, b + n >= m + s
    PROVE  c + n >= m + t
  OBVIOUS

LEMMA TokenInit == ASSUME LongLived, Init PROVE IToken
  <1>1. /\ bearer = access_expires /\ bearer \in Nat /\ bearer >= REFRESH_MARGIN
        /\ auth = "check" /\ failed = 0
    BY Constants DEF Init, LongLived
  <1>2. 0 * Attempt \in Nat
    BY Costs
  <1> QED
    BY <1>1, <1>2, Constants DEF IToken, TokenInv

LEMMA TokenStep ==
    ASSUME LongLived, IType, IToken, [Next]_vars
    PROVE  IToken'
  <1> DEFINE cost == failed * Attempt
  <1>1. /\ failed \in Nat /\ bearer \in Nat /\ access_expires \in Nat /\ auth_timer \in Nat
        /\ cost \in Nat /\ (failed + 1) * Attempt = cost + Latency + REFRESH_POLL
    BY Costs DEF IType, TypeOK
  <1> USE Constants
  <1>2. ASSUME auth \notin {"panicked", "done"} PROVE TokenInv
    BY <1>2 DEF IToken
  <1>3. CASE SetExit \/ Heartbeat \/ LoseRequest \/ LoseReply \/ Bail \/ UNCHANGED vars
    <2>1. UNCHANGED authVars
      BY <1>3 DEF SetExit, Heartbeat, Send, Accept, Hear, Refuse, LoseRequest, Missed, LoseReply,
                  Bail, vars
    <2> QED
      BY <2>1 DEF IToken, TokenInv, authVars
  <1>4. CASE AuthExit \/ Panic
    BY <1>4 DEF AuthExit, Goes, Panic, IToken
  <1>5. CASE Rotate \/ Refresh
    <2>1. /\ auth = "check" /\ auth' \in {"handshake", "refresh"} /\ auth_timer' = Latency
          /\ UNCHANGED <<bearer, access_expires, failed>>
      BY <1>5 DEF Rotate, Refresh, Goes
    <2>2. bearer + cost + REFRESH_POLL >= REFRESH_MARGIN /\ bearer = access_expires
      BY <1>2, <2>1 DEF TokenInv
    <2>3. bearer' + (failed' + 1) * Attempt >= REFRESH_MARGIN + auth_timer'
      BY <1>1, <2>1, <2>2
    <2> QED
      BY <2>1, <2>2, <2>3 DEF IToken, TokenInv
  <1>6. CASE Idle
    <2>1. /\ auth = "check" /\ auth' = "sleep" /\ auth_timer' = REFRESH_POLL
          /\ UNCHANGED <<bearer, access_expires, failed>>
          /\ ~due(access_expires)
      BY <1>6 DEF Idle, Goes
    <2>2. bearer >= REFRESH_MARGIN /\ bearer = access_expires
      BY <1>1, <1>2, <2>1 DEF TokenInv, due
    <2>3. bearer' + failed' * Attempt + REFRESH_POLL >= REFRESH_MARGIN + auth_timer'
      BY <1>1, <2>1, <2>2
    <2> QED
      BY <2>1, <2>2, <2>3 DEF IToken, TokenInv
  <1>7. CASE Wake
    <2>1. /\ auth = "sleep" /\ auth_timer = 0 /\ auth' = "check"
          /\ UNCHANGED <<bearer, access_expires, failed>>
      BY <1>7 DEF Wake
    <2> QED
      BY <1>1, <1>2, <2>1 DEF IToken, TokenInv
  <1>8. CASE Rotated \/ Refreshed
    <2>1. /\ bearer' = access_expires' /\ bearer' \in AccessLives /\ failed' = 0
          /\ auth' = "check"
      BY <1>8 DEF Rotated, Refreshed
    <2>2. bearer' \in Nat /\ bearer' >= REFRESH_MARGIN /\ 0 * Attempt \in Nat
      BY <2>1, Costs DEF LongLived
    <2> QED
      BY <2>1, <2>2 DEF IToken, TokenInv
  <1>9. CASE AuthFails
    <2>1. /\ auth \in {"handshake", "refresh"} /\ failed' = failed + 1
          /\ \/ auth' = "sleep" /\ auth_timer' = REFRESH_POLL
             \/ auth' = "check" /\ auth_timer' = 0
          /\ UNCHANGED <<bearer, access_expires>>
      BY <1>9 DEF AuthFails
    <2>2. bearer + failed' * Attempt >= REFRESH_MARGIN /\ bearer = access_expires
      BY <1>1, <1>2, <2>1 DEF TokenInv
    <2>3. failed' * Attempt \in Nat
      BY <1>1, <2>1, Costs
    <2> DEFINE paid == failed' * Attempt
    <2> HIDE DEF paid
    <2>4. bearer' + paid + REFRESH_POLL >= REFRESH_MARGIN + REFRESH_POLL
      BY <1>1, <2>1, <2>2, <2>3 DEF paid
    <2> QED
      BY <1>1, <2>1, <2>2, <2>3, <2>4 DEF IToken, TokenInv, paid
  <1>10. CASE Tick
    <2>1. /\ bearer' = less(bearer) /\ access_expires' = less(access_expires)
          /\ auth_timer' = less(auth_timer) /\ UNCHANGED <<auth, failed>>
          /\ auth # "check"
          /\ auth \in {"sleep", "handshake", "refresh"} => auth_timer > 0
      BY <1>10 DEF Tick
    <2>2. bearer' \in Nat /\ bearer <= bearer' + 1
      BY <1>1, <2>1, Less
    <2>3. ASSUME auth \in {"sleep", "handshake", "refresh"}
          PROVE  auth_timer' \in Nat /\ auth_timer = auth_timer' + 1
      <3>1. auth_timer' \in Nat /\ auth_timer' = auth_timer - 1
        BY <1>1, <2>1, <2>3, Less
      <3> QED
        BY <1>1, <3>1
    <2>4. SUFFICES ASSUME auth \notin {"panicked", "done"} PROVE TokenInv'
      BY <2>1 DEF IToken
    <2>5. TokenInv
      BY <1>2, <2>4
    <2> HIDE DEF cost
    <2>6. bearer' = access_expires'
      BY <2>1, <2>5 DEF TokenInv
    <2>7. CASE auth = "sleep"
      <3>1. PICK n \in Nat : n = cost + REFRESH_POLL
        BY <1>1
      <3>2. auth_timer' \in Nat /\ auth_timer = auth_timer' + 1
        BY <1>1, <2>3, <2>7
      <3>3. bearer + n >= REFRESH_MARGIN + auth_timer
        BY <1>1, <2>5, <2>7, <3>1 DEF TokenInv, cost
      <3>4. bearer' + n >= REFRESH_MARGIN + auth_timer'
        BY <1>1, <2>2, <3>2, <3>3, Passing
      <3>5. bearer' + cost + REFRESH_POLL >= REFRESH_MARGIN + auth_timer'
        BY <1>1, <2>2, <3>1, <3>4
      <3> QED
        BY <2>1, <2>6, <2>7, <3>5 DEF TokenInv, cost
    <2>8. CASE auth \in {"handshake", "refresh"}
      <3>1. PICK n \in Nat : n = (failed + 1) * Attempt
        BY <1>1, Costs
      <3>2. auth_timer' \in Nat /\ auth_timer = auth_timer' + 1
        BY <1>1, <2>3, <2>8
      <3>3. bearer + n >= REFRESH_MARGIN + auth_timer
        BY <2>5, <2>8, <3>1 DEF TokenInv
      <3>4. bearer' + n >= REFRESH_MARGIN + auth_timer'
        BY <1>1, <2>2, <3>2, <3>3, Passing
      <3> QED
        BY <2>1, <2>6, <2>8, <3>1, <3>4 DEF TokenInv
    <2>9. CASE auth \notin {"check", "sleep", "handshake", "refresh"}
      BY <2>1, <2>6, <2>9 DEF TokenInv
    <2> QED
      BY <2>1, <2>7, <2>8, <2>9
  <1> QED
    BY <1>3, <1>4, <1>5, <1>6, <1>7, <1>8, <1>9, <1>10 DEF Next, Refresher, Faulty

-----------------------------------------------------------------------------
(* The subscription. *)

(* What a third of a ttl leaves room for. *)
LEMMA Thirds ==
    ASSUME Prompt, NEW r \in Ttls, r > 0
    PROVE  /\ r \in Nat /\ r \div 3 \in Nat /\ r \div 3 > 0 /\ r \div 3 \in Periods
           /\ Latency <= r \div 3 /\ 2 * Latency + 2 * (r \div 3) < r
           /\ \A p \in Periods : Latency + p < r
  <1>1. r \in Nat /\ r >= 3 /\ \A p \in Periods : Latency + p < r
    BY Constants DEF Prompt
  <1>2. 2 * (Latency + r \div 3) < r
    BY DEF Prompt
  <1> DEFINE d == r \div 3
  <1>3. d \in Nat /\ 3 * d <= r /\ r <= 3 * d + 2
    BY <1>1
  <1>4. d \in Periods
    BY <1>1 DEF Periods
  <1> HIDE DEF d
  <1>5. 2 * (Latency + d) < r
    BY <1>2 DEF d
  <1>6. d > 0 /\ Latency <= d /\ 2 * Latency + 2 * d < r
    BY <1>1, <1>3, <1>5, Constants
  <1> QED
    BY <1>1, <1>3, <1>4, <1>6 DEF d

LEMMA BeatInit == Init => IBeat
  <1> SUFFICES ASSUME Init PROVE IBeat
    OBVIOUS
  <1>1. call_timer <= Latency /\ period \in Periods
    BY Constants DEF Init, Periods
  <1>2. beat = "wait"
    BY DEF Init
  <1>3. ~subscribed
    BY DEF Init
  <1> QED
    BY <1>1, <1>2, <1>3 DEF IBeat

LEMMA BeatTypeFacts ==
    ASSUME IType
    PROVE  /\ call_timer \in Nat /\ ticker \in Nat /\ period \in Nat /\ period > 0
           /\ reply \in Nat /\ subscription \in Nat /\ missed \in 0 .. 2 /\ ticker <= period
  <1>1. call_timer \in Nat /\ ticker \in Nat /\ reply \in Nat /\ subscription \in Nat
    BY DEF IType, TypeOK
  <1>2. period \in Nat \ {0} /\ ticker <= period /\ missed \in 0 .. 2
    BY DEF IType, TypeOK
  <1> QED
    BY <1>1, <1>2

(* A tick of the ticker starts a call and a new period. *)
LEMMA SendOK == ASSUME IType, IBeat, Send PROVE IBeat'
  <1> USE Constants, BeatTypeFacts
  <1>1. /\ beat = "wait" /\ ticker = 0 /\ beat' = "sent" /\ call_timer' = Latency
        /\ ticker' = period /\ UNCHANGED <<period, reply, subscription, subscribed, missed>>
    BY DEF Send
  <1>2. call_timer' <= Latency /\ period' \in Periods
    BY <1>1 DEF IBeat
  <1>3. ASSUME subscribed, missed < 2 PROVE Covered'
    <2>1. Covered
      BY <1>1, <1>3 DEF IBeat
    <2>2. CASE missed = 0
      <3>1. subscription > period + Latency /\ Latency <= period
        BY <1>1, <2>1, <2>2 DEF Covered
      <3>2. subscription > Latency + Latency
        BY <3>1
      <3> QED
        BY <1>1, <2>2, <3>1, <3>2 DEF Covered
    <2>3. CASE missed = 1
      <3>1. subscription > Latency
        BY <1>1, <2>1, <2>3 DEF Covered
      <3> QED
        BY <1>1, <2>3, <3>1 DEF Covered
    <2> QED
      BY <1>3, <2>2, <2>3
  <1> QED
    BY <1>1, <1>2, <1>3 DEF IBeat

(* An accepted heartbeat leaves room for two periods and two calls. *)
LEMMA AcceptOK == ASSUME Prompt, IType, IBeat, Accept PROVE IBeat'
  <1> USE Constants, BeatTypeFacts
  <1>1. /\ beat' = "answered" /\ reply' \in Ttls /\ subscription' = reply'
        /\ missed' = 0 /\ UNCHANGED <<call_timer, ticker, period>>
    BY DEF Accept
  <1>2. subscribed' = (reply' > 0)
    BY DEF Accept
  <1>3. call_timer <= Latency /\ period \in Periods
    BY DEF IBeat
  <1>4. ASSUME reply' > 0 PROVE Covered'
    <2>1. PICK r \in Ttls : r = reply' /\ r > 0
      BY <1>1, <1>4
    <2>2. PICK d \in Nat : d = r \div 3
      BY <2>1, Thirds
    <2>3. r \in Nat /\ 2 * Latency + 2 * d < r /\ Latency + period < r /\ Latency <= d
      BY <1>3, <2>1, <2>2, Thirds
    <2>4. r > call_timer + 2 * d + Latency
      BY <1>3, <2>3
    <2>5. r > ticker + Latency
      BY <2>3
    <2>6. d = period => r > ticker + period + Latency
      BY <2>3
    <2> QED
      BY <1>1, <2>1, <2>2, <2>4, <2>5, <2>6 DEF Covered
  <1> QED
    BY <1>1, <1>2, <1>3, <1>4 DEF IBeat

(* The answer sets the period to a third of the ttl, if it is not that     *)
(* already.                                                                *)
LEMMA HearOK == ASSUME Prompt, IType, IBeat, Hear PROVE IBeat'
  <1> USE Constants, BeatTypeFacts
  <1> DEFINE d == reply \div 3
  <1>1. /\ beat = "answered" /\ beat' \in {"wait", "done"} /\ missed = 0 /\ missed' = 0
        /\ UNCHANGED <<call_timer, reply, subscription, subscribed>>
        /\ reply \in Ttls /\ (subscribed => reply > 0)
    BY DEF Hear, Loops, IBeat
  <1>2. \/ d # 0 /\ d # period /\ period' = d /\ ticker' = d
        \/ (d = 0 \/ d = period) /\ UNCHANGED <<period, ticker>>
    BY DEF Hear
  <1>3. call_timer' <= Latency /\ period' \in Periods
    <2>1. d # 0 => d \in Periods
      BY <1>1 DEF Periods
    <2> QED
      BY <1>1, <1>2, <2>1 DEF IBeat
  <1>4. ASSUME subscribed, beat' = "wait" PROVE Covered'
    <2>1. /\ subscription > call_timer + 2 * d + Latency
          /\ subscription > ticker + Latency
          /\ d = period => subscription > ticker + period + Latency
      BY <1>1, <1>4 DEF IBeat, Covered
    <2>2. d \in Nat /\ d > 0 /\ Latency <= d
      BY <1>1, <1>4, Thirds
    <2> HIDE DEF d
    <2>3. subscription > d + d + Latency
      BY <2>1, <2>2
    <2>4. subscription' > ticker' + period' + Latency /\ Latency <= period'
      BY <1>1, <1>2, <2>1, <2>2, <2>3
    <2> QED
      BY <1>1, <1>4, <2>4 DEF Covered
  <1> QED
    BY <1>1, <1>3, <1>4 DEF IBeat

(* A failed call is one missed. *)
LEMMA MissOK ==
    ASSUME Prompt, IType, IBeat, Refuse \/ LoseRequest \/ LoseReply
    PROVE  IBeat'
  <1> USE Constants, BeatTypeFacts
  <1>1. /\ beat \in {"sent", "answered"} /\ beat' \in {"wait", "done"}
        /\ missed' = oneMore(missed)
        /\ UNCHANGED <<call_timer, ticker, period, reply, subscription, subscribed>>
    BY DEF Refuse, LoseRequest, Missed, LoseReply, Loops
  <1>2. missed' < 2 => missed = 0 /\ missed' = 1
    BY <1>1 DEF oneMore
  <1>3. missed' # 0
    BY <1>1 DEF oneMore
  <1>4. ASSUME subscribed, missed = 0 PROVE subscription > ticker + Latency
    BY <1>1, <1>4 DEF IBeat, Covered
  <1>5. ASSUME subscribed, missed' < 2 PROVE Covered'
    BY <1>1, <1>2, <1>3, <1>4, <1>5 DEF Covered
  <1> QED
    BY <1>1, <1>5 DEF IBeat

(* The clock. *)
LEMMA BeatTick == ASSUME IType, IBeat, Tick PROVE IBeat'
  <1> USE Constants, BeatTypeFacts
  <1>1. /\ UNCHANGED <<beat, period, reply, subscribed, missed>>
        /\ call_timer' = less(call_timer) /\ ticker' = less(ticker)
        /\ subscription' = less(subscription)
        /\ (beat = "wait" => ticker > 0)
        /\ (beat \in {"sent", "answered"} => call_timer > 0)
    BY DEF Tick
  <1>2. PICK c \in Nat, k \in Nat, s \in Nat :
          c = call_timer' /\ k = ticker' /\ s = subscription'
    BY <1>1, Less
  <1>3. /\ c <= call_timer /\ k <= ticker /\ ticker <= k + 1 /\ subscription <= s + 1
        /\ (ticker > 0 => ticker = k + 1) /\ (ticker = 0 => k = 0)
        /\ (call_timer > 0 => call_timer = c + 1)
    BY <1>1, <1>2 DEF less
  <1>4. c <= Latency
    BY <1>3 DEF IBeat
  <1>5. ASSUME Covered PROVE Covered'
    <2>1. beat = "wait" /\ missed = 0 => s > k + period + Latency /\ Latency <= period
      BY <1>1, <1>3, <1>5 DEF Covered
    <2>2. beat = "wait" /\ missed = 1 => s > k + Latency
      BY <1>1, <1>3, <1>5 DEF Covered
    <2>3. beat = "sent" /\ missed = 0 => s > k + Latency /\ s > c + Latency
      BY <1>1, <1>3, <1>5 DEF Covered
    <2>4. beat = "sent" /\ missed = 1 => s > c
      BY <1>1, <1>3, <1>5 DEF Covered
    <2>5. ASSUME beat = "answered"
          PROVE  /\ s > c + 2 * (reply \div 3) + Latency
                 /\ s > k + Latency
                 /\ reply \div 3 = period => s > k + period + Latency
      <3>1. PICK d \in Nat : d = reply \div 3
        OBVIOUS
      <3>2. /\ subscription > call_timer + 2 * d + Latency
            /\ subscription > ticker + Latency
            /\ d = period => subscription > ticker + period + Latency
        BY <1>5, <2>5, <3>1 DEF Covered
      <3>3. s > c + 2 * d + Latency
        BY <1>1, <1>3, <2>5, <3>2
      <3>4. s > k + Latency
        BY <1>1, <1>3, <2>5, <3>2, <3>3
      <3>5. d = period => s > k + period + Latency
        BY <1>1, <1>3, <2>5, <3>2, <3>3
      <3> QED
        BY <3>1, <3>3, <3>4, <3>5
    <2> QED
      BY <1>1, <1>2, <2>1, <2>2, <2>3, <2>4, <2>5 DEF Covered
  <1> QED
    BY <1>1, <1>2, <1>4, <1>5 DEF IBeat

LEMMA BeatStep == Prompt /\ IType /\ IBeat /\ [Next]_vars => IBeat'
  <1> SUFFICES ASSUME Prompt, IType, IBeat, [Next]_vars PROVE IBeat'
    OBVIOUS
  <1>1. CASE SetExit \/ Refresher \/ AuthFails \/ Panic \/ UNCHANGED vars
    <2>1. UNCHANGED beatVars
      BY <1>1 DEF SetExit, Refresher, AuthExit, Rotate, Refresh, Idle, Goes, Wake, Rotated,
                  Refreshed, AuthFails, Panic, vars
    <2> QED
      BY <2>1 DEF IBeat, Covered, beatVars
  <1>2. CASE Bail
    <2>1. beat' = "bailed" /\ UNCHANGED <<call_timer, period>>
      BY <1>2 DEF Bail
    <2> QED
      BY <2>1 DEF IBeat
  <1> QED
    BY <1>1, <1>2, SendOK, AcceptOK, HearOK, MissOK, BeatTick DEF Next, Heartbeat, Faulty

-----------------------------------------------------------------------------
(* Types, the ticker within its period, and failed calls within faults.    *)
THEOREM TypeCorrect == Spec => []TypeOK
  <1>1. IType => TypeOK
    BY DEF IType
  <1> QED
    BY <1>1, TypeInit, TypeStep, PTL DEF Spec

(* The bearer token is good as long as the refresher runs, unless auth     *)
(* calls failed in a row for as long as the margin is (auth.rs:26-29).     *)
THEOREM TokenIsGood ==
    ASSUME LongLived
    PROVE  Spec => []TokenOutlives
  <1>1. IType /\ IToken => TokenOutlives
    <2> SUFFICES ASSUME IType, IToken, auth \notin {"panicked", "done"}, bearer = 0
                 PROVE  (failed + 1) * Attempt >= REFRESH_MARGIN
      BY DEF TokenOutlives, Attempt, IType, TypeOK
    <2>1. TokenInv /\ failed \in Nat /\ auth_timer \in Nat
      BY DEF IToken, IType, TypeOK
    <2>2. PICK n \in Nat :
            n = failed * Attempt /\ (failed + 1) * Attempt = n + Latency + REFRESH_POLL
      BY <2>1, Costs
    <2>3. CASE auth = "check"
      BY <2>1, <2>2, <2>3, Constants DEF TokenInv
    <2>4. CASE auth = "sleep"
      BY <2>1, <2>2, <2>4, Constants DEF TokenInv
    <2>5. CASE auth \in {"handshake", "refresh"}
      BY <2>1, <2>2, <2>5, Constants DEF TokenInv
    <2> QED
      BY <2>3, <2>4, <2>5 DEF IType, TypeOK
  <1>2. LongLived /\ Init => IToken
    BY TokenInit
  <1>3. LongLived /\ IType /\ IToken /\ [Next]_vars => IToken'
    BY TokenStep
  <1> QED
    BY <1>1, <1>2, <1>3, TypeInit, TypeStep, PTL DEF Spec

(* A subscription outlives any one failed call since it was last renewed,  *)
(* and any change of the ttl that is granted (heartbeat.rs:44-45).         *)
THEOREM NeverMissed ==
    ASSUME Prompt
    PROVE  Spec => []KeptAlive
  <1>1. IType /\ IBeat => KeptAlive
    <2> SUFFICES ASSUME IType, IBeat, subscribed, beat \notin {"bailed", "done"}, missed < 2
                 PROVE  subscription > 0
      BY DEF KeptAlive, IType, TypeOK
    <2>1. Covered /\ (beat = "answered" => missed = 0)
      BY DEF IBeat
    <2>2. missed \in {0, 1} /\ beat \in {"wait", "sent", "answered"}
      BY DEF IType, TypeOK
    <2>3. CASE beat = "wait"
      BY <2>1, <2>2, <2>3, BeatTypeFacts, Constants DEF Covered
    <2>4. CASE beat = "sent"
      BY <2>1, <2>2, <2>4, BeatTypeFacts, Constants DEF Covered
    <2>5. CASE beat = "answered"
      BY <2>1, <2>2, <2>5, BeatTypeFacts, Constants DEF Covered
    <2> QED
      BY <2>2, <2>3, <2>4, <2>5
  <1>2. Init => IBeat
    BY BeatInit
  <1>3. Prompt /\ IType /\ IBeat /\ [Next]_vars => IBeat'
    BY BeatStep
  <1> QED
    BY <1>1, <1>2, <1>3, TypeInit, TypeStep, PTL DEF Spec
=============================================================================
