-------------------------- MODULE AuthStoreProofs --------------------------
(***************************************************************************)
(* Proofs about passwords, login throttling and sessions, for any number   *)
(* of clients, passwords and sessions and any limits the assumptions       *)
(* allow.                                                                  *)
(***************************************************************************)
EXTENDS AuthStore, TLAPS

Record == [failures : 0..(loginFailureLimit - 1), blockedUntil : Nat, lastSeen : Nat]

(***************************************************************************)
(* Which password counts: none was ever set and the legacy token is it, or *)
(* the file names it and a running program agrees; a file that was cut     *)
(* short decides nothing, one that is complete though its write failed     *)
(* decides at the next start.                                              *)
(***************************************************************************)
PasswordInv ==
    /\ writing # NotWriting => file = Empty /\ writing.password \in Password
    /\ file = None => /\ hash = None /\ clearing = 0
                      /\ legacy = acknowledged /\ legacy = Overridden(stored)
    /\ file \in Password /\ ~unanswered => acknowledged = file /\ (up => hash = file)
    /\ unanswered => file \in Password

\* The time a block lasts at least: the login that begins it may have read an old clock.
Pace == loginBlockDuration - MaxWait

\* The failure k places before the last one.
Back(s, k) == s[Len(s) - k]

\* Histories are in order, end in the past and are cut to the length needed.
History(s, t) ==
    /\ s \in Seq(Nat) /\ Len(s) <= loginFailureLimit + 1
    /\ \A k \in 0..(Len(s) - 1) : Back(s, k) \in Nat /\ Back(s, k) <= t
    /\ \A j, k \in 0..(Len(s) - 1) : j <= k => Back(s, k) <= Back(s, j)

(***************************************************************************)
(* What a record knows of the history it was made from, at time t: all     *)
(* failures but the a.failures latest are Pace old, or will be when the    *)
(* block ends, and a block is due to the latest failure.                   *)
(***************************************************************************)
Accounts(s, a, t) ==
    /\ a.failures <= Len(s)
    /\ Len(s) > a.failures =>
          \/ Back(s, a.failures) + Pace <= t
          \/ Back(s, a.failures) + Pace <= a.blockedUntil
    /\ a.blockedUntil > 0 => Len(s) > 0 /\ a.blockedUntil <= Back(s, 0) + loginBlockDuration

Kept(c) == IF c \in DOMAIN attempts THEN attempts[c] ELSE NoAttempt

LoginInv ==
    /\ failed \in [Client -> Seq(Nat)]
    /\ \A c \in Client :
          /\ History(failed[c], now) /\ Accounts(failed[c], Kept(c), now)
          /\ c \in DOMAIN attempts /\ Len(failed[c]) > 0 =>
                Back(failed[c], 0) <= attempts[c].lastSeen + MaxWait

IInv == TypeOK /\ PasswordInv /\ LoginInv /\ FailuresPaced

----------------------------------------------------------------------------
(* Login throttling. *)

(***************************************************************************)
(* Appending a failure moves the others one place back, and cutting the    *)
(* history loses none of the last loginFailureLimit + 1.                   *)
(***************************************************************************)
LEMMA LatestBack ==
    ASSUME NEW s \in Seq(Nat), Len(s) <= loginFailureLimit + 1, NEW x \in Nat,
           NEW r, r = Latest(Append(s, x))
    PROVE  /\ r \in Seq(Nat) /\ Len(r) <= loginFailureLimit + 1
           /\ Len(r) >= 1 /\ Len(r) <= Len(s) + 1
           /\ Len(r) = Len(s) + 1 \/ Len(r) = loginFailureLimit + 1
           /\ Back(r, 0) = x
           /\ \A k \in 1..(Len(r) - 1) : Back(r, k) = Back(s, k - 1)
<1> DEFINE q == Append(s, x)
<1>0. loginFailureLimit \in Nat /\ Len(s) \in Nat  BY AuthAssumption
<1>1. /\ q \in Seq(Nat) /\ Len(q) = Len(s) + 1 /\ q[Len(s) + 1] = x
      /\ \A i \in 1..Len(s) : q[i] = s[i]
  OBVIOUS
<1> HIDE DEF q
<1>2. CASE Len(q) <= loginFailureLimit + 1
  <2>1. r = q  BY <1>0, <1>1, <1>2 DEF Latest, q
  <2>2. Back(r, 0) = x  BY <1>0, <1>1, <2>1 DEF Back
  <2>3. ASSUME NEW k \in 1..(Len(r) - 1) PROVE Back(r, k) = Back(s, k - 1)
    <3>1. Len(r) - k \in 1..Len(s) /\ Len(s) - (k - 1) = Len(r) - k  BY <1>0, <1>1, <2>1
    <3> QED  BY <1>1, <2>1, <3>1 DEF Back
  <2> QED  BY <1>0, <1>1, <1>2, <2>1, <2>2, <2>3
<1>3. CASE Len(q) > loginFailureLimit + 1
  <2>1. r = Tail(q)  BY <1>3 DEF Latest, q
  <2>2. /\ r \in Seq(Nat) /\ Len(r) = Len(s)
        /\ \A i \in 1..Len(s) : r[i] = q[i + 1]
    BY <1>0, <1>1, <1>3, <2>1
  <2>3. Len(s) = loginFailureLimit + 1  BY <1>0, <1>1, <1>3
  <2>4. Back(r, 0) = x
    <3>1. Len(s) \in 1..Len(s) /\ Len(s) - 0 = Len(s)  BY <1>0, <2>3
    <3> QED  BY <1>1, <2>2, <3>1 DEF Back
  <2>5. ASSUME NEW k \in 1..(Len(r) - 1) PROVE Back(r, k) = Back(s, k - 1)
    <3>1. /\ Len(s) - k \in 1..Len(s) /\ Len(s) - k + 1 \in 1..Len(s)
          /\ Len(s) - (k - 1) = Len(s) - k + 1
      BY <1>0, <2>2
    <3> QED  BY <1>1, <2>2, <3>1 DEF Back
  <2> QED  BY <1>0, <2>2, <2>3, <2>4, <2>5
<1> QED  BY <1>0, <1>1, <1>2, <1>3

(***************************************************************************)
(* A failure at time u that was not refused by the clock read at t: the    *)
(* history stays in order, any loginFailureLimit + 1 failures keep their   *)
(* distance, and the new record accounts for the new history.              *)
(***************************************************************************)
LEMMA FailureAccounted ==
    ASSUME NEW t \in Nat, NEW u \in Nat, t <= u, u - t <= MaxWait, NEW s, NEW a \in Record,
           History(s, u), Accounts(s, a, u), ~(t < a.blockedUntil),
           NEW r, r = Latest(Append(s, u)),
           NEW b \in Record,
           \/ /\ a.failures + 1 >= loginFailureLimit
              /\ b.failures = 0 /\ b.blockedUntil = t + loginBlockDuration
           \/ /\ a.failures + 1 < loginFailureLimit
              /\ b.failures = a.failures + 1 /\ b.blockedUntil = a.blockedUntil
    PROVE  /\ History(r, u) /\ Accounts(r, b, u)
           /\ Len(r) > loginFailureLimit =>
                 r[Len(r)] - r[Len(r) - loginFailureLimit] >= Pace
           /\ Len(r) > 0 /\ Back(r, 0) = u
<1>0. /\ loginFailureLimit \in Nat \ {0} /\ loginBlockDuration \in Nat /\ MaxWait \in Nat
      /\ Pace \in Int /\ Pace = loginBlockDuration - MaxWait
      /\ s \in Seq(Nat) /\ Len(s) \in Nat /\ Len(s) <= loginFailureLimit + 1
      /\ a.failures \in Nat /\ a.failures <= loginFailureLimit - 1 /\ a.blockedUntil \in Nat
      /\ a.failures <= Len(s)
  BY AuthAssumption DEF History, Accounts, Record, Pace
<1>1. /\ r \in Seq(Nat) /\ Len(r) <= loginFailureLimit + 1
      /\ Len(r) \in Nat /\ Len(r) >= 1 /\ Len(r) <= Len(s) + 1
      /\ Len(r) = Len(s) + 1 \/ Len(r) = loginFailureLimit + 1
      /\ Back(r, 0) = u
      /\ \A k \in 1..(Len(r) - 1) : Back(r, k) = Back(s, k - 1)
  BY <1>0, LatestBack
<1>2. \A k \in 0..(Len(s) - 1) : Back(s, k) \in Nat /\ Back(s, k) <= u  BY DEF History
<1>3. \A j, k \in 0..(Len(s) - 1) : j <= k => Back(s, k) <= Back(s, j)  BY DEF History
<1>4. \A k \in 1..(Len(r) - 1) : k - 1 \in 0..(Len(s) - 1) /\ Back(r, k) = Back(s, k - 1)
  <2>1. Len(s) \in Nat /\ Len(r) \in Nat /\ Len(r) - 1 <= Len(s)  BY <1>0, <1>1
  <2>2. \A k \in 1..(Len(r) - 1) : k - 1 \in 0..(Len(s) - 1)  BY <2>1
  <2> QED  BY <1>1, <2>2
<1>5. History(r, u)
  <2>1. \A k \in 0..(Len(r) - 1) : Back(r, k) \in Nat /\ Back(r, k) <= u
    BY <1>1, <1>2, <1>4
  <2>2. ASSUME NEW j \in 0..(Len(r) - 1), NEW k \in 0..(Len(r) - 1), j <= k
        PROVE  Back(r, k) <= Back(r, j)
    <3>1. CASE j = 0  BY <1>1, <2>1, <3>1
    <3>2. CASE j # 0
      <4>1. j \in 1..(Len(r) - 1) /\ k \in 1..(Len(r) - 1) /\ j - 1 <= k - 1
        BY <1>1, <2>2, <3>2
      <4> QED  BY <1>3, <1>4, <4>1
    <3> QED  BY <3>1, <3>2
  <2> QED  BY <1>1, <2>1, <2>2 DEF History
<1>6. Len(s) > a.failures => Back(s, a.failures) + Pace <= u
  <2> SUFFICES ASSUME Len(s) > a.failures PROVE Back(s, a.failures) + Pace <= u
    OBVIOUS
  <2>1. Back(s, a.failures) \in Nat  BY <1>0, <1>2
  <2> QED  BY <1>0, <2>1 DEF Accounts
<1>7. Accounts(r, b, u)
  <2>1. CASE a.failures + 1 >= loginFailureLimit
    <3>1. b.failures = 0 /\ b.blockedUntil = t + loginBlockDuration
      <4>1. ~(a.failures + 1 < loginFailureLimit)  BY <1>0, <2>1
      <4> QED  BY <4>1
    <3>2. Len(r) \in Nat /\ Back(r, 0) = u  BY <1>0, <1>1
    <3>3. Len(r) >= 1  BY <1>1
    <3>4. u + Pace <= t + loginBlockDuration /\ t + loginBlockDuration <= u + loginBlockDuration
      BY <1>0
    <3> QED  BY <3>1, <3>2, <3>3, <3>4 DEF Accounts
  <2>2. CASE a.failures + 1 < loginFailureLimit
    <3>1. b.failures = a.failures + 1 /\ b.blockedUntil = a.blockedUntil  BY <1>0, <2>2
    <3>2. b.failures <= Len(r)  BY <1>0, <1>1, <3>1, <2>2
    <3>3. Len(r) > b.failures => Back(r, b.failures) + Pace <= u
      <4> SUFFICES ASSUME Len(r) > b.failures
                   PROVE  Back(r, b.failures) + Pace <= u
        OBVIOUS
      <4>1. b.failures \in Nat /\ b.failures >= 1 /\ b.failures - 1 = a.failures  BY <1>0, <3>1
      <4>2. b.failures \in 1..(Len(r) - 1)
        <5>1. Len(r) \in Nat  BY <1>1
        <5> QED  BY <4>1, <5>1
      <4>3. Back(r, b.failures) = Back(s, a.failures)  BY <1>4, <4>1, <4>2
      <4>4. Len(s) > a.failures  BY <1>0, <1>4, <4>1, <4>2
      <4> QED  BY <1>6, <4>3, <4>4
    <3>4. b.blockedUntil > 0 => b.blockedUntil <= Back(r, 0) + loginBlockDuration
      <4> SUFFICES ASSUME a.blockedUntil > 0 PROVE a.blockedUntil <= u + loginBlockDuration
        BY <1>1, <3>1
      <4> QED  BY <1>0, <1>2 DEF Accounts
    <3> QED  BY <1>1, <3>2, <3>3, <3>4 DEF Accounts
  <2> QED  BY <1>0, <2>1, <2>2
<1>8. ASSUME Len(r) > loginFailureLimit
      PROVE  r[Len(r)] - r[Len(r) - loginFailureLimit] >= Pace
  <2>1. /\ loginFailureLimit \in 1..(Len(r) - 1)
        /\ loginFailureLimit - 1 \in 0..(Len(s) - 1) /\ a.failures \in 0..(Len(s) - 1)
        /\ a.failures <= loginFailureLimit - 1
    <3>1. /\ Len(s) \in Nat /\ Len(r) \in Nat /\ a.failures \in Nat
          /\ loginFailureLimit \in Nat \ {0} /\ a.failures <= loginFailureLimit - 1
      BY <1>0, <1>1
    <3>2. Len(r) <= Len(s) + 1  BY <1>1
    <3>3. loginFailureLimit <= Len(r) - 1 /\ loginFailureLimit - 1 <= Len(s) - 1
      BY <1>8, <3>1, <3>2
    <3> QED  BY <3>1, <3>3
  <2>2. Back(r, loginFailureLimit) = Back(s, loginFailureLimit - 1)  BY <1>4, <2>1
  <2>3. Back(s, loginFailureLimit - 1) <= Back(s, a.failures)  BY <1>3, <2>1
  <2>4. Back(s, a.failures) + Pace <= u  BY <1>0, <1>6, <2>1
  <2>5. Back(s, a.failures) \in Nat /\ Back(s, loginFailureLimit - 1) \in Nat  BY <1>2, <2>1
  <2>6. r[Len(r)] = u  BY <1>1 DEF Back
  <2> HIDE DEF Back
  <2>7. u - Back(r, loginFailureLimit) >= Pace
    BY <1>0, <2>2, <2>3, <2>4, <2>5
  <2> QED  BY <2>6, <2>7 DEF Back
<1> QED  BY <1>1, <1>5, <1>7, <1>8

(***************************************************************************)
(* Time alone keeps a history and its account.                             *)
(***************************************************************************)
LEMMA TimePasses ==
    ASSUME NEW s, NEW a \in Record, NEW t \in Nat, NEW u \in Nat, t <= u,
           History(s, t), Accounts(s, a, t)
    PROVE  History(s, u) /\ Accounts(s, a, u)
<1>0. Pace \in Int /\ a.failures \in Nat /\ Len(s) \in Nat
  BY AuthAssumption DEF Record, History, Pace
<1>1. History(s, u)  BY DEF History
<1>2. Len(s) > a.failures => Back(s, a.failures) \in Nat  BY <1>0 DEF History
<1> QED  BY <1>0, <1>1, <1>2 DEF Accounts

(***************************************************************************)
(* A record that is forgotten at a clock read at t was at least            *)
(* loginBlockDuration old, so that the empty record accounts for the       *)
(* history as well.                                                        *)
(***************************************************************************)
LEMMA AttemptAccounts ==
    ASSUME TypeOK, LoginInv, NEW c \in Client, NEW t \in Read
    PROVE  /\ Attempt(c, t) \in Record /\ Accounts(failed[c], Attempt(c, t), now)
           /\ Kept(c) \in Record
<1>0. /\ loginFailureLimit \in Nat \ {0} /\ loginBlockDuration \in Nat
      /\ loginRecordLifetime \in Nat /\ loginRecordLifetime >= loginBlockDuration /\ now \in Nat
      /\ MaxWait \in Nat /\ Pace \in Int /\ Pace = loginBlockDuration - MaxWait
      /\ t \in Nat /\ t <= now
  BY AuthAssumption DEF TypeOK, Pace, Read
<1>1. NoAttempt \in Record /\ NoAttempt.failures = 0 /\ NoAttempt.blockedUntil = 0
  BY <1>0 DEF NoAttempt, Record
<1>2. Kept(c) \in Record  BY <1>1 DEF TypeOK, Kept, Record
<1>3. CASE c \in Remembered(t)
  BY <1>2, <1>3 DEF LoginInv, Attempt, Kept, Remembered
<1>4. CASE c \notin DOMAIN attempts
  BY <1>1, <1>2, <1>4 DEF LoginInv, Attempt, Kept, Remembered
<1>5. CASE c \in DOMAIN attempts /\ c \notin Remembered(t)
  <2>1. Attempt(c, t) = NoAttempt  BY <1>5 DEF Attempt
  <2>2. attempts[c].lastSeen \in Nat /\ t - attempts[c].lastSeen > loginRecordLifetime
    BY <1>0, <1>5 DEF TypeOK, Remembered
  <2>3. Len(failed[c]) \in Nat /\ (Len(failed[c]) > 0 => Back(failed[c], 0) \in Nat)
    BY DEF LoginInv, History
  <2>4. Len(failed[c]) > 0 => Back(failed[c], 0) <= attempts[c].lastSeen + MaxWait
    BY <1>5 DEF LoginInv
  <2>5. ASSUME Len(failed[c]) > 0 PROVE Back(failed[c], 0) + Pace <= now
    <3>1. PICK x, y : x = Back(failed[c], 0) /\ y = attempts[c].lastSeen  OBVIOUS
    <3>2. x \in Nat /\ y \in Nat /\ x <= y + MaxWait  BY <2>2, <2>3, <2>4, <2>5, <3>1
    <3>3. t > y + loginBlockDuration  BY <1>0, <2>2, <3>1, <3>2
    <3>4. x + Pace <= now  BY <1>0, <3>2, <3>3
    <3> QED  BY <3>1, <3>4
  <2> QED  BY <1>1, <1>2, <2>1, <2>3, <2>5 DEF Accounts
<1> QED  BY <1>3, <1>4, <1>5

(***************************************************************************)
(* What is true of the login records is true of them after a step that     *)
(* replaces the record of one client only, and forgets old ones.           *)
(***************************************************************************)
LEMMA LoginStep ==
    ASSUME TypeOK, LoginInv, FailuresPaced, NEW c \in Client, NEW t \in Read, UNCHANGED now,
           NEW S, S \subseteq Remembered(t) \cup {c}, Remembered(t) \subseteq S \cup {c},
           NEW x \in Record,
           attempts' = [d \in S |-> IF d = c THEN x ELSE attempts[d]],
           NEW r \in Seq(Nat), failed' = [failed EXCEPT ![c] = r],
           History(r, now), Accounts(r, IF c \in S THEN x ELSE NoAttempt, now),
           c \in S /\ Len(r) > 0 => Back(r, 0) <= x.lastSeen + MaxWait,
           Len(r) > loginFailureLimit =>
               r[Len(r)] - r[Len(r) - loginFailureLimit] >= Pace
    PROVE  /\ LoginInv' /\ FailuresPaced'
           /\ DOMAIN attempts' \subseteq Client /\ \A d \in DOMAIN attempts' : attempts'[d] \in Record
<1>1. /\ failed' \in [Client -> Seq(Nat)] /\ failed'[c] = r
      /\ \A d \in Client \ {c} : failed'[d] = failed[d]
  BY DEF LoginInv
<1>2. DOMAIN attempts' = S /\ \A d \in S : attempts'[d] = IF d = c THEN x ELSE attempts[d]
  OBVIOUS
<1>3. Remembered(t) \subseteq DOMAIN attempts /\ DOMAIN attempts \subseteq Client
  BY DEF Remembered, TypeOK
<1>4. /\ DOMAIN attempts' \subseteq Client
      /\ \A d \in DOMAIN attempts' : attempts'[d] \in Record
  BY <1>2, <1>3 DEF TypeOK, Record
<1>5. FailuresPaced'  BY <1>1 DEF FailuresPaced, Pace
<1>6. ASSUME NEW d \in Client
      PROVE  /\ History(failed'[d], now) /\ Accounts(failed'[d], Kept(d)', now)
             /\ d \in DOMAIN attempts' /\ Len(failed'[d]) > 0 =>
                   Back(failed'[d], 0) <= attempts'[d].lastSeen + MaxWait
  <2>1. CASE d = c
    <3>1. Kept(d)' = IF c \in S THEN x ELSE NoAttempt  BY <1>2, <2>1 DEF Kept
    <3> QED  BY <1>1, <1>2, <2>1, <3>1
  <2>2. CASE d # c
    <3>1. Kept(d)' = Attempt(d, t)  BY <1>2, <2>2 DEF Kept, Attempt
    <3>2. Accounts(failed[d], Attempt(d, t), now)  BY AttemptAccounts
    <3>3. d \in DOMAIN attempts' => d \in DOMAIN attempts /\ attempts'[d] = attempts[d]
      BY <1>2, <1>3, <2>2
    <3> QED  BY <1>1, <2>2, <3>1, <3>2, <3>3 DEF LoginInv
  <2> QED  BY <2>1, <2>2
<1>7. LoginInv'  BY <1>1, <1>6 DEF LoginInv
<1> QED  BY <1>4, <1>5, <1>7

(***************************************************************************)
(* A refused attempt changes nothing but when its client was last seen.    *)
(***************************************************************************)
LEMMA RefuseStep == ASSUME IInv, NEW c \in Client, NEW t \in Read, Refuse(c, t) PROVE IInv'
<1> DEFINE x == AfterRefusal(c, t)
           S == Remembered(t) \cup {c}
<1>0. /\ attempts' = [d \in S |-> IF d = c THEN x ELSE attempts[d]]
      /\ UNCHANGED <<now, up, env, password, sessions, clearing, bounds, creating, failed>>
  BY DEF Refuse, Recorded, others
<1>1. /\ Attempt(c, t) \in Record /\ Accounts(failed[c], Attempt(c, t), now)
      /\ now \in Nat /\ t \in Nat /\ now - t <= MaxWait /\ MaxWait \in Nat
  BY AttemptAccounts, AuthAssumption DEF IInv, TypeOK, Read
<1>2. /\ x \in Record /\ x.failures = Attempt(c, t).failures
      /\ x.blockedUntil = Attempt(c, t).blockedUntil /\ x.lastSeen = t
  BY <1>1 DEF AfterRefusal, Record
<1> HIDE DEF x, S
<1>3. Accounts(failed[c], x, now)  BY <1>1, <1>2 DEF Accounts
<1>4. History(failed[c], now) /\ failed[c] \in Seq(Nat)  BY DEF IInv, LoginInv
<1>5. Len(failed[c]) > 0 => Back(failed[c], 0) <= t + MaxWait
  <2>1. Len(failed[c]) > 0 => Back(failed[c], 0) \in Nat /\ Back(failed[c], 0) <= now
    BY <1>4 DEF History
  <2> QED  BY <1>1, <2>1
<1>6. failed' = [failed EXCEPT ![c] = failed[c]]  BY <1>0 DEF IInv, LoginInv
<1>7. Len(failed[c]) > loginFailureLimit =>
        failed[c][Len(failed[c])] - failed[c][Len(failed[c]) - loginFailureLimit]
           >= Pace
  BY DEF IInv, FailuresPaced, Pace
<1>8. /\ LoginInv' /\ FailuresPaced'
      /\ DOMAIN attempts' \subseteq Client /\ \A d \in DOMAIN attempts' : attempts'[d] \in Record
  <2>1. S \subseteq Remembered(t) \cup {c} /\ Remembered(t) \subseteq S \cup {c} /\ c \in S
    BY DEF S
  <2>p. PICK s : s = failed[c]  OBVIOUS
  <2> QED  BY <1>0, <1>2, <1>3, <1>4, <1>5, <1>6, <1>7, <2>1, <2>p, LoginStep DEF IInv
<1>9. TypeOK'  BY <1>0, <1>8 DEF IInv, TypeOK, Record, password
<1>10. PasswordInv'  BY <1>0 DEF IInv, PasswordInv, password, Overridden
<1> QED  BY <1>8, <1>9, <1>10 DEF IInv

(***************************************************************************)
(* A success forgets the client's failures.                                *)
(***************************************************************************)
LEMMA AdmitStep == ASSUME IInv, NEW c \in Client, NEW p, NEW t \in Read, Admit(c, p, t) PROVE IInv'
<1> DEFINE S == Remembered(t) \ {c}
<1>0. /\ attempts' = [d \in S |-> IF d = c THEN NoAttempt ELSE attempts[d]]
      /\ failed' = [failed EXCEPT ![c] = <<>>] /\ creating' = creating + 1
      /\ UNCHANGED <<now, up, env, password, sessions, clearing, bounds>>
  BY DEF Admit, others
<1>1. /\ NoAttempt \in Record /\ NoAttempt.failures = 0 /\ NoAttempt.blockedUntil = 0
      /\ loginFailureLimit \in Nat
  BY AuthAssumption DEF NoAttempt, Record
<1>2. <<>> \in Seq(Nat) /\ Len(<<>>) = 0  OBVIOUS
<1>3. History(<<>>, now) /\ Accounts(<<>>, NoAttempt, now)
  BY <1>1, <1>2 DEF History, Accounts
<1>4. S \subseteq Remembered(t) \cup {c} /\ Remembered(t) \subseteq S \cup {c} /\ c \notin S
  OBVIOUS
<1> HIDE DEF S
<1>8. /\ LoginInv' /\ FailuresPaced'
      /\ DOMAIN attempts' \subseteq Client /\ \A d \in DOMAIN attempts' : attempts'[d] \in Record
  <2>1. PICK r : r = <<>>  OBVIOUS
  <2>2. /\ r \in Seq(Nat) /\ failed' = [failed EXCEPT ![c] = r] /\ History(r, now)
        /\ Accounts(r, IF c \in S THEN NoAttempt ELSE NoAttempt, now)
        /\ ~(Len(r) > loginFailureLimit)
    BY <1>0, <1>1, <1>2, <1>3, <2>1
  <2>3. TypeOK /\ LoginInv /\ FailuresPaced /\ UNCHANGED now  BY <1>0 DEF IInv
  <2>4. PICK x : x = NoAttempt  OBVIOUS
  <2>5. /\ x \in Record /\ attempts' = [d \in S |-> IF d = c THEN x ELSE attempts[d]]
        /\ Accounts(r, IF c \in S THEN x ELSE NoAttempt, now)
    BY <1>0, <1>1, <2>2, <2>4
  <2> QED  BY <1>4, <2>2, <2>3, <2>5, LoginStep
<1>9. TypeOK'  BY <1>0, <1>8 DEF IInv, TypeOK, Record, password
<1>10. PasswordInv'  BY <1>0 DEF IInv, PasswordInv, password, Overridden
<1> QED  BY <1>8, <1>9, <1>10 DEF IInv

(***************************************************************************)
(* A failure is counted, and blocks its client when it was one too many.   *)
(***************************************************************************)
LEMMA FailStep == ASSUME IInv, NEW c \in Client, NEW p, NEW t \in Read, Fail(c, p, t) PROVE IInv'
<1> DEFINE a == Attempt(c, t)
           x == AfterFailure(c, t)
           S == Remembered(t) \cup {c}
<1>0. /\ attempts' = [d \in S |-> IF d = c THEN x ELSE attempts[d]]
      /\ failed' = [failed EXCEPT ![c] = Latest(Append(failed[c], now))]
      /\ ~(t < a.blockedUntil)
      /\ UNCHANGED <<now, up, env, password, sessions, clearing, bounds, creating>>
  BY DEF Fail, Recorded, others, Refused
<1>1. /\ a \in Record /\ Accounts(failed[c], a, now)
      /\ now \in Nat /\ t \in Nat /\ t <= now /\ now - t <= MaxWait /\ MaxWait \in Nat
  BY AttemptAccounts, AuthAssumption DEF IInv, TypeOK, Read
<1>n. /\ loginFailureLimit \in Nat \ {0} /\ loginBlockDuration \in Nat
      /\ a.failures \in Nat /\ a.failures <= loginFailureLimit - 1 /\ a.blockedUntil \in Nat
  BY <1>1, AuthAssumption DEF Record
<1>2. /\ x \in Record /\ x.lastSeen = t
      /\ \/ /\ a.failures + 1 >= loginFailureLimit
            /\ x.failures = 0 /\ x.blockedUntil = t + loginBlockDuration
         \/ /\ a.failures + 1 < loginFailureLimit
            /\ x.failures = a.failures + 1 /\ x.blockedUntil = a.blockedUntil
  <2>1. CASE a.failures + 1 >= loginFailureLimit
    <3>1. x = [failures |-> 0, blockedUntil |-> t + loginBlockDuration, lastSeen |-> t]
      BY <2>1 DEF AfterFailure
    <3>2. 0 \in 0..(loginFailureLimit - 1) /\ t + loginBlockDuration \in Nat  BY <1>1, <1>n
    <3> QED  BY <1>1, <2>1, <3>1, <3>2 DEF Record
  <2>2. CASE ~(a.failures + 1 >= loginFailureLimit)
    <3>1. x = [a EXCEPT !.failures = a.failures + 1, !.lastSeen = t]
      BY <2>2 DEF AfterFailure
    <3>2. a.failures + 1 \in 0..(loginFailureLimit - 1) /\ a.failures + 1 < loginFailureLimit
      BY <1>n, <2>2
    <3> HIDE DEF a
    <3> QED  BY <1>1, <2>2, <3>1, <3>2 DEF Record
  <2> QED  BY <2>1, <2>2
<1> HIDE DEF a, x, S
<1>3. History(failed[c], now) /\ failed[c] \in Seq(Nat)  BY DEF IInv, LoginInv
<1>r. PICK r : r = Latest(Append(failed[c], now))  OBVIOUS
<1>4. /\ History(r, now) /\ Accounts(r, x, now)
      /\ Len(r) > loginFailureLimit =>
            r[Len(r)] - r[Len(r) - loginFailureLimit] >= Pace
      /\ Len(r) > 0 /\ Back(r, 0) = now
  BY <1>0, <1>1, <1>2, <1>3, <1>r, FailureAccounted
<1>5. r \in Seq(Nat)  BY <1>4 DEF History
<1>8. /\ LoginInv' /\ FailuresPaced'
      /\ DOMAIN attempts' \subseteq Client /\ \A d \in DOMAIN attempts' : attempts'[d] \in Record
  <2>1. S \subseteq Remembered(t) \cup {c} /\ Remembered(t) \subseteq S \cup {c} /\ c \in S
    BY DEF S
  <2>2. Back(r, 0) <= x.lastSeen + MaxWait  BY <1>1, <1>2, <1>4
  <2>3. failed' = [failed EXCEPT ![c] = r]  BY <1>0, <1>r
  <2>4. Accounts(r, IF c \in S THEN x ELSE NoAttempt, now)  BY <1>4, <2>1
  <2> QED  BY <1>0, <1>2, <1>4, <1>5, <2>1, <2>2, <2>3, <2>4, LoginStep DEF IInv
<1>9. TypeOK'  BY <1>0, <1>8 DEF IInv, TypeOK, Record, password
<1>10. PasswordInv'  BY <1>0 DEF IInv, PasswordInv, password, Overridden
<1> QED  BY <1>8, <1>9, <1>10 DEF IInv

----------------------------------------------------------------------------
(* Passwords and sessions. *)

(***************************************************************************)
(* Steps that touch no login record.                                       *)
(***************************************************************************)
LEMMA LoginsKept ==
    ASSUME IInv, UNCHANGED logins, now' \in Nat, now <= now' PROVE LoginInv' /\ FailuresPaced'
<1>1. FailuresPaced'  BY DEF IInv, FailuresPaced, logins
<1>2. now \in Nat  BY DEF IInv, TypeOK
<1>3. ASSUME NEW c \in Client
      PROVE  History(failed[c], now') /\ Accounts(failed[c], Kept(c), now')
  <2>0. now \in Read  BY <1>2, AuthAssumption DEF Read
  <2>1. Kept(c) \in Record  BY <2>0, AttemptAccounts DEF IInv
  <2> QED  BY <1>2, <2>1, TimePasses DEF IInv, LoginInv
<1>4. LoginInv'  BY <1>3 DEF IInv, LoginInv, logins, Kept
<1> QED  BY <1>1, <1>4

(***************************************************************************)
(* Whoever writes the hash leaves a file that decides nothing until the    *)
(* write has ended.                                                        *)
(***************************************************************************)
LEMMA PasswordStep ==
    ASSUME IInv,
           \/ \E p \in Password : Setup(p)
           \/ \E t \in Token, current, p \in Password : Change(t, current, p)
           \/ EndWrite \/ WriteFails \/ ClearLegacyAuth \/ ClearFails
    PROVE  IInv'
<1>0. UNCHANGED <<now, up, env, logins>>
  BY DEF Setup, Change, BeginWrite, EndWrite, WriteFails, ClearLegacyAuth, ClearFails
<1>1. LoginInv' /\ FailuresPaced'  BY <1>0, LoginsKept DEF IInv, TypeOK
<1>t. /\ now' \in Nat /\ up' \in BOOLEAN /\ env' \in Password \cup {None}
      /\ DOMAIN attempts' \subseteq Client
      /\ \A c \in DOMAIN attempts' : attempts'[c] \in Record
  BY <1>0 DEF IInv, TypeOK, logins, Record
<1>2. ASSUME NEW kind \in {"setup", "change"}, NEW p \in Password, BeginWrite(kind, p) PROVE IInv'
  <2>0. /\ file' = Empty /\ unanswered' = FALSE /\ writing' = [kind |-> kind, password |-> p]
        /\ UNCHANGED <<stored, hash, legacy, acknowledged, sessions, clearing, creating>>
    BY <1>2 DEF BeginWrite, handlers
  <2>1. TypeOK'  BY <2>0, <1>t DEF IInv, TypeOK, Record
  <2>2. Empty # None /\ Empty \notin Password  BY AuthAssumption
  <2>3. PasswordInv'  BY <2>0, <2>2 DEF PasswordInv
  <2> QED  BY <1>1, <2>1, <2>3 DEF IInv
<1>3. CASE EndWrite
  <2>0. /\ file' = writing.password /\ hash' = writing.password /\ acknowledged' = writing.password
        /\ unanswered' = FALSE /\ writing' = NotWriting /\ writing.password \in Password /\ stored' = stored
        /\ legacy' \in {None, legacy}
    BY <1>3 DEF EndWrite, IInv, PasswordInv
  <2>1. sessions' = sessions \/ DOMAIN sessions' = {}  BY <1>3 DEF EndWrite
  <2>2. clearing' \in Nat /\ creating' \in Nat  BY <1>3 DEF EndWrite, IInv, TypeOK
  <2>3. NotWriting \in [kind : {None, "setup", "change"}, password : Password \cup {None}]
    BY DEF NotWriting
  <2>4. TypeOK'  BY <1>t, <2>0, <2>1, <2>2, <2>3 DEF IInv, TypeOK, Record
  <2>5. None \notin Password  BY AuthAssumption
  <2>6. PasswordInv'  BY <2>0, <2>5 DEF PasswordInv
  <2> QED  BY <1>1, <2>4, <2>6 DEF IInv
<1>4. CASE WriteFails
  <2>0. /\ file' \in {Empty, Partial, writing.password} /\ writing.password \in Password
        /\ unanswered' = (file' = writing.password) /\ writing' = NotWriting
        /\ UNCHANGED <<stored, hash, legacy, acknowledged, sessions, clearing, creating>>
    BY <1>4 DEF WriteFails, Interrupted, handlers, IInv, PasswordInv
  <2>u. unanswered' \in BOOLEAN  BY <2>0
  <2>1. NotWriting \in [kind : {None, "setup", "change"}, password : Password \cup {None}]
    BY DEF NotWriting
  <2>2. TypeOK'  BY <1>t, <2>0, <2>1, <2>u DEF IInv, TypeOK, Record
  <2>3. None \notin Password /\ None \notin {Empty, Partial} /\ {Empty, Partial} \cap Password = {}  BY AuthAssumption
  <2>4. PasswordInv'  BY <2>0, <2>3 DEF PasswordInv
  <2> QED  BY <1>1, <2>2, <2>4 DEF IInv
<1>5. CASE ClearLegacyAuth \/ ClearFails
  <2>0. /\ clearing > 0 /\ clearing' = clearing - 1 /\ creating' \in {creating, creating + 1}
        /\ stored' \in {None, stored}
        /\ UNCHANGED <<file, hash, legacy, writing, acknowledged, unanswered, sessions>>
    BY <1>5 DEF ClearLegacyAuth, ClearFails, password
  <2>1. clearing' \in Nat /\ creating' \in Nat  BY <2>0 DEF IInv, TypeOK
  <2>2. TypeOK'  BY <1>t, <2>0, <2>1 DEF IInv, TypeOK, Record
  <2>3. file # None  BY <2>0 DEF IInv, PasswordInv
  <2>4. PasswordInv'  BY <1>0, <2>0, <2>3 DEF IInv, PasswordInv
  <2> QED  BY <1>1, <2>2, <2>4 DEF IInv
<1> QED  BY <1>2, <1>3, <1>4, <1>5 DEF Setup, Change

(***************************************************************************)
(* Time, sessions, and the end and the start of the program.               *)
(***************************************************************************)
LEMMA OtherStep ==
    ASSUME IInv,
           \/ Tick \/ Crash \/ NewAuthStore
           \/ \E t \in Token : CreateSession(t) \/ DeleteSession(t)
    PROVE  IInv'
<1>n. sessionLifetime \in Nat /\ now \in Nat  BY AuthAssumption DEF IInv, TypeOK
<1>1. CASE Tick
  <2>0. now' = now + 1 /\ UNCHANGED <<up, env, password, sessions, logins, handlers, bounds>>
    BY <1>1 DEF Tick
  <2>1. LoginInv' /\ FailuresPaced'  BY <1>n, <2>0, LoginsKept
  <2>2. TypeOK'  BY <1>n, <2>0 DEF IInv, TypeOK, password, logins, handlers
  <2>3. PasswordInv'  BY <2>0 DEF IInv, PasswordInv, password, handlers, Overridden
  <2> QED  BY <2>1, <2>2, <2>3 DEF IInv
<1>2. ASSUME NEW t \in Token, CreateSession(t) \/ DeleteSession(t) PROVE IInv'
  <2>0. UNCHANGED <<now, up, env, password, logins, clearing>>
    BY <1>2 DEF CreateSession, DeleteSession, handlers
  <2>1. LoginInv' /\ FailuresPaced'  BY <1>n, <2>0, LoginsKept
  <2>2. creating' \in Nat  BY <1>2 DEF CreateSession, DeleteSession, handlers, IInv, TypeOK
  <2>3. DOMAIN sessions' \subseteq Token /\ \A u \in DOMAIN sessions' : sessions'[u] \in Nat
    <3>1. CASE CreateSession(t)
      <4> DEFINE S == {t} \cup {v \in DOMAIN sessions : now <= sessions[v]}
      <4>1. sessions' = [u \in S |-> IF u = t THEN now + sessionLifetime ELSE sessions[u]]
        BY <3>1 DEF CreateSession
      <4>2. now + sessionLifetime \in Nat  BY <1>n
      <4>3. S \subseteq DOMAIN sessions \cup {t}  OBVIOUS
      <4> HIDE DEF S
      <4> QED  BY <4>1, <4>2, <4>3 DEF IInv, TypeOK
    <3>2. CASE DeleteSession(t)  BY <3>2 DEF DeleteSession, IInv, TypeOK
    <3> QED  BY <1>2, <3>1, <3>2
  <2>4. TypeOK'  BY <2>0, <2>2, <2>3 DEF IInv, TypeOK, password, logins
  <2>5. PasswordInv'  BY <2>0 DEF IInv, PasswordInv, password, Overridden
  <2> QED  BY <2>1, <2>4, <2>5 DEF IInv
<1>3. CASE Crash
  <2>0. /\ up' = FALSE /\ writing' = NotWriting /\ clearing' = 0 /\ creating' = 0
        /\ \/ UNCHANGED <<file, unanswered>>
           \/ /\ file' \in {Empty, Partial, writing.password} /\ writing.password \in Password
              /\ unanswered' = (file' = writing.password)
        /\ UNCHANGED <<now, env, stored, hash, legacy, acknowledged, sessions, logins>>
    BY <1>3 DEF Crash, Interrupted, IInv, PasswordInv
  <2>1. LoginInv' /\ FailuresPaced'  BY <1>n, <2>0, LoginsKept
  <2>2. NotWriting \in [kind : {None, "setup", "change"}, password : Password \cup {None}]
    BY DEF NotWriting
  <2>u. up' \in BOOLEAN /\ unanswered' \in BOOLEAN  BY <2>0 DEF IInv, TypeOK
  <2>3. TypeOK'  BY <2>0, <2>2, <2>u DEF IInv, TypeOK, logins
  <2>4. None \notin Password /\ None \notin {Empty, Partial} /\ {Empty, Partial} \cap Password = {}
    BY AuthAssumption
  <2>5. PasswordInv'
    <3>1. CASE UNCHANGED <<file, unanswered>>
      BY <2>0, <2>4, <3>1 DEF IInv, PasswordInv, Overridden
    <3>2. CASE /\ file' \in {Empty, Partial, writing.password} /\ writing.password \in Password
               /\ unanswered' = (file' = writing.password)
      <4>1. file' # None /\ (unanswered' => file' \in Password) /\ (file' \in Password => unanswered')
        BY <2>4, <3>2
      <4> QED  BY <2>0, <4>1 DEF PasswordInv
    <3> QED  BY <2>0, <3>1, <3>2
  <2> QED  BY <2>1, <2>3, <2>5 DEF IInv
<1>4. CASE NewAuthStore
  <2>0. /\ up' = TRUE /\ hash' = ReadHash(file) /\ legacy' = Overridden(stored)
        /\ DOMAIN sessions' = {} /\ DOMAIN attempts' = {} /\ failed' = [c \in Client |-> <<>>]
        /\ acknowledged' = (IF unanswered THEN file ELSE acknowledged) /\ unanswered' = FALSE
        /\ UNCHANGED <<now, env, file, stored, writing, clearing, creating>>
    BY <1>4 DEF NewAuthStore, handlers
  <2>u. up' \in BOOLEAN /\ unanswered' \in BOOLEAN  BY <2>0
  <2>1. /\ hash' \in Password \cup {None, Partial} /\ legacy' \in Password \cup {None}
        /\ acknowledged' \in Password \cup {None}
    BY <2>0 DEF IInv, TypeOK, PasswordInv, ReadHash, Overridden
  <2>2. TypeOK'  BY <2>0, <2>1, <2>u DEF IInv, TypeOK
  <2>3. /\ None \notin {Empty, Partial} /\ Empty \notin Password /\ None \notin Password
        /\ loginFailureLimit \in Nat
    BY AuthAssumption
  <2>4. PasswordInv'  BY <2>0, <2>3 DEF IInv, PasswordInv, ReadHash, Overridden
  <2>5. <<>> \in Seq(Nat) /\ Len(<<>>) = 0  OBVIOUS
  <2>6. NoAttempt.failures = 0 /\ NoAttempt.blockedUntil = 0  BY DEF NoAttempt
  <2>7. History(<<>>, now) /\ Accounts(<<>>, NoAttempt, now)
    BY <2>3, <2>5, <2>6 DEF History, Accounts
  <2>8. failed' \in [Client -> Seq(Nat)] /\ \A c \in Client : failed'[c] = <<>> /\ Kept(c)' = NoAttempt
    BY <2>0, <2>5 DEF Kept
  <2>9. LoginInv'  BY <2>0, <2>7, <2>8 DEF LoginInv
  <2>10. FailuresPaced'  BY <2>3, <2>5, <2>8 DEF FailuresPaced
  <2> QED  BY <2>2, <2>4, <2>9, <2>10 DEF IInv
<1> QED  BY <1>1, <1>2, <1>3, <1>4

----------------------------------------------------------------------------
(***************************************************************************)
(* The invariant holds from the start and is kept by every step.           *)
(***************************************************************************)
LEMMA AlwaysIInv == Spec => []IInv
<1>1. Init => IInv
  <2> SUFFICES ASSUME Init PROVE IInv  OBVIOUS
  <2>0. /\ file \in Password \cup {None} /\ stored \in Password \cup {None}
        /\ env \in Password \cup {None} /\ hash = file /\ legacy = Overridden(stored)
        /\ DOMAIN sessions = {} /\ DOMAIN attempts = {} /\ failed = [c \in Client |-> <<>>]
        /\ writing = NotWriting /\ clearing = 0 /\ creating = 0 /\ now = 0
        /\ acknowledged = (IF file # None THEN file ELSE legacy) /\ unanswered = FALSE
    BY DEF Init
  <2>u. up \in BOOLEAN /\ unanswered \in BOOLEAN  BY DEF Init
  <2>1. NotWriting \in [kind : {None, "setup", "change"}, password : Password \cup {None}]
    BY DEF NotWriting
  <2>2. legacy \in Password \cup {None} /\ acknowledged \in Password \cup {None}
    BY <2>0 DEF Overridden
  <2>3. TypeOK  BY <2>0, <2>1, <2>2, <2>u DEF TypeOK
  <2>4. None \notin Password /\ loginFailureLimit \in Nat  BY AuthAssumption
  <2>5. PasswordInv  BY <2>0, <2>4 DEF PasswordInv
  <2>6. <<>> \in Seq(Nat) /\ Len(<<>>) = 0  OBVIOUS
  <2>7. NoAttempt.failures = 0 /\ NoAttempt.blockedUntil = 0  BY DEF NoAttempt
  <2>8. History(<<>>, now) /\ Accounts(<<>>, NoAttempt, now)
    BY <2>4, <2>6, <2>7 DEF History, Accounts
  <2>9. failed \in [Client -> Seq(Nat)] /\ \A c \in Client : failed[c] = <<>> /\ Kept(c) = NoAttempt
    BY <2>0, <2>6 DEF Kept
  <2>10. LoginInv  BY <2>0, <2>8, <2>9 DEF LoginInv
  <2>11. FailuresPaced  BY <2>4, <2>6, <2>9 DEF FailuresPaced
  <2> QED  BY <2>3, <2>5, <2>10, <2>11 DEF IInv
<1>2. IInv /\ [Next]_vars => IInv'
  <2> SUFFICES ASSUME IInv, [Next]_vars PROVE IInv'  OBVIOUS
  <2>1. CASE Next  BY <2>1, RefuseStep, AdmitStep, FailStep, PasswordStep, OtherStep DEF Next
  <2>2. CASE UNCHANGED vars
    <3>0. UNCHANGED <<now, up, env, password, sessions, logins, handlers, bounds>>
      BY <2>2 DEF vars
    <3>1. LoginInv' /\ FailuresPaced'  BY <3>0, LoginsKept DEF IInv, TypeOK
    <3>2. TypeOK'  BY <3>0 DEF IInv, TypeOK, password, logins, handlers
    <3>3. PasswordInv'  BY <3>0 DEF IInv, PasswordInv, password, handlers, Overridden
    <3> QED  BY <3>1, <3>2, <3>3 DEF IInv
  <2> QED  BY <2>1, <2>2
<1> QED  BY <1>1, <1>2, PTL DEF Spec

(***************************************************************************)
(* Exactly the password last set lets anybody in, through changes, failed  *)
(* clean-ups of config.json, crashes and restarts, unless a write of the   *)
(* hash failed.                                                            *)
(***************************************************************************)
THEOREM PasswordCounts == Spec => []LastPasswordCounts
<1>1. IInv => LastPasswordCounts
  <2> SUFFICES ASSUME IInv, up, file \notin {Empty, Partial}, ~unanswered, NEW p \in Password
               PROVE  verify(p) <=> p = acknowledged
    BY DEF LastPasswordCounts
  <2>1. None \notin Password  BY AuthAssumption
  <2>2. CASE file = None  BY <2>1, <2>2 DEF IInv, PasswordInv, verify
  <2>3. CASE file \in Password  BY <2>1, <2>3 DEF IInv, PasswordInv, verify
  <2> QED  BY <2>2, <2>3 DEF IInv, TypeOK
<1> QED  BY <1>1, AlwaysIInv, PTL

(***************************************************************************)
(* Whatever a client does, it fails at most loginFailureLimit times in any *)
(* loginBlockDuration, less the wait for the mutex, without a success in   *)
(* between.                                                                *)
(***************************************************************************)
THEOREM LoginsThrottled == Spec => []FailuresPaced
<1>1. IInv => FailuresPaced  BY DEF IInv
<1> QED  BY <1>1, AlwaysIInv, PTL

(***************************************************************************)
(* A block ends loginBlockDuration after the client's last failure.        *)
(***************************************************************************)
THEOREM BlocksEnd == Spec => []RefusedOnlyAfterFailure
<1>1. IInv => RefusedOnlyAfterFailure
  <2> SUFFICES ASSUME IInv, NEW c \in Client, NEW t \in Read, Refused(c, t)
               PROVE  /\ failed[c] # <<>>
                      /\ t - failed[c][Len(failed[c])] < loginBlockDuration
    BY DEF RefusedOnlyAfterFailure
  <2>1. /\ Attempt(c, t).blockedUntil \in Nat /\ t \in Nat /\ t < Attempt(c, t).blockedUntil
        /\ Accounts(failed[c], Attempt(c, t), now)
    BY AttemptAccounts DEF IInv, TypeOK, Record, Refused, Read
  <2>2. Len(failed[c]) > 0 /\ Attempt(c, t).blockedUntil <= Back(failed[c], 0) + loginBlockDuration
    BY <2>1 DEF Accounts
  <2>3. Len(failed[c]) \in Nat /\ Back(failed[c], 0) \in Nat  BY <2>2 DEF IInv, LoginInv, History
  <2>4. Back(failed[c], 0) = failed[c][Len(failed[c])]  BY <2>3 DEF Back
  <2>5. loginBlockDuration \in Nat  BY AuthAssumption
  <2> QED  BY <2>1, <2>2, <2>3, <2>4, <2>5
<1> QED  BY <1>1, AlwaysIInv, PTL

(***************************************************************************)
(* A session is ended only by its time, its own logout, a change of the    *)
(* password or a restart.                                                  *)
(***************************************************************************)
THEOREM SessionsKept == Spec => SessionKept
<1> DEFINE Ends ==
      \A t \in Token : ValidSession(t) /\ ~ValidSession(t)' =>
          \/ sessions[t] <= now'
          \/ DOMAIN sessions' = DOMAIN sessions \ {t}
          \/ writing.kind = "change" /\ writing' = NotWriting
          \/ ~up
<1>1. IInv /\ IInv' /\ [Next]_vars => [Ends]_vars
  <2> SUFFICES ASSUME IInv, IInv', Next, NEW t \in Token, ValidSession(t), ~ValidSession(t)',
                      ~(sessions[t] <= now'), up
               PROVE  \/ DOMAIN sessions' = DOMAIN sessions \ {t}
                      \/ writing.kind = "change" /\ writing' = NotWriting
    OBVIOUS
  <2>1. t \in DOMAIN sessions /\ sessions[t] \in Nat /\ now' \in Nat /\ now < sessions[t] /\ now \in Nat
    BY DEF ValidSession, IInv, TypeOK
  <2>2. now' < sessions[t]  BY <2>1
  <2>3. ~(t \in DOMAIN sessions' /\ sessions'[t] = sessions[t])  BY <2>2 DEF ValidSession
  <2>4. sessions' # sessions  BY <2>1, <2>3
  <2>5. EndWrite \/ NewAuthStore \/ \E u \in Token : CreateSession(u) \/ DeleteSession(u)
    BY <2>4 DEF Next, Tick, Setup, Change, BeginWrite, WriteFails, ClearLegacyAuth, ClearFails,
                Refuse, Admit, Fail, others, Crash
  <2>6. CASE EndWrite  BY <2>4, <2>6 DEF EndWrite
  <2>7. ASSUME NEW u \in Token, CreateSession(u) PROVE FALSE
    <3> DEFINE S == {u} \cup {v \in DOMAIN sessions : now <= sessions[v]}
    <3>1. /\ u \notin DOMAIN sessions
          /\ sessions' = [v \in S |-> IF v = u THEN now + sessionLifetime ELSE sessions[v]]
      BY <2>7 DEF CreateSession
    <3>2. t \in S /\ t # u  BY <2>1, <3>1
    <3> HIDE DEF S
    <3> QED  BY <2>3, <3>1, <3>2
  <2>8. ASSUME NEW u \in Token, DeleteSession(u) PROVE DOMAIN sessions' = DOMAIN sessions \ {t}
    <3>1. sessions' = [v \in DOMAIN sessions \ {u} |-> sessions[v]]  BY <2>8 DEF DeleteSession
    <3>2. u = t  BY <2>1, <2>3, <3>1
    <3> QED  BY <3>1, <3>2
  <2> QED  BY <2>5, <2>6, <2>7, <2>8 DEF NewAuthStore
<1> QED  BY <1>1, AlwaysIInv, PTL DEF Spec, SessionKept
=============================================================================
