--------------------------- MODULE ScheduleProofs ---------------------------
(***************************************************************************)
(* Proofs about Schedule for every number of loops, every lifetime and     *)
(* every choice of the intervals.                                          *)
(***************************************************************************)
EXTENDS Schedule, WellFoundedInduction, TLAPS

-----------------------------------------------------------------------------
(* The inductive invariant.                                                *)

RevisionShape == \A l \in Loops : loops[l].revision <= revision

\* The loop that has the claim wants the next stage, whose time has come.  Its
\* result says whether it made the attempt.
ClaimShape ==
    \A l \in Loops : schedule.claim = l =>
        /\ token.refresh /\ HasLifetime(token) /\ ready
        /\ loops[l].stage = schedule.nextStage
        /\ refreshStageTime(token, schedule.nextStage) <= now
        /\ schedule.retryNotBefore <= now
        /\ loops[l].pc = "attempt" => loops[l].stage \in started
        /\ loops[l].pc = "finish" =>
              /\ loops[l].result # "none"
              /\ loops[l].result \in {"temporary", "canceledAfter"} => loops[l].stage \in started
              /\ loops[l].result = "succeeded" => schedule.disposition # "active"

\* The stage that the holder of the claim is at was attempted, or may have been.
Attempting ==
    \E l \in Loops : /\ schedule.claim = l
                     /\ \/ loops[l].pc = "attempt"
                        \/ /\ loops[l].pc = "finish"
                           /\ loops[l].result \notin {"expiredBefore", "canceledBefore"}

\* As long as the generation may be refreshed, the stages before the next one are
\* the only ones that were attempted.
StageShape ==
    /\ failedAt # 0 => failedAt + MinInterval <= schedule.retryNotBefore
    /\ schedule.disposition = "active" =>
          \A s \in started : s < schedule.nextStage \/ (s = schedule.nextStage /\ Attempting)

\* After session-expired was announced there are no attempts; it is announced at
\* a time after grace.
EventShape ==
    /\ schedule.eventEmitted => Blocked /\ schedule.claim = NoLoop
    /\ schedule.disposition = "permanent" /\ GracePeriod > 0 /\ token.lastAuthAt # 0 =>
          GraceEnd(token) <= schedule.eventAt
    /\ \A l \in Loops : loops[l].pc = "emit" /\ loops[l].revision = revision =>
          /\ schedule.eventEmitted
          /\ schedule.disposition = "integrity" \/ ~InGracePeriod(token)

\* A generation that a prompt loop should have attempted, and has not yet.
Waiting ==
    /\ prompt /\ attended
    /\ token.refresh /\ HasLifetime(token) /\ Lifetime(token) > 1
    /\ ~Blocked
    /\ started = {}

\* There is still time for it, and a loop that sees to it.
PromptShape ==
    /\ prompt => \A l \in Loops : schedule.claim = l =>
          /\ loops[l].pc = "claimed" => now < token.expiresAt
          /\ loops[l].pc = "finish" => loops[l].result # "expiredBefore"
    /\ Waiting =>
          /\ now < token.expiresAt /\ ready
          /\ schedule.disposition = "active"
          /\ schedule.nextStage = 1 /\ schedule.retryNotBefore = 0
          /\ Attentive(loops)

Inv ==
    /\ ScheduleTypeOK
    /\ RevisionShape
    /\ ClaimShape
    /\ StageShape
    /\ EventShape
    /\ PromptShape
    /\ NoStaleSleep

-----------------------------------------------------------------------------
(* Recursive functions.                                                    *)

USE ScheduleAssumption

(* Natural numbers are well ordered.                                       *)
LEMMA LeastNat ==
    ASSUME NEW T \in SUBSET Nat, T # {}
    PROVE  \E m \in T : \A n \in T : m <= n
  <1> DEFINE R == {ss \in Nat \X Nat : ss[1] < ss[2]}
  <1>1. IsWellFoundedOn(R, Nat)
    BY NatLessThanWellFounded, Zenon DEF OpToRel
  <1> HIDE DEF R
  <1>2. PICK m \in T : \A n \in T : ~(<<n, m>> \in R)
    BY <1>1, WFMin, Zenon
  <1>3. \A n \in T : ~(n < m)
    BY <1>2 DEF R
  <1> QED
    BY <1>3

(* Induction, for a set in place of a predicate.                           *)
LEMMA Induction ==
    ASSUME NEW G, 0 \in G, \A n \in Nat : n \in G => n + 1 \in G
    PROVE  Nat \subseteq G
  <1>1. SUFFICES ASSUME Nat \ G # {}
                 PROVE  FALSE
    OBVIOUS
  <1>2. PICK m \in Nat \ G : \A n \in Nat \ G : m <= n
    BY <1>1, LeastNat
  <1>3. m # 0 /\ m - 1 \in Nat /\ m - 1 \in G
    BY <1>2
  <1> QED
    BY <1>2, <1>3

(* A function on the natural numbers can be iterated.                      *)
LEMMA Iteration ==
    ASSUME NEW a \in Nat, NEW step \in [Nat -> Nat]
    PROVE  \E h \in [Nat -> Nat] : h[0] = a /\ \A n \in Nat : h[n + 1] = step[h[n]]
  <1> DEFINE Upto(n) == {h \in [0..n -> Nat] : h[0] = a /\ \A i \in 0..(n - 1) : h[i + 1] = step[h[i]]}
             G == {n \in Nat : \E h : h \in Upto(n)}
  <1>1. Nat \subseteq G
    <2>1. 0 \in G
      <3>1. [i \in 0..0 |-> a] \in Upto(0)
        OBVIOUS
      <3> QED
        BY <3>1
    <2>2. ASSUME NEW n \in Nat, n \in G
          PROVE  n + 1 \in G
      <3>1. PICK h : h \in Upto(n)
        BY <2>2
      <3> DEFINE k == [i \in 0..(n + 1) |-> IF i = n + 1 THEN step[h[n]] ELSE h[i]]
      <3>a. h \in [0..n -> Nat] /\ h[0] = a /\ \A i \in 0..(n - 1) : h[i + 1] = step[h[i]]
        BY <3>1
      <3>b. n \in 0..n /\ step[h[n]] \in Nat
        BY <3>a
      <3>c. \A i \in 0..(n + 1) : i = n + 1 \/ (i \in 0..n /\ i # n + 1)
        OBVIOUS
      <3>2. k \in [0..(n + 1) -> Nat]
        BY <3>a, <3>b, <3>c
      <3>3. k[0] = a
        BY <3>a
      <3>4. ASSUME NEW i \in 0..((n + 1) - 1)
            PROVE  k[i + 1] = step[k[i]]
        <4>1. CASE i = n
          BY <4>1
        <4>2. CASE i # n
          <5>1. i \in 0..(n - 1) /\ i + 1 \in 0..(n + 1) /\ i \in 0..(n + 1) /\ i # n + 1 /\ i + 1 # n + 1
            BY <4>2
          <5> QED
            BY <5>1, <3>a
        <4> QED
          BY <4>1, <4>2
      <3> HIDE DEF k
      <3>5. k \in Upto(n + 1)
        BY <3>2, <3>3, <3>4
      <3> HIDE DEF Upto
      <3> QED
        BY <3>5
    <2> HIDE DEF G
    <2> QED
      BY <2>1, <2>2, Induction
  <1>2. ASSUME NEW n \in Nat, NEW m \in Nat, n <= m, NEW h \in Upto(n), NEW k \in Upto(m)
        PROVE  h[n] = k[n]
    <2> DEFINE E == {i \in Nat : i <= n => h[i] = k[i]}
    <2>1. 0 \in E
      BY <1>2
    <2>2. ASSUME NEW i \in Nat, i \in E
          PROVE  i + 1 \in E
      BY <1>2, <2>2
    <2> HIDE DEF E
    <2>3. n \in E
      BY <2>1, <2>2, Induction
    <2> QED
      BY <2>3 DEF E
  <1> DEFINE H(n) == CHOOSE h : h \in Upto(n)
             f == [n \in Nat |-> H(n)[n]]
  <1>3. \A n \in Nat : H(n) \in Upto(n)
    BY <1>1, Zenon
  <1> HIDE DEF H
  <1>4. f \in [Nat -> Nat]
    BY <1>3
  <1>5. f[0] = a
    BY <1>3
  <1>6. ASSUME NEW n \in Nat
        PROVE  f[n + 1] = step[f[n]]
    <2> HIDE DEF Upto
    <2>1. n + 1 \in Nat /\ n <= n + 1
      OBVIOUS
    <2>2. H(n) \in Upto(n) /\ H(n + 1) \in Upto(n + 1)
      BY <1>3, <2>1
    <2>3. H(n)[n] = H(n + 1)[n]
      BY <1>2, <2>1, <2>2
    <2>4. H(n + 1)[n + 1] = step[H(n + 1)[n]]
      BY <2>2 DEF Upto
    <2> QED
      BY <2>1, <2>3, <2>4
  <1> QED
    BY <1>4, <1>5, <1>6

(* The recursive definition of remaining has the solution it describes.    *)
LEMMA remainingFacts ==
    ASSUME NEW lifetime \in Nat
    PROVE  /\ remaining(lifetime) \in [Nat -> Nat]
           /\ remaining(lifetime)[0] = lifetime
           /\ \A s \in Nat : remaining(lifetime)[s + 1] = remaining(lifetime)[s] \div 2
  <1> DEFINE step == [x \in Nat |-> x \div 2]
             Def(g) == [s \in Nat |-> IF s = 0 THEN lifetime ELSE g[s - 1] \div 2]
             r == remaining(lifetime)
  <1>1. step \in [Nat -> Nat]
    OBVIOUS
  <1>2. PICK h \in [Nat -> Nat] : h[0] = lifetime /\ \A n \in Nat : h[n + 1] = step[h[n]]
    <2> HIDE DEF step
    <2> QED
      BY <1>1, Iteration
  <1>3. ASSUME NEW s \in Nat
        PROVE  h[s] = IF s = 0 THEN lifetime ELSE h[s - 1] \div 2
    <2>1. CASE s = 0
      BY <1>2, <2>1
    <2>2. CASE s # 0
      <3>1. s - 1 \in Nat /\ (s - 1) + 1 = s
        BY <2>2
      <3>2. h[s] = step[h[s - 1]]
        BY <1>2, <3>1
      <3> QED
        BY <2>2, <3>1, <3>2
    <2> QED
      BY <2>1, <2>2
  <1>4. h = Def(h)
    BY <1>3
  <1>5. r = CHOOSE g : g = Def(g)
    BY DEF remaining
  <1> HIDE DEF Def
  <1>6. r = Def(r)
    BY <1>4, <1>5, Zenon
  <1> HIDE DEF r
  <1>7. r[0] = lifetime /\ \A s \in Nat : r[s + 1] = r[s] \div 2
    BY <1>6 DEF Def
  <1> DEFINE G == {s \in Nat : r[s] \in Nat}
  <1>8. Nat \subseteq G
    <2>1. 0 \in G
      BY <1>7
    <2>2. ASSUME NEW n \in Nat, n \in G
          PROVE  n + 1 \in G
      <3>1. r[n] \in Nat /\ r[n + 1] = r[n] \div 2
        BY <1>7, <2>2
      <3>2. r[n] \div 2 \in Nat
        BY <3>1
      <3> QED
        BY <3>1, <3>2
    <2> HIDE DEF G
    <2> QED
      BY <2>1, <2>2, Induction
  <1>9. r \in [Nat -> Nat]
    BY <1>6, <1>8 DEF Def
  <1> QED
    BY <1>7, <1>9 DEF r

(* The powers of two.                                                      *)
LEMMA TwoToFacts ==
    /\ TwoTo \in [Nat -> Nat \ {0}]
    /\ TwoTo[0] = 1
    /\ \A n \in Nat : TwoTo[n + 1] = 2 * TwoTo[n]
  <1> DEFINE step == [x \in Nat |-> 2 * x]
             Def(g) == [n \in Nat |-> IF n = 0 THEN 1 ELSE 2 * g[n - 1]]
             r == TwoTo
  <1>1. step \in [Nat -> Nat]
    OBVIOUS
  <1>2. PICK h \in [Nat -> Nat] : h[0] = 1 /\ \A n \in Nat : h[n + 1] = step[h[n]]
    <2> DEFINE one == 1
    <2>1. one \in Nat
      OBVIOUS
    <2> HIDE DEF step, one
    <2>2. \E h \in [Nat -> Nat] : h[0] = one /\ \A n \in Nat : h[n + 1] = step[h[n]]
      BY <1>1, <2>1, Iteration
    <2> QED
      BY <2>2 DEF one
  <1>3. ASSUME NEW s \in Nat
        PROVE  h[s] = IF s = 0 THEN 1 ELSE 2 * h[s - 1]
    <2>1. CASE s = 0
      BY <1>2, <2>1
    <2>2. CASE s # 0
      <3>1. s - 1 \in Nat /\ (s - 1) + 1 = s
        BY <2>2
      <3>2. h[s] = step[h[s - 1]]
        BY <1>2, <3>1
      <3> QED
        BY <2>2, <3>1, <3>2
    <2> QED
      BY <2>1, <2>2
  <1>4. h = Def(h)
    BY <1>3
  <1>5. r = CHOOSE g : g = Def(g)
    BY DEF TwoTo
  <1> HIDE DEF Def
  <1>6. r = Def(r)
    BY <1>4, <1>5, Zenon
  <1> HIDE DEF r
  <1>7. r[0] = 1 /\ \A n \in Nat : r[n + 1] = 2 * r[n]
    BY <1>6 DEF Def
  <1> DEFINE G == {n \in Nat : r[n] \in Nat \ {0}}
  <1>8. Nat \subseteq G
    <2>1. 0 \in G
      BY <1>7
    <2>2. ASSUME NEW n \in Nat, n \in G
          PROVE  n + 1 \in G
      <3>1. r[n] \in Nat \ {0} /\ r[n + 1] = 2 * r[n]
        BY <1>7, <2>2
      <3>2. 2 * r[n] \in Nat \ {0}
        BY <3>1
      <3> QED
        BY <3>1, <3>2
    <2> HIDE DEF G
    <2> QED
      BY <2>1, <2>2, Induction
  <1>9. r \in [Nat -> Nat \ {0}]
    BY <1>6, <1>8 DEF Def
  <1> QED
    BY <1>7, <1>9 DEF r

(* What is left at a stage, in closed form.                                *)
LEMMA remainingClosed ==
    ASSUME NEW lifetime \in Nat
    PROVE  \A s \in Nat : remaining(lifetime)[s] = lifetime \div TwoTo[s]
  <1> DEFINE r == remaining(lifetime)
             G == {s \in Nat : r[s] = lifetime \div TwoTo[s]}
  <1>1. r \in [Nat -> Nat] /\ r[0] = lifetime /\ \A s \in Nat : r[s + 1] = r[s] \div 2
    BY remainingFacts
  <1> HIDE DEF r
  <1>2. 0 \in G
    BY <1>1, TwoToFacts
  <1>3. ASSUME NEW s \in Nat, s \in G
        PROVE  s + 1 \in G
    <2> DEFINE k == TwoTo[s]
    <2>1. k \in Nat \ {0} /\ TwoTo[s + 1] = 2 * k
      BY TwoToFacts
    <2>2. r[s] = lifetime \div k /\ r[s + 1] = (lifetime \div k) \div 2
      BY <1>1, <1>3
    <2> HIDE DEF k
    <2>3. (lifetime \div k) \div 2 = lifetime \div (2 * k)
      BY <2>1
    <2> QED
      BY <2>1, <2>2, <2>3
  <1> HIDE DEF G
  <1>4. Nat \subseteq G
    BY <1>2, <1>3, Induction
  <1> QED
    BY <1>4 DEF G, r

(* The times of the stages increase strictly, up to the expiry.            *)
LEMMA StageTimes ==
    ASSUME NEW t \in Tokens, HasLifetime(t)
    PROVE  /\ Lifetime(t) \in Nat \ {0}
           /\ \A s \in Nat :
                 /\ remaining(Lifetime(t))[s] \in Nat
                 /\ remaining(Lifetime(t))[s] <= Lifetime(t)
                 /\ refreshStageTime(t, s) \in Nat
                 /\ refreshStageTime(t, s) <= t.expiresAt
                 /\ StageExists(t, s) => refreshStageTime(t, s) < t.expiresAt
                 /\ StageExists(t, s + 1) =>
                       refreshStageTime(t, s) < refreshStageTime(t, s + 1)
           /\ refreshStageTime(t, 0) = t.lastAuthAt
           /\ remaining(Lifetime(t))[1] = Lifetime(t) \div 2
  <1> DEFINE L == Lifetime(t)
             r == remaining(L)
             G == {s \in Nat : r[s] <= L}
  <1>1. /\ t.expiresAt \in Nat /\ t.lastAuthAt \in Nat /\ L = t.expiresAt - t.lastAuthAt
        /\ L \in Nat \ {0}
    BY DEF HasLifetime, Lifetime, Tokens
  <1> HIDE DEF L
  <1>2. r \in [Nat -> Nat] /\ r[0] = L /\ \A s \in Nat : r[s + 1] = r[s] \div 2
    BY <1>1, remainingFacts
  <1> HIDE DEF r
  <1>3. Nat \subseteq G
    <2>1. 0 \in G
      BY <1>1, <1>2
    <2>2. ASSUME NEW s \in Nat, s \in G
          PROVE  s + 1 \in G
      <3>1. r[s] \in Nat /\ r[s] <= L /\ r[s + 1] = r[s] \div 2 /\ r[s + 1] \in Nat
        BY <1>2, <2>2
      <3>2. r[s + 1] <= L
        BY <3>1, <1>1
      <3> QED
        BY <3>2
    <2> HIDE DEF G
    <2> QED
      BY <2>1, <2>2, Induction
  <1>4. ASSUME NEW s \in Nat
        PROVE  r[s] \in Nat /\ r[s] <= L /\ (r[s + 1] > 0 => r[s + 1] < r[s])
    <2>1. r[s] \in Nat /\ r[s + 1] = r[s] \div 2
      BY <1>2
    <2>2. r[s] <= L
      BY <1>3
    <2> QED
      BY <2>1, <2>2
  <1>5. \A s \in Nat : refreshStageTime(t, s) = t.expiresAt - r[s]
    BY DEF refreshStageTime, r, L
  <1>6. \A s \in Nat : StageExists(t, s) <=> r[s] > 0
    BY DEF StageExists, r, L
  <1>7. ASSUME NEW s \in Nat
        PROVE  /\ refreshStageTime(t, s) \in Nat
               /\ refreshStageTime(t, s) <= t.expiresAt
               /\ StageExists(t, s) => refreshStageTime(t, s) < t.expiresAt
               /\ StageExists(t, s + 1) => refreshStageTime(t, s) < refreshStageTime(t, s + 1)
    <2>1. s + 1 \in Nat
      OBVIOUS
    <2>2. r[s] \in Nat /\ r[s + 1] \in Nat /\ r[s] <= L
      BY <1>4, <2>1
    <2> QED
      BY <1>1, <1>4, <1>5, <1>6, <2>1, <2>2
  <1>8. refreshStageTime(t, 0) = t.lastAuthAt
    BY <1>1, <1>2, <1>5
  <1>9. r[1] = L \div 2
    <2>1. r[0 + 1] = r[0] \div 2
      BY <1>2
    <2> QED
      BY <2>1, <1>2
  <1> QED
    BY <1>1, <1>4, <1>7, <1>8, <1>9 DEF r, L

(* The delays between two attempts to save, as the loop in persistence.go  *)
(* computes them.                                                          *)
LEMMA delayFacts ==
    \E delay \in [Nat -> Nat] :
        /\ delay[0] = MinRetry
        /\ \A a \in Nat : delay[a + 1] = IF delay[a] >= MaxRetry \div 2 THEN MaxRetry ELSE 2 * delay[a]
        /\ \A failures : persistenceRetryDelay(failures) = delay[failures - 1]
  <1> DEFINE step == [x \in Nat |-> IF x >= MaxRetry \div 2 THEN MaxRetry ELSE 2 * x]
             Def(g) == [a \in Nat |-> IF a = 0 THEN MinRetry
                                      ELSE IF g[a - 1] >= MaxRetry \div 2 THEN MaxRetry ELSE 2 * g[a - 1]]
             r == CHOOSE g : g = Def(g)
  <1>1. step \in [Nat -> Nat] /\ MinRetry \in Nat
    OBVIOUS
  <1>2. PICK h \in [Nat -> Nat] : h[0] = MinRetry /\ \A n \in Nat : h[n + 1] = step[h[n]]
    <2> HIDE DEF step
    <2> QED
      BY <1>1, Iteration
  <1>3. ASSUME NEW a \in Nat
        PROVE  h[a] = IF a = 0 THEN MinRetry
                      ELSE IF h[a - 1] >= MaxRetry \div 2 THEN MaxRetry ELSE 2 * h[a - 1]
    <2>1. CASE a = 0
      BY <1>2, <2>1
    <2>2. CASE a # 0
      <3>1. a - 1 \in Nat /\ (a - 1) + 1 = a
        BY <2>2
      <3>2. h[a] = step[h[a - 1]]
        BY <1>2, <3>1
      <3> QED
        BY <2>2, <3>1, <3>2
    <2> QED
      BY <2>1, <2>2
  <1>4. h = Def(h)
    BY <1>3
  <1>5. \A failures : persistenceRetryDelay(failures) = r[failures - 1]
    BY DEF persistenceRetryDelay
  <1> HIDE DEF Def
  <1>6. r = Def(r)
    BY <1>4, Zenon
  <1> HIDE DEF r
  <1>7. /\ r[0] = MinRetry
        /\ \A a \in Nat : r[a + 1] = IF r[a] >= MaxRetry \div 2 THEN MaxRetry ELSE 2 * r[a]
    BY <1>6 DEF Def
  <1> DEFINE G == {a \in Nat : r[a] \in Nat}
  <1>8. Nat \subseteq G
    <2>1. 0 \in G
      BY <1>7
    <2>2. ASSUME NEW a \in Nat, a \in G
          PROVE  a + 1 \in G
      <3>1. r[a] \in Nat
        BY <2>2
      <3>2. r[a + 1] = MaxRetry \/ r[a + 1] = 2 * r[a]
        BY <1>7
      <3>3. 2 * r[a] \in Nat
        BY <3>1
      <3> QED
        BY <3>2, <3>3
    <2> HIDE DEF G
    <2> QED
      BY <2>1, <2>2, Induction
  <1>9. r \in [Nat -> Nat]
    BY <1>6, <1>8 DEF Def
  <1> QED
    BY <1>5, <1>7, <1>9

(* The delay in closed form.                                               *)
LEMMA delayClosed ==
    ASSUME NEW n \in Nat, n > 0
    PROVE  persistenceRetryDelay(n) =
               IF MinRetry * TwoTo[n - 1] > MaxRetry THEN MaxRetry ELSE MinRetry * TwoTo[n - 1]
  <1>1. PICK delay \in [Nat -> Nat] :
            /\ delay[0] = MinRetry
            /\ \A a \in Nat :
                  delay[a + 1] = IF delay[a] >= MaxRetry \div 2 THEN MaxRetry ELSE 2 * delay[a]
            /\ \A failures : persistenceRetryDelay(failures) = delay[failures - 1]
    BY delayFacts
  <1> DEFINE Want(a) == IF MinRetry * TwoTo[a] > MaxRetry THEN MaxRetry ELSE MinRetry * TwoTo[a]
             G == {a \in Nat : delay[a] = Want(a)}
  <1>2. 0 \in G
    <2>1. TwoTo[0] = 1 /\ MinRetry * 1 = MinRetry
      BY TwoToFacts
    <2> QED
      BY <1>1, <2>1
  <1>3. ASSUME NEW a \in Nat, a \in G
        PROVE  a + 1 \in G
    <2> DEFINE w == MinRetry * TwoTo[a]
    <2>1. TwoTo[a] \in Nat \ {0} /\ TwoTo[a + 1] = 2 * TwoTo[a]
      BY TwoToFacts
    <2>2. w \in Nat /\ MinRetry * TwoTo[a + 1] = 2 * w
      BY <2>1
    <2>3. delay[a] = IF w > MaxRetry THEN MaxRetry ELSE w
      BY <1>3
    <2>4. delay[a + 1] = IF delay[a] >= MaxRetry \div 2 THEN MaxRetry ELSE 2 * delay[a]
      BY <1>1
    <2> HIDE DEF w
    <2>5. delay[a + 1] = IF 2 * w > MaxRetry THEN MaxRetry ELSE 2 * w
      <3>1. MaxRetry = 2 * (MaxRetry \div 2) /\ MaxRetry \in Nat /\ MaxRetry \div 2 \in Nat
        OBVIOUS
      <3>2. CASE w > MaxRetry
        BY <3>1, <3>2, <2>2, <2>3, <2>4
      <3>3. CASE w <= MaxRetry /\ w > MaxRetry \div 2
        BY <3>1, <3>3, <2>2, <2>3, <2>4
      <3>4. CASE w <= MaxRetry \div 2
        BY <3>1, <3>4, <2>2, <2>3, <2>4
      <3> QED
        BY <3>1, <3>2, <3>3, <3>4, <2>2
    <2> QED
      BY <2>2, <2>5
  <1> HIDE DEF G
  <1>4. Nat \subseteq G
    BY <1>2, <1>3, Induction
  <1>5. n - 1 \in Nat
    OBVIOUS
  <1>6. delay[n - 1] = Want(n - 1)
    BY <1>4, <1>5 DEF G
  <1> QED
    BY <1>1, <1>6

-----------------------------------------------------------------------------
(* Records.                                                                *)

LEMMA RunUpdates ==
    /\ NoRun \in Runs
    /\ [NoRun EXCEPT !.pc = "next"] \in Runs
    /\ \A r \in Runs :
          /\ \A d \in Nat, w \in BOOLEAN, p \in PCs :
                [r EXCEPT !.pc = p, !.due = d, !.woken = w] \in Runs
          /\ [r EXCEPT !.woken = TRUE] \in Runs
          /\ [r EXCEPT !.cancelled = TRUE] \in Runs
          /\ \A p \in PCs :
                /\ [r EXCEPT !.pc = p] \in Runs
                /\ \A x \in Results : [r EXCEPT !.pc = p, !.result = x] \in Runs
                /\ \A v \in 0..MaxRevision :
                      /\ [r EXCEPT !.pc = p, !.revision = v] \in Runs
                      /\ \A s \in Nat : [r EXCEPT !.pc = p, !.revision = v, !.stage = s] \in Runs
  <1>1. NoRun \in Runs
    BY DEF NoRun, Runs, PCs, Results
  <1>2. "next" \in PCs
    BY DEF PCs
  <1>3. ASSUME NEW r \in Runs, NEW p \in PCs
        PROVE  [r EXCEPT !.pc = p] \in Runs
    BY <1>3, Zenon DEF Runs
  <1>4. ASSUME NEW r \in Runs, NEW p \in PCs, NEW d \in Nat, NEW w \in BOOLEAN
        PROVE  [r EXCEPT !.pc = p, !.due = d, !.woken = w] \in Runs
    BY <1>4, Zenon DEF Runs
  <1>5. ASSUME NEW r \in Runs
        PROVE  [r EXCEPT !.woken = TRUE] \in Runs /\ [r EXCEPT !.cancelled = TRUE] \in Runs
    BY <1>5, Zenon DEF Runs
  <1>6. ASSUME NEW r \in Runs, NEW p \in PCs, NEW x \in Results
        PROVE  [r EXCEPT !.pc = p, !.result = x] \in Runs
    BY <1>6, Zenon DEF Runs
  <1>7. ASSUME NEW r \in Runs, NEW p \in PCs, NEW v \in 0..MaxRevision
        PROVE  [r EXCEPT !.pc = p, !.revision = v] \in Runs
    BY <1>7, Zenon DEF Runs
  <1>8. ASSUME NEW r \in Runs, NEW p \in PCs, NEW v \in 0..MaxRevision, NEW s \in Nat
        PROVE  [r EXCEPT !.pc = p, !.revision = v, !.stage = s] \in Runs
    BY <1>8, Zenon DEF Runs
  <1> QED
    BY <1>1, <1>2, <1>3, <1>4, <1>5, <1>6, <1>7, <1>8, Zenon

LEMMA ScheduleUpdates ==
    /\ NewSchedule \in Schedules
    /\ \A s \in Schedules :
          /\ \A d \in Dispositions :
                /\ [s EXCEPT !.disposition = d] \in Schedules
                /\ [s EXCEPT !.claim = NoLoop, !.disposition = d] \in Schedules
                /\ \A e \in Nat :
                      /\ [s EXCEPT !.disposition = d, !.eventAt = e] \in Schedules
                      /\ [s EXCEPT !.claim = NoLoop, !.disposition = d, !.eventAt = e] \in Schedules
          /\ [s EXCEPT !.eventEmitted = TRUE] \in Schedules
          /\ \A c \in Loops \cup {NoLoop} : [s EXCEPT !.claim = c] \in Schedules
          /\ \A n \in Nat \ {0}, t \in Nat :
                [s EXCEPT !.claim = NoLoop, !.nextStage = n, !.retryNotBefore = t] \in Schedules
  <1>1. NewSchedule \in Schedules
    BY DEF NewSchedule, Schedules, Dispositions
  <1>2. ASSUME NEW s \in Schedules, NEW d \in Dispositions
        PROVE  /\ [s EXCEPT !.disposition = d] \in Schedules
               /\ [s EXCEPT !.claim = NoLoop, !.disposition = d] \in Schedules
    BY <1>2, Zenon DEF Schedules
  <1>3. ASSUME NEW s \in Schedules, NEW d \in Dispositions, NEW e \in Nat
        PROVE  /\ [s EXCEPT !.disposition = d, !.eventAt = e] \in Schedules
               /\ [s EXCEPT !.claim = NoLoop, !.disposition = d, !.eventAt = e] \in Schedules
    BY <1>3, Zenon DEF Schedules
  <1>4. ASSUME NEW s \in Schedules
        PROVE  [s EXCEPT !.eventEmitted = TRUE] \in Schedules
    BY <1>4, Zenon DEF Schedules
  <1>5. ASSUME NEW s \in Schedules, NEW c \in Loops \cup {NoLoop}
        PROVE  [s EXCEPT !.claim = c] \in Schedules
    BY <1>5, Zenon DEF Schedules
  <1>6. ASSUME NEW s \in Schedules, NEW n \in Nat \ {0}, NEW t \in Nat
        PROVE  [s EXCEPT !.claim = NoLoop, !.nextStage = n, !.retryNotBefore = t] \in Schedules
    BY <1>6, Zenon DEF Schedules
  <1> QED
    BY <1>1, <1>2, <1>3, <1>4, <1>5, <1>6, Zenon

\* What the invariant says of a loop other than how it waits.
Same(r, q) ==
    r.pc = q.pc /\ r.revision = q.revision /\ r.stage = q.stage /\ r.result = q.result

(* A signal reaches every loop that waits, and changes nothing else.       *)
LEMMA WokenFacts ==
    ASSUME NEW ls \in [Loops -> Runs]
    PROVE  /\ Woken(ls) \in [Loops -> Runs]
           /\ \A l \in Loops :
                 /\ Same(Woken(ls)[l], ls[l])
                 /\ Woken(ls)[l].cancelled = ls[l].cancelled
                 /\ ls[l].pc = "wait" => Woken(ls)[l].woken
                 /\ ls[l].pc # "wait" => Woken(ls)[l] = ls[l]
  <1>1. ASSUME NEW l \in Loops
        PROVE  /\ Woken(ls)[l] = IF ls[l].pc = "wait" THEN [ls[l] EXCEPT !.woken = TRUE] ELSE ls[l]
               /\ Woken(ls)[l] \in Runs
    BY RunUpdates DEF Woken
  <1>2. Woken(ls) \in [Loops -> Runs]
    BY <1>1 DEF Woken
  <1>3. ASSUME NEW l \in Loops
        PROVE  /\ Same(Woken(ls)[l], ls[l])
               /\ Woken(ls)[l].cancelled = ls[l].cancelled
               /\ ls[l].pc = "wait" => Woken(ls)[l].woken
               /\ ls[l].pc # "wait" => Woken(ls)[l] = ls[l]
    <2>1. ls[l] \in Runs
      OBVIOUS
    <2> QED
      BY <1>1, <2>1 DEF Same, Runs
  <1> QED
    BY <1>2, <1>3

(* To stop a runner changes only that it is cancelled.                     *)
LEMMA CancelledFacts ==
    ASSUME NEW ls \in [Loops -> Runs]
    PROVE  /\ Cancelled(ls) \in [Loops -> Runs]
           /\ \A l \in Loops :
                 /\ Same(Cancelled(ls)[l], ls[l])
                 /\ Cancelled(ls)[l].due = ls[l].due /\ Cancelled(ls)[l].woken = ls[l].woken
  <1>1. ASSUME NEW l \in Loops
        PROVE  /\ Cancelled(ls)[l] = IF ls[l].pc = "off" THEN ls[l] ELSE [ls[l] EXCEPT !.cancelled = TRUE]
               /\ Cancelled(ls)[l] \in Runs
    BY RunUpdates DEF Cancelled
  <1>2. Cancelled(ls) \in [Loops -> Runs]
    BY <1>1 DEF Cancelled
  <1>3. ASSUME NEW l \in Loops
        PROVE  /\ Same(Cancelled(ls)[l], ls[l])
               /\ Cancelled(ls)[l].due = ls[l].due /\ Cancelled(ls)[l].woken = ls[l].woken
    <2>1. ls[l] \in Runs
      OBVIOUS
    <2> QED
      BY <1>1, <2>1 DEF Same, Runs
  <1> QED
    BY <1>2, <1>3

-----------------------------------------------------------------------------
(* Facts about one state.                                                  *)

LEMMA FieldTypes ==
    ASSUME ScheduleTypeOK
    PROVE  /\ now \in Nat /\ now > 0 /\ revision \in Nat
           /\ token.refresh \in BOOLEAN /\ token.lastAuthAt \in Nat /\ token.expiresAt \in Nat
           /\ schedule.nextStage \in Nat \ {0} /\ schedule.retryNotBefore \in Nat
           /\ schedule.claim \in Loops \cup {NoLoop} /\ schedule.disposition \in Dispositions
           /\ schedule.eventAt \in Nat /\ schedule.eventEmitted \in BOOLEAN
           /\ \A l \in Loops :
                 /\ loops[l] \in Runs /\ loops[l].pc \in PCs /\ loops[l].revision \in 0..MaxRevision
                 /\ loops[l].revision \in Nat /\ loops[l].stage \in Nat
                 /\ loops[l].result \in Results /\ loops[l].due \in Nat
           /\ GraceEnd(token) \in Nat
  <1>1. now \in 1..MaxTime /\ revision \in 0..MaxRevision
    BY DEF ScheduleTypeOK
  <1>2. token \in Tokens /\ schedule \in Schedules /\ loops \in [Loops -> Runs]
    BY DEF ScheduleTypeOK
  <1>3. token.refresh \in BOOLEAN /\ token.lastAuthAt \in Nat /\ token.expiresAt \in Nat
    BY <1>2 DEF Tokens
  <1>4. /\ schedule.nextStage \in Nat \ {0} /\ schedule.retryNotBefore \in Nat
        /\ schedule.claim \in Loops \cup {NoLoop} /\ schedule.disposition \in Dispositions
        /\ schedule.eventAt \in Nat /\ schedule.eventEmitted \in BOOLEAN
    BY <1>2 DEF Schedules
  <1>5. ASSUME NEW l \in Loops
        PROVE  /\ loops[l] \in Runs /\ loops[l].pc \in PCs /\ loops[l].revision \in 0..MaxRevision
               /\ loops[l].revision \in Nat /\ loops[l].stage \in Nat
               /\ loops[l].result \in Results /\ loops[l].due \in Nat
    <2>1. loops[l] \in Runs
      BY <1>2
    <2> QED
      BY <2>1 DEF Runs
  <1>6. GraceEnd(token) \in Nat
    BY <1>3 DEF GraceEnd
  <1> QED
    BY <1>1, <1>3, <1>4, <1>5, <1>6

(* The stage that comes next has a time, and so has what a loop waits for. *)
LEMMA DueTypes ==
    ASSUME ScheduleTypeOK
    PROVE  /\ HasLifetime(token) =>
                 /\ refreshStageTime(token, schedule.nextStage) \in Nat
                 /\ StageDue \in Nat
                 /\ refreshStageTime(token, schedule.nextStage) <= StageDue
                 /\ schedule.retryNotBefore <= StageDue
           /\ Due \in Nat
  <1>1. token \in Tokens /\ schedule.nextStage \in Nat
    BY FieldTypes DEF ScheduleTypeOK
  <1>2. ASSUME HasLifetime(token)
        PROVE  /\ refreshStageTime(token, schedule.nextStage) \in Nat
               /\ StageDue \in Nat
               /\ refreshStageTime(token, schedule.nextStage) <= StageDue
               /\ schedule.retryNotBefore <= StageDue
    <2>1. refreshStageTime(token, schedule.nextStage) \in Nat
      BY <1>1, <1>2, StageTimes
    <2> QED
      BY <2>1, FieldTypes DEF StageDue, Later
  <1>3. Due \in Nat
    BY <1>2, FieldTypes DEF Due, Refreshable
  <1> QED
    BY <1>2, <1>3

(* The first stage of a lifetime of more than one unit has its time before *)
(* the expiry.                                                             *)
LEMMA FirstStage ==
    ASSUME ScheduleTypeOK, HasLifetime(token), Lifetime(token) > 1,
           schedule.nextStage = 1, schedule.retryNotBefore = 0
    PROVE  StageLeft /\ StageDue \in Nat \ {0} /\ StageDue < token.expiresAt
  <1> DEFINE u == refreshStageTime(token, 1)
             x == remaining(Lifetime(token))[1]
  <1>1. token \in Tokens
    BY DEF ScheduleTypeOK
  <1>2. Lifetime(token) \in Nat /\ x = Lifetime(token) \div 2
    BY <1>1, StageTimes
  <1>3. x > 0
    BY <1>2
  <1>4. StageExists(token, 1)
    BY <1>3 DEF StageExists
  <1>5. u \in Nat /\ u < token.expiresAt
    BY <1>1, <1>4, StageTimes
  <1>6. u # 0
    <2>1. StageExists(token, 0 + 1)
      BY <1>4
    <2>2. refreshStageTime(token, 0) < refreshStageTime(token, 0 + 1) /\ refreshStageTime(token, 0) \in Nat
      BY <1>1, <2>1, StageTimes
    <2> QED
      BY <2>2, <1>5
  <1> HIDE DEF u
  <1>7. StageDue = u
    BY <1>5 DEF StageDue, Later, u
  <1> QED
    BY <1>4, <1>5, <1>6, <1>7 DEF StageLeft

(* Nothing but ready, the tokens and the schedule decides what a loop      *)
(* waits for: not the time, so that a sleep does not become stale by       *)
(* itself.                                                                 *)
LEMMA DueStays ==
    ASSUME UNCHANGED <<ready, token, schedule>>
    PROVE  Due' = Due
  BY DEF Due, Blocked, Refreshable, StageLeft, StageDue, StageExists, HasLifetime,
         refreshStageTime, Later, Lifetime

(* The properties that follow from the invariant in one state.             *)
LEMMA InvImplies ==
    Inv => ScheduleTypeOK /\ NoStaleSleep /\ TriedBeforeExpiry
  <1> SUFFICES ASSUME Inv
               PROVE  ScheduleTypeOK /\ NoStaleSleep /\ TriedBeforeExpiry
    OBVIOUS
  <1>1. ScheduleTypeOK /\ NoStaleSleep /\ PromptShape
    BY DEF Inv
  <1>2. token.expiresAt \in Nat /\ now \in Nat
    BY <1>1, FieldTypes
  <1>3. TriedBeforeExpiry
    BY <1>1, <1>2 DEF TriedBeforeExpiry, PromptShape, Waiting
  <1> QED
    BY <1>1, <1>3

LEMMA TypeImplies ==
    ScheduleTypeOK => StagesHalve /\ RetryDelayDoubles
  <1> SUFFICES ASSUME ScheduleTypeOK
               PROVE  StagesHalve /\ RetryDelayDoubles
    OBVIOUS
  <1>1. StagesHalve
    <2> SUFFICES ASSUME HasLifetime(token), NEW s \in 1..MaxTime
                 PROVE  /\ StageExists(token, s) <=> TwoTo[s] <= Lifetime(token)
                        /\ StageExists(token, s) =>
                              /\ refreshStageTime(token, s) = token.expiresAt - Lifetime(token) \div TwoTo[s]
                              /\ refreshStageTime(token, s) > Later(refreshStageTime(token, s - 1), token.lastAuthAt)
                              /\ refreshStageTime(token, s) < token.expiresAt
      BY DEF StagesHalve
    <2> DEFINE L == Lifetime(token)
               k == TwoTo[s]
    <2>1. token \in Tokens /\ s \in Nat /\ s - 1 \in Nat /\ (s - 1) + 1 = s
      BY DEF ScheduleTypeOK
    <2>2. L \in Nat \ {0}
      BY <2>1, StageTimes
    <2>3. k \in Nat \ {0}
      BY <2>1, TwoToFacts
    <2>4. remaining(L)[s] = L \div k
      BY <2>1, <2>2, remainingClosed
    <2>5. StageExists(token, s) <=> L \div k > 0
      BY <2>4 DEF StageExists
    <2>6. refreshStageTime(token, s) = token.expiresAt - L \div k
      BY <2>4 DEF refreshStageTime
    <2>7. refreshStageTime(token, s - 1) \in Nat /\ refreshStageTime(token, s) \in Nat
      BY <2>1, StageTimes
    <2>8. StageExists(token, s) =>
              /\ refreshStageTime(token, s - 1) < refreshStageTime(token, s)
              /\ refreshStageTime(token, s) < token.expiresAt
      BY <2>1, StageTimes
    <2>9. StageExists(token, s) => token.lastAuthAt < refreshStageTime(token, s)
      <3> DEFINE x == L \div k
      <3>1. L = token.expiresAt - token.lastAuthAt /\ token.expiresAt \in Nat /\ token.lastAuthAt \in Nat
        BY <2>1 DEF Lifetime, Tokens
      <3>2. s # 0 /\ k = 2 * TwoTo[s - 1] /\ TwoTo[s - 1] \in Nat \ {0}
        BY <2>1, TwoToFacts
      <3>3. x \in Nat /\ x < L
        BY <2>2, <2>3, <3>2
      <3> HIDE DEF x, L
      <3> QED
        BY <2>6, <3>1, <3>3 DEF x
    <2>10. L \div k > 0 <=> k <= L
      <3> HIDE DEF L, k
      <3> QED
        BY <2>2, <2>3
    <2> HIDE DEF L, k
    <2> QED
      BY <2>5, <2>6, <2>7, <2>8, <2>9, <2>10 DEF L, k, Later
  <1>2. RetryDelayDoubles
    <2> SUFFICES ASSUME NEW n \in 1..now
                 PROVE  persistenceRetryDelay(n) =
                            IF MinRetry * TwoTo[n - 1] > MaxRetry THEN MaxRetry ELSE MinRetry * TwoTo[n - 1]
      BY DEF RetryDelayDoubles
    <2>1. n \in Nat /\ n > 0
      BY FieldTypes
    <2> QED
      BY <2>1, delayClosed
  <1> QED
    BY <1>1, <1>2

-----------------------------------------------------------------------------
(* Every step preserves the invariant.                                     *)

LEMMA InitInv ==
    ScheduleInit => Inv
  <1> SUFFICES ASSUME ScheduleInit
               PROVE  Inv
    OBVIOUS
  <1>1. /\ now = 1 /\ prompt \in BOOLEAN /\ ready = FALSE /\ attended = FALSE /\ token = NoToken
        /\ revision = 0 /\ schedule = NewSchedule /\ started = {} /\ failedAt = 0
        /\ \A l \in Loops : loops[l] = NoRun
    BY DEF ScheduleInit
  <1>2. loops \in [Loops -> Runs]
    BY RunUpdates DEF ScheduleInit
  <1>3. \A l \in Loops : loops[l].pc = "off" /\ loops[l].revision = 0
    <2>1. NoRun.pc = "off" /\ NoRun.revision = 0
      BY DEF NoRun
    <2> QED
      BY <1>1, <2>1, Zenon
  <1>4. /\ schedule.claim = NoLoop /\ schedule.disposition = "active" /\ schedule.eventEmitted = FALSE
        /\ schedule.nextStage = 1
    BY <1>1 DEF NewSchedule
  <1>5. token \in Tokens /\ token.refresh = FALSE
    BY <1>1 DEF NoToken, Tokens
  <1>6. 1 \in 1..MaxTime
    OBVIOUS
  <1>7. ScheduleTypeOK
    <2>1. schedule \in Schedules
      BY <1>1, ScheduleUpdates
    <2>2. now \in 1..MaxTime
      BY <1>1, <1>6
    <2>3. revision \in 0..MaxRevision /\ started \subseteq Nat /\ failedAt \in Nat
      BY <1>1
    <2>4. \A l \in Loops : schedule.claim # l /\ loops[l].pc \notin {"claimed", "attempt", "finish"}
      BY <1>3, <1>4
    <2>5. ready \in BOOLEAN /\ attended \in BOOLEAN
      BY <1>1
    <2> QED
      BY <1>1, <1>2, <1>5, <2>1, <2>2, <2>3, <2>4, <2>5, Zenon DEF ScheduleTypeOK
  <1>8. RevisionShape
    <2>1. \A l \in Loops : loops[l].revision = revision
      BY <1>1, <1>3, Zenon
    <2>2. revision <= revision
      BY <1>1
    <2> QED
      BY <2>1, <2>2, Zenon DEF RevisionShape
  <1>9. ClaimShape /\ StageShape
    BY <1>1, <1>4 DEF ClaimShape, StageShape
  <1>10. EventShape
    BY <1>3, <1>4 DEF EventShape
  <1>11. PromptShape
    BY <1>4, <1>5 DEF PromptShape, Waiting
  <1>12. NoStaleSleep
    BY <1>3 DEF NoStaleSleep
  <1> QED
    BY <1>7, <1>8, <1>9, <1>10, <1>11, <1>12 DEF Inv

\* The invariant for one loop that has the claim, when stages were attempted.
Holds(r, stages) ==
    /\ r.stage = schedule.nextStage
    /\ r.pc = "attempt" => r.stage \in stages
    /\ r.pc = "finish" =>
          /\ r.result # "none"
          /\ r.result \in {"temporary", "canceledAfter"} => r.stage \in stages
          /\ r.result = "succeeded" => schedule.disposition # "active"
    /\ prompt => /\ r.pc = "claimed" => now < token.expiresAt
                 /\ r.pc = "finish" => r.result # "expiredBefore"

AttemptsStage(r) ==
    \/ r.pc = "attempt"
    \/ r.pc = "finish" /\ r.result \notin {"expiredBefore", "canceledBefore"}

(* A step of one loop that leaves the schedule, the tokens and the time    *)
(* alone, except that it may attempt the stage it has claimed.             *)
LEMMA OneLoop ==
    ASSUME Inv, NEW l \in Loops, NEW r \in Runs,
           loops' = [loops EXCEPT ![l] = r],
           UNCHANGED <<now, prompt, ready, token, revision, schedule, failedAt, attended>>,
           \/ started' = started
           \/ /\ schedule.claim = l /\ AttemptsStage(r)
              /\ started' = started \cup {schedule.nextStage},
           r.revision <= revision,
           schedule.claim = l <=>
               r.pc \in {"claimed", "attempt", "finish"} /\ r.revision = revision,
           schedule.claim = l => Holds(r, started') /\ (AttemptsStage(loops[l]) => AttemptsStage(r)),
           r.pc = "wait" /\ ~r.woken => r.due = Due,
           r.pc # "emit",
           started' = started /\ loops[l].pc \notin {"off", "attempt"} /\ ~loops[l].cancelled =>
               r.pc \notin {"off", "attempt"} /\ ~r.cancelled
    PROVE  Inv'
  <1>1. ScheduleTypeOK /\ loops \in [Loops -> Runs]
    BY DEF Inv, ScheduleTypeOK
  <1>2. loops'[l] = r /\ loops' \in [Loops -> Runs] /\ \A k \in Loops : k # l => loops'[k] = loops[k]
    BY <1>1
  <1>3. ScheduleTypeOK'
    <2>1. ASSUME NEW k \in Loops
          PROVE  schedule'.claim = k <=> /\ loops'[k].pc \in {"claimed", "attempt", "finish"}
                                         /\ loops'[k].revision = revision'
      <3>1. CASE k = l
        BY <1>2, <3>1
      <3>2. CASE k # l
        <4>1. loops'[k] = loops[k]
          BY <1>2, <3>2
        <4>2. schedule.claim = k <=> /\ loops[k].pc \in {"claimed", "attempt", "finish"}
                                     /\ loops[k].revision = revision
          BY <1>1 DEF ScheduleTypeOK
        <4> QED
          BY <4>1, <4>2
      <3> QED
        BY <3>1, <3>2
    <2>2. started' \subseteq Nat
      BY <1>1, FieldTypes DEF ScheduleTypeOK
    <2> QED
      BY <1>1, <1>2, <2>1, <2>2, Zenon DEF ScheduleTypeOK
  <1>4. RevisionShape'
    <2>1. ASSUME NEW k \in Loops
          PROVE  loops'[k].revision <= revision
      BY <1>2 DEF Inv, RevisionShape
    <2> QED
      BY <2>1 DEF RevisionShape
  <1>5. ClaimShape'
    <2> SUFFICES ASSUME NEW k \in Loops, schedule.claim = k
                 PROVE  /\ token.refresh /\ HasLifetime(token)' /\ ready
                        /\ loops'[k].stage = schedule.nextStage
                        /\ refreshStageTime(token, schedule.nextStage)' <= now
                        /\ schedule.retryNotBefore <= now
                        /\ loops'[k].pc = "attempt" => loops'[k].stage \in started'
                        /\ loops'[k].pc = "finish" =>
                              /\ loops'[k].result # "none"
                              /\ loops'[k].result \in {"temporary", "canceledAfter"} => loops'[k].stage \in started'
                              /\ loops'[k].result = "succeeded" => schedule.disposition # "active"
      BY DEF ClaimShape
    <2>1. HasLifetime(token)' = HasLifetime(token)
      BY DEF HasLifetime
    <2>2. refreshStageTime(token, schedule.nextStage)' = refreshStageTime(token, schedule.nextStage)
      BY DEF refreshStageTime, Lifetime
    <2>3. ClaimShape
      BY DEF Inv
    <2>4. CASE k = l
      BY <1>2, <2>1, <2>2, <2>3, <2>4 DEF ClaimShape, Holds
    <2>5. CASE k # l
      <3>1. loops'[k] = loops[k]
        BY <1>2, <2>5
      <3> QED
        BY <2>1, <2>2, <2>3, <3>1 DEF ClaimShape
    <2> QED
      BY <2>4, <2>5
  <1>6. StageShape'
    <2>1. StageShape
      BY DEF Inv
    <2>2. Attempting => Attempting'
      <3> SUFFICES ASSUME NEW k \in Loops, schedule.claim = k, AttemptsStage(loops[k])
                   PROVE  AttemptsStage(loops'[k])
        BY DEF Attempting, AttemptsStage
      <3>1. CASE k = l
        BY <1>2, <3>1
      <3>2. CASE k # l
        BY <1>2, <3>2
      <3> QED
        BY <3>1, <3>2
    <2>3. schedule.claim = l /\ AttemptsStage(r) => Attempting'
      BY <1>2 DEF Attempting, AttemptsStage
    <2> QED
      BY <2>1, <2>2, <2>3 DEF StageShape
  <1>7. EventShape'
    <2>1. EventShape
      BY DEF Inv
    <2>2. /\ schedule'.eventEmitted => Blocked' /\ schedule'.claim = NoLoop
          /\ schedule'.disposition = "permanent" /\ GracePeriod > 0 /\ token'.lastAuthAt # 0 =>
                GraceEnd(token)' <= schedule'.eventAt
      BY <2>1 DEF EventShape, Blocked, GraceEnd
    <2>3. InGracePeriod(token)' = InGracePeriod(token)
      BY DEF InGracePeriod, GraceEnd
    <2>4. ASSUME NEW k \in Loops, loops'[k].pc = "emit", loops'[k].revision = revision
          PROVE  schedule.eventEmitted /\ (schedule.disposition = "integrity" \/ ~InGracePeriod(token))
      <3>1. k # l
        BY <1>2, <2>4
      <3>2. loops'[k] = loops[k]
        BY <1>2, <3>1
      <3> QED
        BY <2>1, <2>4, <3>2 DEF EventShape
    <2> QED
      BY <2>2, <2>3, <2>4 DEF EventShape
  <1>8. PromptShape'
    <2>1. PromptShape
      BY DEF Inv
    <2>2. ASSUME prompt, NEW k \in Loops, schedule.claim = k
          PROVE  /\ loops'[k].pc = "claimed" => now < token.expiresAt
                 /\ loops'[k].pc = "finish" => loops'[k].result # "expiredBefore"
      <3>1. CASE k = l
        BY <1>2, <2>2, <3>1 DEF Holds
      <3>2. CASE k # l
        BY <1>2, <2>1, <2>2, <3>2 DEF PromptShape
      <3> QED
        BY <3>1, <3>2
    <2>3. Waiting' => Waiting /\ started' = started
      BY DEF Waiting, HasLifetime, Lifetime, Blocked
    <2>4. Attentive(loops) /\ started' = started => Attentive(loops)'
      <3> SUFFICES ASSUME started' = started,
                          NEW k \in Loops, loops[k].pc \notin {"off", "attempt"}, ~loops[k].cancelled
                   PROVE  loops'[k].pc \notin {"off", "attempt"} /\ ~loops'[k].cancelled
        BY DEF Attentive
      <3>1. CASE k = l
        BY <1>2, <3>1
      <3>2. CASE k # l
        BY <1>2, <3>2
      <3> QED
        BY <3>1, <3>2
    <2> QED
      BY <2>1, <2>2, <2>3, <2>4 DEF PromptShape
  <1>9. NoStaleSleep'
    <2>1. NoStaleSleep
      BY DEF Inv
    <2>2. Due' = Due
      BY DueStays
    <2>3. ASSUME NEW k \in Loops, loops'[k].pc = "wait", ~loops'[k].woken
          PROVE  loops'[k].due = Due
      <3>1. CASE k = l
        BY <1>2, <2>3, <3>1
      <3>2. CASE k # l
        BY <1>2, <2>1, <2>3, <3>2 DEF NoStaleSleep
      <3> QED
        BY <3>1, <3>2
    <2> QED
      BY <2>2, <2>3 DEF NoStaleSleep
  <1> QED
    BY <1>3, <1>4, <1>5, <1>6, <1>7, <1>8, <1>9 DEF Inv

(* The steps of that kind.                                                 *)
LEMMA LoopWaitsInv ==
    ASSUME Inv, NEW l \in Loops, LoopWaits(l)
    PROVE  Inv'
  <1> DEFINE r == [loops[l] EXCEPT !.pc = "wait", !.due = Due, !.woken = FALSE]
  <1>1. ScheduleTypeOK /\ loops \in [Loops -> Runs] /\ loops[l] \in Runs /\ Due \in Nat
    BY DueTypes DEF Inv, ScheduleTypeOK
  <1>2. loops' = [loops EXCEPT ![l] = r]
    BY <1>1 DEF LoopWaits
  <1>3. r \in Runs
    <2>1. "wait" \in PCs
      BY DEF PCs
    <2> QED
      BY <1>1, <2>1, RunUpdates
  <1>4. r.pc = "wait" /\ r.due = Due /\ r.revision = loops[l].revision /\ r.cancelled = loops[l].cancelled
    BY <1>1 DEF Runs
  <1> HIDE DEF r
  <1>5. schedule.claim # l
    BY <1>1 DEF ScheduleTypeOK, LoopWaits, AtNext
  <1>6. r.revision <= revision
    BY <1>4 DEF Inv, RevisionShape
  <1> QED
    BY <1>2, <1>3, <1>4, <1>5, <1>6, OneLoop DEF LoopWaits

LEMMA LoopWakesInv ==
    ASSUME Inv, NEW l \in Loops, LoopWakes(l)
    PROVE  Inv'
  <1> DEFINE r == [loops[l] EXCEPT !.pc = "next", !.due = 0, !.woken = FALSE]
  <1>1. ScheduleTypeOK /\ loops \in [Loops -> Runs] /\ loops[l] \in Runs
    BY DEF Inv, ScheduleTypeOK
  <1>2. loops' = [loops EXCEPT ![l] = r]
    BY <1>1 DEF LoopWakes
  <1>3. r \in Runs
    <2>1. "next" \in PCs
      BY DEF PCs
    <2> QED
      BY <1>1, <2>1, RunUpdates
  <1>4. r.pc = "next" /\ r.revision = loops[l].revision /\ r.cancelled = loops[l].cancelled
    BY <1>1 DEF Runs
  <1> HIDE DEF r
  <1>5. schedule.claim # l
    BY <1>1 DEF ScheduleTypeOK, LoopWakes
  <1>6. r.revision <= revision
    BY <1>4 DEF Inv, RevisionShape
  <1> QED
    BY <1>2, <1>3, <1>4, <1>5, <1>6, OneLoop DEF LoopWakes

LEMMA NoRunFields ==
    /\ NoRun.pc = "off" /\ NoRun.revision = 0
    /\ [NoRun EXCEPT !.pc = "next"].pc = "next"
    /\ [NoRun EXCEPT !.pc = "next"].revision = 0
    /\ [NoRun EXCEPT !.pc = "next"].cancelled = FALSE
  BY DEF NoRun

LEMMA LoopExitsInv ==
    ASSUME Inv, NEW l \in Loops, LoopExits(l)
    PROVE  Inv'
  <1>1. ScheduleTypeOK /\ loops \in [Loops -> Runs] /\ revision \in Nat
    BY FieldTypes DEF Inv, ScheduleTypeOK
  <1>2. schedule.claim # l
    BY <1>1 DEF ScheduleTypeOK, LoopExits
  <1>3. NoRun \in Runs
    BY RunUpdates
  <1>4. NoRun.revision <= revision
    BY <1>1, NoRunFields
  <1> QED
    BY <1>2, <1>3, <1>4, NoRunFields, OneLoop DEF LoopExits

\* A loop that goes on or ends.
Rest(r) == IF r.cancelled THEN NoRun ELSE [NoRun EXCEPT !.pc = "next"]

LEMMA ResumedFacts ==
    ASSUME ScheduleTypeOK, NEW l \in Loops
    PROVE  /\ Resumed(l) = [loops EXCEPT ![l] = Rest(loops[l])]
           /\ Resumed(l) \in [Loops -> Runs]
           /\ Rest(loops[l]) \in Runs
           /\ Rest(loops[l]).pc \in {"off", "next"}
           /\ Rest(loops[l]).revision = 0
           /\ ~loops[l].cancelled => Rest(loops[l]).pc = "next" /\ ~Rest(loops[l]).cancelled
  <1>1. loops \in [Loops -> Runs]
    BY DEF ScheduleTypeOK
  <1>2. Resumed(l) = [loops EXCEPT ![l] = Rest(loops[l])]
    BY <1>1 DEF Resumed, Rest
  <1>3. Rest(loops[l]) \in Runs
    BY RunUpdates DEF Rest
  <1>4. /\ Rest(loops[l]).pc \in {"off", "next"}
        /\ Rest(loops[l]).revision = 0
        /\ ~loops[l].cancelled => Rest(loops[l]).pc = "next" /\ ~Rest(loops[l]).cancelled
    BY NoRunFields DEF Rest
  <1> QED
    BY <1>1, <1>2, <1>3, <1>4

LEMMA EmitInv ==
    ASSUME Inv, NEW l \in Loops, EmitSessionExpired(l)
    PROVE  Inv'
  <1> DEFINE r == Rest(loops[l])
  <1>1. ScheduleTypeOK /\ revision \in Nat
    BY FieldTypes DEF Inv
  <1>2. /\ loops' = [loops EXCEPT ![l] = r] /\ r \in Runs
        /\ r.pc \in {"off", "next"} /\ r.revision = 0
        /\ ~loops[l].cancelled => r.pc = "next" /\ ~r.cancelled
    BY <1>1, ResumedFacts DEF EmitSessionExpired
  <1> HIDE DEF r
  <1>3. schedule.claim # l
    BY <1>1 DEF ScheduleTypeOK, EmitSessionExpired
  <1>4. r.revision <= revision
    BY <1>1, <1>2
  <1> QED
    BY <1>2, <1>3, <1>4, OneLoop DEF EmitSessionExpired

(* A loop whose generation is gone records nothing.                        *)
LEMMA FinishOtherInv ==
    ASSUME Inv, NEW l \in Loops, finishRefreshLoopAttempt(l), loops[l].revision # revision
    PROVE  Inv'
  <1> DEFINE r == Rest(loops[l])
  <1>1. ScheduleTypeOK /\ revision \in Nat
    BY FieldTypes DEF Inv
  <1>2. /\ loops' = [loops EXCEPT ![l] = r] /\ r \in Runs
        /\ r.pc \in {"off", "next"} /\ r.revision = 0
        /\ ~loops[l].cancelled => r.pc = "next" /\ ~r.cancelled
    BY <1>1, ResumedFacts DEF finishRefreshLoopAttempt
  <1> HIDE DEF r
  <1>3. schedule.claim # l
    BY <1>1 DEF ScheduleTypeOK
  <1>4. r.revision <= revision
    BY <1>1, <1>2
  <1> QED
    BY <1>2, <1>3, <1>4, OneLoop DEF finishRefreshLoopAttempt

(* A loop that has a result.                                               *)
LEMMA FinishingFacts ==
    ASSUME ScheduleTypeOK, NEW l \in Loops, NEW result \in Results
    PROVE  /\ Finishing(l, result) = [loops EXCEPT ![l] = [loops[l] EXCEPT !.pc = "finish", !.result = result]]
           /\ Finishing(l, result) \in [Loops -> Runs]
           /\ [loops[l] EXCEPT !.pc = "finish", !.result = result] \in Runs
           /\ Finishing(l, result)[l] = [loops[l] EXCEPT !.pc = "finish", !.result = result]
           /\ Finishing(l, result)[l].pc = "finish"
           /\ Finishing(l, result)[l].result = result
           /\ Finishing(l, result)[l].revision = loops[l].revision
           /\ Finishing(l, result)[l].stage = loops[l].stage
           /\ Finishing(l, result)[l].cancelled = loops[l].cancelled
           /\ \A k \in Loops : k # l => Finishing(l, result)[k] = loops[k]
  <1> DEFINE r == [loops[l] EXCEPT !.pc = "finish", !.result = result]
  <1>1. loops \in [Loops -> Runs] /\ loops[l] \in Runs
    BY DEF ScheduleTypeOK
  <1>2. Finishing(l, result) = [loops EXCEPT ![l] = r]
    BY <1>1 DEF Finishing
  <1>3. r \in Runs
    <2>1. "finish" \in PCs
      BY DEF PCs
    <2> QED
      BY <1>1, <2>1, RunUpdates
  <1>4. /\ r.pc = "finish" /\ r.result = result /\ r.revision = loops[l].revision
        /\ r.stage = loops[l].stage /\ r.cancelled = loops[l].cancelled
    BY <1>1 DEF Runs
  <1> HIDE DEF r
  <1> QED
    BY <1>1, <1>2, <1>3, <1>4 DEF r

LEMMA AttemptEndsInv ==
    ASSUME Inv, NEW l \in Loops, AttemptEnds(l)
    PROVE  Inv'
  <1>1. ScheduleTypeOK
    BY DEF Inv
  <1>2. PICK result \in Results \ {"none", "canceledBefore", "expiredBefore"} :
            /\ result = "succeeded" <=> loops[l].revision # revision
            /\ loops' = Finishing(l, result)
    BY DEF AttemptEnds
  <1> DEFINE r == [loops[l] EXCEPT !.pc = "finish", !.result = result]
  <1>3. /\ loops' = [loops EXCEPT ![l] = r] /\ r \in Runs
        /\ r.pc = "finish" /\ r.result = result /\ r.revision = loops[l].revision
        /\ r.stage = loops[l].stage /\ r.cancelled = loops[l].cancelled
    <2>1. loops' = [loops EXCEPT ![l] = r] /\ r \in Runs
      BY <1>1, <1>2, FinishingFacts
    <2>2. loops[l] \in Runs
      BY <1>1 DEF ScheduleTypeOK
    <2> QED
      BY <2>1, <2>2 DEF Runs
  <1> HIDE DEF r
  <1>4. loops[l].pc = "attempt" /\ UNCHANGED <<now, prompt, ready, token, revision, schedule, started, failedAt, attended>>
    BY DEF AttemptEnds
  <1>5. schedule.claim = l <=> loops[l].revision = revision
    BY <1>1, <1>4 DEF ScheduleTypeOK
  <1>6. r.revision <= revision
    BY <1>3 DEF Inv, RevisionShape
  <1>7. ASSUME schedule.claim = l
        PROVE  Holds(r, started') /\ AttemptsStage(r)
    <2>1. loops[l].stage = schedule.nextStage /\ loops[l].stage \in started
      BY <1>4, <1>7 DEF Inv, ClaimShape
    <2> QED
      BY <1>2, <1>3, <1>4, <1>5, <1>7, <2>1 DEF Holds, AttemptsStage
  <1> QED
    BY <1>3, <1>4, <1>5, <1>6, <1>7, OneLoop

(* How an attempt can fail to start.                                       *)
LEMMA NotStartedFacts ==
    ASSUME ScheduleTypeOK, NEW l \in Loops
    PROVE  /\ NotStarted(l) \in Results \ {"temporary", "canceledAfter"}
           /\ NotStarted(l) = "none" => /\ ~loops[l].cancelled /\ loops[l].revision = revision
                                        /\ schedule.disposition = "active" /\ now < token.expiresAt
           /\ NotStarted(l) = "succeeded" => loops[l].revision # revision \/ schedule.disposition # "active"
           /\ NotStarted(l) = "expiredBefore" => ~(now < token.expiresAt)
  <1>1. schedule.disposition \in Dispositions /\ now \in Nat /\ token.expiresAt \in Nat
    BY FieldTypes
  <1>2. now >= token.expiresAt <=> ~(now < token.expiresAt)
    BY <1>1
  <1> QED
    BY <1>1, <1>2 DEF NotStarted, Results, Dispositions, Blocked

LEMMA AttemptBeginsInv ==
    ASSUME Inv, NEW l \in Loops, AttemptBegins(l)
    PROVE  Inv'
  <1>1. ScheduleTypeOK /\ loops \in [Loops -> Runs] /\ loops[l] \in Runs
    BY DEF Inv, ScheduleTypeOK
  <1>2. loops[l].pc = "claimed" /\ UNCHANGED <<now, prompt, ready, token, revision, schedule, failedAt, attended>>
    BY DEF AttemptBegins
  <1>3. schedule.claim = l <=> loops[l].revision = revision
    BY <1>1, <1>2 DEF ScheduleTypeOK
  <1>4. schedule.claim = l => loops[l].stage = schedule.nextStage
    BY DEF Inv, ClaimShape
  <1>5. loops[l].revision <= revision
    BY DEF Inv, RevisionShape
  <1>6. CASE NotStarted(l) = "none"
    <2> DEFINE r == [loops[l] EXCEPT !.pc = "attempt"]
    <2>1. loops' = [loops EXCEPT ![l] = r] /\ started' = started \cup {loops[l].stage}
      BY <1>1, <1>6 DEF AttemptBegins
    <2>2. r \in Runs
      <3>1. "attempt" \in PCs
        BY DEF PCs
      <3> QED
        BY <1>1, <3>1, RunUpdates
    <2>3. r.pc = "attempt" /\ r.revision = loops[l].revision /\ r.stage = loops[l].stage
      BY <1>1 DEF Runs
    <2> HIDE DEF r
    <2>4. schedule.claim = l
      BY <1>1, <1>3, <1>6, NotStartedFacts
    <2>5. Holds(r, started') /\ AttemptsStage(r)
      BY <1>4, <2>1, <2>3, <2>4 DEF Holds, AttemptsStage
    <2>6. started' = started => schedule.nextStage \in started
      BY <1>4, <2>1, <2>4
    <2>7. started' # started
      <3>1. schedule.disposition = "active"
        BY <1>1, <1>6, NotStartedFacts
      <3>2. ~Attempting
        BY <1>2, <2>4 DEF Attempting
      <3>3. ~(schedule.nextStage < schedule.nextStage)
        BY <1>1, FieldTypes
      <3> QED
        BY <2>6, <3>1, <3>2, <3>3 DEF Inv, StageShape
    <2> QED
      BY <1>2, <1>3, <1>4, <1>5, <2>1, <2>2, <2>3, <2>4, <2>5, <2>7, OneLoop
  <1>7. CASE NotStarted(l) # "none"
    <2>0. PICK result \in Results : result = NotStarted(l)
      BY <1>1, NotStartedFacts
    <2> DEFINE r == [loops[l] EXCEPT !.pc = "finish", !.result = result]
    <2>1. loops' = Finishing(l, result) /\ started' = started
      BY <1>7, <2>0 DEF AttemptBegins
    <2>2. result \in Results /\ result \notin {"none", "temporary", "canceledAfter"}
      BY <1>1, <1>7, <2>0, NotStartedFacts
    <2>3. /\ result = "succeeded" => loops[l].revision # revision \/ schedule.disposition # "active"
          /\ result = "expiredBefore" => ~(now < token.expiresAt)
      BY <1>1, <2>0, NotStartedFacts
    <2>4. /\ loops' = [loops EXCEPT ![l] = r] /\ r \in Runs
          /\ r.pc = "finish" /\ r.result = result /\ r.revision = loops[l].revision
          /\ r.stage = loops[l].stage /\ r.cancelled = loops[l].cancelled
      <3>1. ScheduleTypeOK /\ loops' = Finishing(l, result)
        BY <1>1, <2>1
      <3>a. Finishing(l, result) = [loops EXCEPT ![l] = r]
        BY <1>1 DEF Finishing
      <3>b. r \in Runs
        BY <3>1, FinishingFacts
      <3>2. loops' = [loops EXCEPT ![l] = r] /\ r \in Runs
        BY <3>1, <3>a, <3>b
      <3> QED
        BY <1>1, <3>2 DEF Runs
    <2> HIDE DEF r
    <2>5. ASSUME schedule.claim = l
          PROVE  Holds(r, started')
      <3>1. prompt => now < token.expiresAt
        BY <1>2, <2>5 DEF Inv, PromptShape
      <3> QED
        BY <1>3, <1>4, <2>2, <2>3, <2>4, <2>5, <3>1 DEF Holds
    <2>6. ~AttemptsStage(loops[l])
      BY <1>2 DEF AttemptsStage
    <2> QED
      BY <1>2, <1>3, <1>5, <2>1, <2>4, <2>5, <2>6, OneLoop
  <1> QED
    BY <1>6, <1>7

(* A step that signals.  The loops of M take part in it; the others only   *)
(* hear of it.                                                             *)
LEMMA Signal ==
    ASSUME Inv, NEW M \in SUBSET Loops, loops' \in [Loops -> Runs],
           revision' \in Nat, revision <= revision',
           \A k \in Loops \ M : /\ Same(loops'[k], loops[k])
                                /\ loops[k].pc = "wait" => loops'[k].woken,
           \A k \in M : /\ loops'[k].revision <= revision'
                        /\ loops'[k].pc = "wait" => loops'[k].due = Due'
    PROVE  RevisionShape' /\ NoStaleSleep'
  <1>1. ScheduleTypeOK /\ RevisionShape
    BY DEF Inv
  <1>2. ASSUME NEW k \in Loops
        PROVE  loops'[k].revision <= revision'
    <2>1. loops[k].revision \in Nat /\ revision \in Nat /\ loops[k].revision <= revision
      BY <1>1, FieldTypes DEF RevisionShape
    <2>2. CASE k \in M
      BY <2>2
    <2>3. CASE k \notin M
      <3>1. loops'[k].revision = loops[k].revision
        BY <2>3 DEF Same
      <3> QED
        BY <2>1, <3>1
    <2> QED
      BY <2>2, <2>3
  <1>3. ASSUME NEW k \in Loops, loops'[k].pc = "wait", ~loops'[k].woken
        PROVE  loops'[k].due = Due'
    BY <1>3 DEF Same
  <1> QED
    BY <1>2, <1>3 DEF RevisionShape, NoStaleSleep

LEMMA SignalOne ==
    ASSUME Inv, NEW l \in Loops, loops' \in [Loops -> Runs],
           revision \in Nat, revision' = revision,
           \A k \in Loops : k # l => /\ Same(loops'[k], loops[k])
                                     /\ loops[k].pc = "wait" => loops'[k].woken,
           loops'[l].revision <= revision,
           loops'[l].pc = "wait" => loops'[l].due = Due'
    PROVE  RevisionShape' /\ NoStaleSleep'
  <1> DEFINE M == {l}
  <1>1. M \in SUBSET Loops /\ revision' \in Nat /\ revision <= revision'
    OBVIOUS
  <1>2. \A k \in Loops \ M : Same(loops'[k], loops[k]) /\ (loops[k].pc = "wait" => loops'[k].woken)
    OBVIOUS
  <1>3. \A k \in M : loops'[k].revision <= revision' /\ (loops'[k].pc = "wait" => loops'[k].due = Due')
    OBVIOUS
  <1> HIDE DEF M
  <1> QED
    BY <1>1, <1>2, <1>3, Signal

LEMMA LoopParksInv ==
    ASSUME Inv, NEW l \in Loops, LoopParks(l)
    PROVE  Inv'
  <1> DEFINE w == Woken(loops)
             r == [w[l] EXCEPT !.pc = "wait", !.due = 0, !.woken = FALSE]
  <1>1. ScheduleTypeOK /\ loops \in [Loops -> Runs] /\ schedule \in Schedules /\ revision \in Nat
    BY FieldTypes DEF Inv, ScheduleTypeOK
  <1>2. /\ loops[l].pc = "next" /\ Parks
        /\ UNCHANGED <<now, prompt, ready, token, revision, started, failedAt, attended>>
    BY DEF LoopParks, AtNext
  <1>3. /\ w \in [Loops -> Runs] /\ w[l] = loops[l] /\ w[l] \in Runs
        /\ \A k \in Loops : /\ Same(w[k], loops[k])
                            /\ w[k].cancelled = loops[k].cancelled
                            /\ loops[k].pc = "wait" => w[k].woken
    BY <1>1, <1>2, WokenFacts
  <1>4. loops' = [w EXCEPT ![l] = r]
    BY <1>3 DEF LoopParks
  <1>5. r \in Runs
    <2>1. "wait" \in PCs
      BY DEF PCs
    <2> QED
      BY <1>3, <2>1, RunUpdates
  <1>6. r.pc = "wait" /\ r.due = 0 /\ r.revision = loops[l].revision /\ r.cancelled = loops[l].cancelled
    BY <1>3 DEF Runs
  <1> HIDE DEF r, w
  <1>7. /\ loops' \in [Loops -> Runs] /\ loops'[l] = r
        /\ \A k \in Loops : k # l => loops'[k] = w[k]
    BY <1>3, <1>4, <1>5
  <1>8. schedule' = [schedule EXCEPT !.disposition = "expired"]
    BY DEF LoopParks
  <1>9. schedule' \in Schedules
    BY <1>1, <1>8, ScheduleUpdates DEF Dispositions
  <1>10. /\ schedule'.disposition = "expired" /\ schedule'.claim = schedule.claim
         /\ schedule'.nextStage = schedule.nextStage /\ schedule'.retryNotBefore = schedule.retryNotBefore
         /\ schedule'.eventEmitted = schedule.eventEmitted
    BY <1>1, <1>8 DEF Schedules
  <1>11. /\ schedule.claim = NoLoop /\ schedule.disposition = "active" /\ ~schedule.eventEmitted
         /\ \A k \in Loops : schedule.claim # k
    BY <1>2 DEF Parks, Inv, EventShape, Blocked
  <1>12. ScheduleTypeOK'
    <2>1. ASSUME NEW k \in Loops
          PROVE  ~(loops'[k].pc \in {"claimed", "attempt", "finish"} /\ loops'[k].revision = revision)
      <3>1. ~(loops[k].pc \in {"claimed", "attempt", "finish"} /\ loops[k].revision = revision)
        BY <1>1, <1>11 DEF ScheduleTypeOK
      <3> QED
        BY <1>3, <1>6, <1>7, <3>1 DEF Same
    <2>2. \A k \in Loops : schedule'.claim # k
      BY <1>10, <1>11
    <2> QED
      BY <1>1, <1>2, <1>7, <1>9, <2>1, <2>2, Zenon DEF ScheduleTypeOK
  <1>13. Due' = 0
    BY <1>10, <1>11 DEF Due, Blocked
  <1>14. RevisionShape' /\ NoStaleSleep'
    <2>1. r.revision <= revision
      BY <1>6 DEF Inv, RevisionShape
    <2> QED
      BY <1>1, <1>2, <1>3, <1>6, <1>7, <1>13, <2>1, SignalOne
  <1>15. ClaimShape'
    BY <1>10, <1>11 DEF ClaimShape
  <1>16. StageShape'
    BY <1>2, <1>10 DEF StageShape, Inv
  <1>17. EventShape'
    <2>1. ASSUME NEW k \in Loops, loops'[k].pc = "emit", loops'[k].revision = revision
          PROVE  FALSE
      <3>1. loops[k].pc = "emit" /\ loops[k].revision = revision
        BY <1>3, <1>6, <1>7, <2>1 DEF Same
      <3> QED
        BY <3>1, <1>11 DEF Inv, EventShape
    <2> QED
      BY <1>2, <1>10, <1>11, <2>1 DEF EventShape
  <1>18. PromptShape'
    <2>1. ~Waiting'
      <3>1. SUFFICES ASSUME Waiting'
                     PROVE  FALSE
        OBVIOUS
      <3>2. Waiting
        BY <1>2, <1>11, <3>1 DEF Waiting, HasLifetime, Lifetime, Blocked
      <3>3. now < token.expiresAt /\ schedule.nextStage = 1 /\ schedule.retryNotBefore = 0
        BY <3>2 DEF Inv, PromptShape
      <3>4. StageLeft
        BY <1>1, <3>2, <3>3, FirstStage DEF Waiting
      <3>5. ~(now >= token.expiresAt)
        BY <1>1, <3>3, FieldTypes
      <3> QED
        BY <1>2, <3>4, <3>5 DEF Parks
    <2> QED
      BY <1>10, <1>11, <2>1 DEF PromptShape
  <1> QED
    BY <1>12, <1>14, <1>15, <1>16, <1>17, <1>18 DEF Inv

LEMMA LoopAnnouncesInv ==
    ASSUME Inv, NEW l \in Loops, LoopAnnounces(l)
    PROVE  Inv'
  <1> DEFINE w == Woken(loops)
             r == [w[l] EXCEPT !.pc = "emit", !.revision = revision]
  <1>1. /\ ScheduleTypeOK /\ loops \in [Loops -> Runs] /\ schedule \in Schedules
        /\ revision \in Nat /\ revision \in 0..MaxRevision
    BY FieldTypes DEF Inv, ScheduleTypeOK
  <1>2. /\ loops[l].pc = "next" /\ schedule.claim = NoLoop /\ Blocked /\ now >= schedule.eventAt
        /\ UNCHANGED <<now, prompt, ready, token, revision, started, failedAt, attended>>
    BY DEF LoopAnnounces, AtNext
  <1>3. /\ w \in [Loops -> Runs] /\ w[l] = loops[l] /\ w[l] \in Runs
        /\ \A k \in Loops : /\ Same(w[k], loops[k])
                            /\ w[k].cancelled = loops[k].cancelled
                            /\ loops[k].pc = "wait" => w[k].woken
    BY <1>1, <1>2, WokenFacts
  <1>4. loops' = [w EXCEPT ![l] = r]
    BY <1>3 DEF LoopAnnounces
  <1>5. r \in Runs
    <2>1. "emit" \in PCs
      BY DEF PCs
    <2> QED
      BY <1>1, <1>3, <2>1, RunUpdates
  <1>6. r.pc = "emit" /\ r.revision = revision
    BY <1>3 DEF Runs
  <1> HIDE DEF r, w
  <1>7. /\ loops' \in [Loops -> Runs] /\ loops'[l] = r
        /\ \A k \in Loops : k # l => loops'[k] = w[k]
    BY <1>3, <1>4, <1>5
  <1>8. schedule' = [schedule EXCEPT !.eventEmitted = TRUE]
    BY DEF LoopAnnounces
  <1>9. schedule' \in Schedules
    BY <1>1, <1>8, ScheduleUpdates
  <1>10. /\ schedule'.disposition = schedule.disposition /\ schedule'.claim = schedule.claim
         /\ schedule'.nextStage = schedule.nextStage /\ schedule'.retryNotBefore = schedule.retryNotBefore
         /\ schedule'.eventAt = schedule.eventAt /\ schedule'.eventEmitted = TRUE
    BY <1>1, <1>8 DEF Schedules
  <1>11. \A k \in Loops : schedule.claim # k
    BY <1>2
  <1>12. ScheduleTypeOK'
    <2>1. ASSUME NEW k \in Loops
          PROVE  ~(loops'[k].pc \in {"claimed", "attempt", "finish"} /\ loops'[k].revision = revision)
      <3>1. ~(loops[k].pc \in {"claimed", "attempt", "finish"} /\ loops[k].revision = revision)
        BY <1>1, <1>11 DEF ScheduleTypeOK
      <3> QED
        BY <1>3, <1>6, <1>7, <3>1 DEF Same
    <2>2. \A k \in Loops : schedule'.claim # k
      BY <1>10, <1>11
    <2> QED
      BY <1>1, <1>2, <1>7, <1>9, <2>1, <2>2, Zenon DEF ScheduleTypeOK
  <1>13. RevisionShape' /\ NoStaleSleep'
    <2>1. r.revision <= revision
      BY <1>1, <1>6
    <2> QED
      BY <1>1, <1>2, <1>3, <1>6, <1>7, <2>1, SignalOne
  <1>14. ClaimShape'
    BY <1>10, <1>11 DEF ClaimShape
  <1>15. StageShape'
    <2>1. ~Attempting
      BY <1>11 DEF Attempting
    <2> QED
      BY <1>2, <1>10, <2>1 DEF StageShape, Inv
  <1>16. EventShape'
    <2>1. InGracePeriod(token)' = InGracePeriod(token) /\ GraceEnd(token)' = GraceEnd(token) /\ Blocked'
      BY <1>2, <1>10 DEF InGracePeriod, GraceEnd, Blocked
    <2>2. schedule.disposition = "integrity" \/ ~InGracePeriod(token)
      <3>1. SUFFICES ASSUME schedule.disposition = "permanent", InGracePeriod(token)
                     PROVE  FALSE
        BY <1>2 DEF Blocked
      <3>2. GraceEnd(token) <= schedule.eventAt
        BY <3>1 DEF Inv, EventShape, InGracePeriod
      <3> QED
        BY <1>1, <1>2, <3>1, <3>2, FieldTypes DEF InGracePeriod
    <2>3. token' = token /\ schedule'.claim = NoLoop
      BY <1>2, <1>10
    <2> QED
      BY <1>10, <2>1, <2>2, <2>3 DEF EventShape, Inv
  <1>17. PromptShape'
    <2>1. ~Waiting'
      BY <1>2, <1>10 DEF Waiting, Blocked
    <2> QED
      BY <1>10, <1>11, <2>1 DEF PromptShape
  <1> QED
    BY <1>12, <1>13, <1>14, <1>15, <1>16, <1>17 DEF Inv

LEMMA LoopClaimsInv ==
    ASSUME Inv, NEW l \in Loops, LoopClaims(l)
    PROVE  Inv'
  <1> DEFINE w == Woken(loops)
             s == schedule.nextStage
             r == [w[l] EXCEPT !.pc = "claimed", !.revision = revision, !.stage = s]
  <1>1. /\ ScheduleTypeOK /\ loops \in [Loops -> Runs] /\ schedule \in Schedules
        /\ revision \in Nat /\ revision \in 0..MaxRevision /\ s \in Nat /\ now \in Nat
    BY FieldTypes DEF Inv, ScheduleTypeOK
  <1>2. /\ loops[l].pc = "next" /\ ~Blocked /\ ~Parks /\ Due # 0 /\ now >= Due
        /\ UNCHANGED <<now, prompt, ready, token, revision, started, failedAt, attended>>
    BY DEF LoopClaims, AtNext
  <1>3. /\ w \in [Loops -> Runs] /\ w[l] = loops[l] /\ w[l] \in Runs
        /\ \A k \in Loops : /\ Same(w[k], loops[k])
                            /\ w[k].cancelled = loops[k].cancelled
                            /\ loops[k].pc = "wait" => w[k].woken
    BY <1>1, <1>2, WokenFacts
  <1>4. loops' = [w EXCEPT ![l] = r]
    BY <1>3 DEF LoopClaims
  <1>5. r \in Runs
    <2>1. "claimed" \in PCs
      BY DEF PCs
    <2> HIDE DEF s
    <2> QED
      BY <1>1, <1>3, <2>1, RunUpdates
  <1>6. r.pc = "claimed" /\ r.revision = revision /\ r.stage = s /\ r.cancelled = loops[l].cancelled
    BY <1>3 DEF Runs
  <1> HIDE DEF r, w
  <1>7. /\ loops' \in [Loops -> Runs] /\ loops'[l] = r
        /\ \A k \in Loops : k # l => loops'[k] = w[k]
    BY <1>3, <1>4, <1>5
  <1>8. schedule' = [schedule EXCEPT !.claim = l]
    BY DEF LoopClaims
  <1>9. schedule' \in Schedules
    BY <1>1, <1>8, ScheduleUpdates
  <1>10. /\ schedule'.disposition = schedule.disposition /\ schedule'.claim = l
         /\ schedule'.nextStage = s /\ schedule'.retryNotBefore = schedule.retryNotBefore
         /\ schedule'.eventAt = schedule.eventAt /\ schedule'.eventEmitted = schedule.eventEmitted
    BY <1>1, <1>8 DEF Schedules
  <1>11. schedule.claim = NoLoop /\ schedule.disposition = "active" /\ Refreshable /\ StageLeft /\ Due = StageDue
    BY <1>2 DEF Due
  <1>12. \A k \in Loops : schedule.claim # k
    BY <1>11
  <1>13. ScheduleTypeOK'
    <2>1. ASSUME NEW k \in Loops, k # l
          PROVE  ~(loops'[k].pc \in {"claimed", "attempt", "finish"} /\ loops'[k].revision = revision)
      <3>1. ~(loops[k].pc \in {"claimed", "attempt", "finish"} /\ loops[k].revision = revision)
        BY <1>1, <1>12 DEF ScheduleTypeOK
      <3> QED
        BY <1>3, <1>7, <2>1, <3>1 DEF Same
    <2>2. loops'[l].pc \in {"claimed", "attempt", "finish"} /\ loops'[l].revision = revision
      BY <1>6, <1>7
    <2>3. \A k \in Loops : schedule'.claim = k <=> k = l
      BY <1>10
    <2>4. \A k \in Loops : schedule'.claim = k <=> /\ loops'[k].pc \in {"claimed", "attempt", "finish"}
                                                   /\ loops'[k].revision = revision
      BY <2>1, <2>2, <2>3, Zenon
    <2> QED
      BY <1>1, <1>2, <1>7, <1>9, <2>4, Zenon DEF ScheduleTypeOK
  <1>14. RevisionShape' /\ NoStaleSleep'
    <2>1. r.revision <= revision
      BY <1>1, <1>6
    <2> QED
      BY <1>1, <1>2, <1>3, <1>6, <1>7, <2>1, SignalOne
  <1>15. HasLifetime(token) /\ token.refresh /\ ready /\ now < token.expiresAt
    <2>1. HasLifetime(token) /\ token.refresh /\ ready
      BY <1>11 DEF Refreshable
    <2>2. ~(now >= token.expiresAt)
      BY <1>2, <1>11, <2>1 DEF Parks, HasLifetime
    <2> QED
      BY <1>1, <2>1, <2>2, FieldTypes
  <1>16. ClaimShape'
    <2>1. refreshStageTime(token, s) <= now /\ schedule.retryNotBefore <= now
      <3>1. /\ refreshStageTime(token, s) \in Nat /\ StageDue \in Nat
            /\ refreshStageTime(token, s) <= StageDue /\ schedule.retryNotBefore <= StageDue
        BY <1>1, <1>15, DueTypes
      <3> QED
        BY <1>1, <1>2, <1>11, <3>1, FieldTypes
    <2>2. HasLifetime(token)' /\ refreshStageTime(token, schedule.nextStage)' = refreshStageTime(token, s)
      BY <1>2, <1>10, <1>15 DEF HasLifetime, refreshStageTime, Lifetime
    <2>3. ASSUME NEW k \in Loops, schedule'.claim = k
          PROVE  k = l
      BY <1>10, <2>3
    <2> QED
      BY <1>2, <1>6, <1>7, <1>10, <1>15, <2>1, <2>2, <2>3 DEF ClaimShape
  <1>17. StageShape'
    <2>1. ~Attempting
      BY <1>12 DEF Attempting
    <2> QED
      BY <1>2, <1>10, <2>1 DEF StageShape, Inv
  <1>18. EventShape'
    <2>1. ~schedule.eventEmitted
      BY <1>2 DEF Inv, EventShape
    <2>2. ASSUME NEW k \in Loops, loops'[k].pc = "emit", loops'[k].revision = revision
          PROVE  FALSE
      <3>1. loops[k].pc = "emit" /\ loops[k].revision = revision
        BY <1>3, <1>6, <1>7, <2>2 DEF Same
      <3> QED
        BY <2>1, <3>1 DEF Inv, EventShape
    <2> QED
      BY <1>2, <1>10, <1>11, <2>1, <2>2 DEF EventShape
  <1>19. PromptShape'
    <2>1. Waiting' => Waiting
      BY <1>2, <1>10 DEF Waiting, HasLifetime, Lifetime, Blocked
    <2>2. Attentive(loops) => Attentive(loops)'
      <3> SUFFICES ASSUME NEW k \in Loops, loops[k].pc \notin {"off", "attempt"}, ~loops[k].cancelled
                   PROVE  loops'[k].pc \notin {"off", "attempt"} /\ ~loops'[k].cancelled
        BY DEF Attentive
      <3>1. CASE k = l
        BY <1>6, <1>7, <3>1
      <3>2. CASE k # l
        BY <1>3, <1>7, <3>2 DEF Same
      <3> QED
        BY <3>1, <3>2
    <2>3. ASSUME NEW k \in Loops, schedule'.claim = k
          PROVE  /\ loops'[k].pc = "claimed" => now < token.expiresAt
                 /\ loops'[k].pc = "finish" => loops'[k].result # "expiredBefore"
      BY <1>6, <1>7, <1>10, <1>15, <2>3
    <2> QED
      BY <1>2, <1>10, <1>11, <2>1, <2>2, <2>3 DEF PromptShape, Inv
  <1> QED
    BY <1>13, <1>14, <1>16, <1>17, <1>18, <1>19 DEF Inv

(* AccessToken blocks the generation.                                      *)
LEMMA BlockInv ==
    ASSUME Inv, schedule' \in Schedules, loops' = Woken(loops),
           UNCHANGED <<now, prompt, ready, token, revision, started, failedAt, attended>>,
           schedule'.claim = schedule.claim, schedule'.nextStage = schedule.nextStage,
           schedule'.retryNotBefore = schedule.retryNotBefore,
           schedule'.eventEmitted = schedule.eventEmitted,
           schedule'.disposition \in {"permanent", "integrity"},
           schedule'.disposition = "permanent" =>
               /\ schedule.disposition # "integrity"
               /\ GracePeriod > 0 /\ token.lastAuthAt # 0 => GraceEnd(token) <= schedule'.eventAt
    PROVE  Inv'
  <1>1. ScheduleTypeOK /\ loops \in [Loops -> Runs] /\ revision \in Nat
    BY FieldTypes DEF Inv, ScheduleTypeOK
  <1>2. /\ loops' \in [Loops -> Runs]
        /\ \A k \in Loops : /\ Same(loops'[k], loops[k])
                            /\ loops[k].pc = "wait" => loops'[k].woken
    BY <1>1, WokenFacts
  <1>3. ScheduleTypeOK'
    <2>1. \A k \in Loops : schedule'.claim = k <=> /\ loops'[k].pc \in {"claimed", "attempt", "finish"}
                                                   /\ loops'[k].revision = revision
      <3> SUFFICES ASSUME NEW k \in Loops
                   PROVE  schedule.claim = k <=> /\ loops'[k].pc \in {"claimed", "attempt", "finish"}
                                                 /\ loops'[k].revision = revision
        OBVIOUS
      <3>1. loops'[k].pc = loops[k].pc /\ loops'[k].revision = loops[k].revision
        BY <1>2 DEF Same
      <3> QED
        BY <1>1, <3>1 DEF ScheduleTypeOK
    <2> QED
      BY <1>1, <1>2, <2>1, Zenon DEF ScheduleTypeOK
  <1>4. RevisionShape' /\ NoStaleSleep'
    <2> DEFINE M == {}
    <2>1. M \in SUBSET Loops /\ Loops \ M = Loops /\ revision' \in Nat /\ revision <= revision'
      BY <1>1
    <2>2. \A k \in M : FALSE
      OBVIOUS
    <2> HIDE DEF M
    <2> QED
      BY <1>2, <2>1, <2>2, Signal
  <1>5. ClaimShape'
    <2>1. HasLifetime(token)' = HasLifetime(token)
      BY DEF HasLifetime
    <2>2. refreshStageTime(token, schedule.nextStage)' = refreshStageTime(token, schedule.nextStage)
      BY DEF refreshStageTime, Lifetime
    <2>3. schedule'.disposition # "active"
      OBVIOUS
    <2>4. ClaimShape
      BY DEF Inv
    <2> SUFFICES ASSUME NEW k \in Loops, schedule.claim = k
                 PROVE  /\ token.refresh /\ HasLifetime(token) /\ ready
                        /\ loops'[k].stage = schedule.nextStage
                        /\ refreshStageTime(token, schedule.nextStage) <= now
                        /\ schedule.retryNotBefore <= now
                        /\ loops'[k].pc = "attempt" => loops'[k].stage \in started
                        /\ loops'[k].pc = "finish" =>
                              /\ loops'[k].result # "none"
                              /\ loops'[k].result \in {"temporary", "canceledAfter"} => loops'[k].stage \in started
      BY <2>1, <2>2, <2>3 DEF ClaimShape
    <2> QED
      BY <1>2, <2>4 DEF ClaimShape, Same
  <1>6. StageShape'
    BY DEF StageShape, Inv
  <1>7. EventShape'
    <2>1. InGracePeriod(token)' = InGracePeriod(token) /\ GraceEnd(token)' = GraceEnd(token) /\ Blocked'
      BY DEF InGracePeriod, GraceEnd, Blocked
    <2>2. EventShape
      BY DEF Inv
    <2>3. ASSUME NEW k \in Loops, loops'[k].pc = "emit", loops'[k].revision = revision
          PROVE  schedule'.eventEmitted /\ (schedule'.disposition = "integrity" \/ ~InGracePeriod(token))
      <3>1. loops[k].pc = "emit" /\ loops[k].revision = revision
        BY <1>2, <2>3 DEF Same
      <3> QED
        BY <2>2, <3>1 DEF EventShape
    <2> QED
      BY <2>1, <2>2, <2>3 DEF EventShape
  <1>8. PromptShape'
    <2>1. ~Waiting'
      BY DEF Waiting, Blocked
    <2>2. PromptShape
      BY DEF Inv
    <2> QED
      BY <1>2, <2>1, <2>2 DEF PromptShape, Same
  <1> QED
    BY <1>3, <1>4, <1>5, <1>6, <1>7, <1>8 DEF Inv

(* Session-expired is not due before the end of grace.                     *)
LEMMA EventTime ==
    ASSUME ScheduleTypeOK
    PROVE  /\ sessionExpiredEventTime(token) \in Nat
           /\ GracePeriod > 0 /\ token.lastAuthAt # 0 => GraceEnd(token) <= sessionExpiredEventTime(token)
  <1>1. now \in Nat /\ GraceEnd(token) \in Nat
    BY FieldTypes
  <1> QED
    BY <1>1 DEF sessionExpiredEventTime, InGracePeriod

LEMMA blockRefreshIntegrityInv ==
    ASSUME Inv, blockRefreshIntegrity
    PROVE  Inv'
  <1>1. ScheduleTypeOK /\ schedule \in Schedules /\ now \in Nat /\ schedule.eventAt \in Nat
    BY FieldTypes DEF Inv, ScheduleTypeOK
  <1>2. PICK e \in Nat : schedule' = [schedule EXCEPT !.disposition = "integrity", !.eventAt = e]
    BY <1>1 DEF blockRefreshIntegrity
  <1>3. schedule' \in Schedules
    <2>1. "integrity" \in Dispositions
      BY DEF Dispositions
    <2> QED
      BY <1>1, <1>2, <2>1, ScheduleUpdates
  <1>4. /\ schedule'.claim = schedule.claim /\ schedule'.nextStage = schedule.nextStage
        /\ schedule'.retryNotBefore = schedule.retryNotBefore
        /\ schedule'.eventEmitted = schedule.eventEmitted /\ schedule'.disposition = "integrity"
    BY <1>1, <1>2 DEF Schedules
  <1> QED
    BY <1>3, <1>4, BlockInv DEF blockRefreshIntegrity

LEMMA blockRefreshPermanentInv ==
    ASSUME Inv, blockRefreshPermanent
    PROVE  Inv'
  <1>1. ScheduleTypeOK /\ schedule \in Schedules /\ schedule.eventAt \in Nat
    BY FieldTypes DEF Inv, ScheduleTypeOK
  <1>2. PICK e \in Nat :
            /\ schedule' = [schedule EXCEPT !.disposition = "permanent", !.eventAt = e]
            /\ \/ schedule.disposition = "permanent" /\ e = schedule.eventAt
               \/ e = sessionExpiredEventTime(token)
    BY <1>1, EventTime DEF blockRefreshPermanent
  <1>3. schedule' \in Schedules
    <2>1. "permanent" \in Dispositions
      BY DEF Dispositions
    <2> QED
      BY <1>1, <1>2, <2>1, ScheduleUpdates
  <1>4. /\ schedule'.claim = schedule.claim /\ schedule'.nextStage = schedule.nextStage
        /\ schedule'.retryNotBefore = schedule.retryNotBefore
        /\ schedule'.eventEmitted = schedule.eventEmitted /\ schedule'.disposition = "permanent"
        /\ schedule'.eventAt = e
    BY <1>1, <1>2 DEF Schedules
  <1>5. GracePeriod > 0 /\ token.lastAuthAt # 0 => GraceEnd(token) <= e
    BY <1>1, <1>2, EventTime DEF Inv, EventShape
  <1>6. schedule.disposition # "integrity" /\ loops' = Woken(loops)
        /\ UNCHANGED <<now, prompt, ready, token, revision, started, failedAt, attended>>
    BY DEF blockRefreshPermanent
  <1> QED
    BY <1>3, <1>4, <1>5, <1>6, BlockInv

LEMMA InitSucceedsInv ==
    ASSUME Inv, InitSucceeds
    PROVE  Inv'
  <1>1. ScheduleTypeOK /\ loops \in [Loops -> Runs] /\ revision \in Nat
    BY FieldTypes DEF Inv, ScheduleTypeOK
  <1>2. /\ ~ready /\ ready' = TRUE
        /\ UNCHANGED <<now, prompt, token, revision, schedule, started, failedAt, attended>>
    BY DEF InitSucceeds
  <1>3. /\ loops' \in [Loops -> Runs]
        /\ \A k \in Loops : /\ Same(loops'[k], loops[k])
                            /\ loops[k].pc = "wait" => loops'[k].woken
    BY <1>1, WokenFacts DEF InitSucceeds
  <1>4. \A k \in Loops : schedule.claim # k
    BY <1>2 DEF Inv, ClaimShape
  <1>5. ScheduleTypeOK'
    <2>1. \A k \in Loops : schedule'.claim = k <=> /\ loops'[k].pc \in {"claimed", "attempt", "finish"}
                                                   /\ loops'[k].revision = revision
      <3> SUFFICES ASSUME NEW k \in Loops
                   PROVE  schedule.claim = k <=> /\ loops'[k].pc \in {"claimed", "attempt", "finish"}
                                                 /\ loops'[k].revision = revision
        BY <1>2
      <3>1. loops'[k].pc = loops[k].pc /\ loops'[k].revision = loops[k].revision
        BY <1>3 DEF Same
      <3> QED
        BY <1>1, <3>1 DEF ScheduleTypeOK
    <2>2. ready' \in BOOLEAN
      BY <1>2
    <2> QED
      BY <1>1, <1>2, <1>3, <2>1, <2>2, Zenon DEF ScheduleTypeOK
  <1>6. RevisionShape' /\ NoStaleSleep'
    <2> DEFINE M == {}
    <2>1. M \in SUBSET Loops /\ Loops \ M = Loops /\ revision' \in Nat /\ revision <= revision'
      BY <1>1, <1>2
    <2>2. \A k \in M : FALSE
      OBVIOUS
    <2> HIDE DEF M
    <2> QED
      BY <1>3, <2>1, <2>2, Signal
  <1>7. ClaimShape'
    BY <1>2, <1>4 DEF ClaimShape
  <1>8. StageShape'
    <2>1. ~Attempting
      BY <1>4 DEF Attempting
    <2> QED
      BY <1>2, <2>1 DEF StageShape, Inv
  <1>9. EventShape'
    <2>1. InGracePeriod(token)' = InGracePeriod(token) /\ GraceEnd(token)' = GraceEnd(token) /\ Blocked' = Blocked
      BY <1>2 DEF InGracePeriod, GraceEnd, Blocked
    <2>2. EventShape
      BY DEF Inv
    <2>3. ASSUME NEW k \in Loops, loops'[k].pc = "emit", loops'[k].revision = revision
          PROVE  schedule.eventEmitted /\ (schedule.disposition = "integrity" \/ ~InGracePeriod(token))
      <3>1. loops[k].pc = "emit" /\ loops[k].revision = revision
        BY <1>3, <2>3 DEF Same
      <3> QED
        BY <2>2, <3>1 DEF EventShape
    <2> QED
      BY <1>2, <2>1, <2>2, <2>3 DEF EventShape
  <1>10. PromptShape'
    <2>1. ~Waiting
      BY <1>2 DEF Inv, PromptShape
    <2>2. ~Waiting'
      BY <1>2, <2>1 DEF Waiting, HasLifetime, Lifetime, Blocked
    <2> QED
      BY <1>2, <1>4, <2>2 DEF PromptShape
  <1> QED
    BY <1>5, <1>6, <1>7, <1>8, <1>9, <1>10 DEF Inv

(* A new generation.  Every loop is behind it, and was told.               *)
LEMMA InstallInv ==
    ASSUME Inv, NEW t \in Tokens, NEW ls \in [Loops -> Runs], Install(t, ls),
           \A k \in Loops : ls[k].revision <= revision,
           UNCHANGED <<now, prompt, ready>>
    PROVE  Inv'
  <1>1. ScheduleTypeOK /\ revision \in Nat
    BY FieldTypes DEF Inv
  <1>2. /\ revision < MaxRevision /\ token' = t /\ revision' = revision + 1 /\ schedule' = NewSchedule
        /\ loops' = Woken(ls) /\ started' = {} /\ failedAt' = 0
    BY DEF Install
  <1>3. attended' = (ready /\ now < t.expiresAt /\ Attentive(ls))
    BY DEF Install
  <1>4. /\ loops' \in [Loops -> Runs]
        /\ \A k \in Loops : /\ Same(loops'[k], ls[k])
                            /\ loops'[k].cancelled = ls[k].cancelled
                            /\ ls[k].pc = "wait" => loops'[k].woken
    BY <1>2, WokenFacts
  <1>5. /\ schedule'.claim = NoLoop /\ schedule'.disposition = "active" /\ schedule'.eventEmitted = FALSE
        /\ schedule'.nextStage = 1 /\ schedule'.retryNotBefore = 0
    BY <1>2 DEF NewSchedule
  <1>6. ASSUME NEW k \in Loops
        PROVE  loops'[k].revision < revision' /\ schedule'.claim # k
    <2>1. loops'[k].revision = ls[k].revision /\ ls[k].revision \in Nat
      <3>1. ls[k] \in Runs
        OBVIOUS
      <3> QED
        BY <1>4, <3>1 DEF Same, Runs
    <2> QED
      BY <1>1, <1>2, <1>5, <2>1
  <1>7. ScheduleTypeOK'
    <2>1. ASSUME NEW k \in Loops
          PROVE  schedule'.claim # k /\ loops'[k].revision # revision'
      <3>1. loops'[k].revision \in Nat /\ revision' \in Nat
        <4>1. loops'[k] \in Runs
          BY <1>4
        <4> QED
          BY <1>1, <1>2, <4>1 DEF Runs
      <3> QED
        BY <1>6, <3>1
    <2>2. schedule' \in Schedules
      BY <1>2, ScheduleUpdates
    <2>3. revision' \in 0..MaxRevision
      BY <1>1, <1>2
    <2>4. started' \subseteq Nat /\ failedAt' \in Nat
      BY <1>2
    <2>5. attended' \in BOOLEAN
      <3>1. attended' = (ready /\ now < t.expiresAt /\ Attentive(ls))
        BY <1>3
      <3> QED
        BY <3>1, Zenon
    <2> QED
      BY <1>1, <1>2, <1>4, <2>1, <2>2, <2>3, <2>4, <2>5, Zenon DEF ScheduleTypeOK
  <1>8. RevisionShape'
    <2>1. \A k \in Loops : loops'[k].revision <= revision'
      <3> SUFFICES ASSUME NEW k \in Loops
                   PROVE  loops'[k].revision <= revision'
        OBVIOUS
      <3>1. loops'[k] \in Runs
        BY <1>4
      <3>2. loops'[k].revision \in Nat /\ revision' \in Nat
        BY <1>1, <1>2, <3>1 DEF Runs
      <3> QED
        BY <1>6, <3>2
    <2> QED
      BY <2>1 DEF RevisionShape
  <1>9. ClaimShape'
    BY <1>6 DEF ClaimShape
  <1>10. StageShape'
    BY <1>2 DEF StageShape
  <1>11. EventShape'
    <2>1. \A k \in Loops : loops'[k].revision # revision'
      BY <1>7, <1>6 DEF ScheduleTypeOK
    <2> QED
      BY <1>5, <2>1 DEF EventShape
  <1>12. PromptShape'
    <2>1. Attentive(ls) => Attentive(loops)'
      BY <1>4 DEF Attentive, Same
    <2>2. ASSUME Waiting'
          PROVE  ready /\ now < t.expiresAt /\ Attentive(ls)
      BY <1>3, <2>2 DEF Waiting
    <2> QED
      BY <1>2, <1>5, <1>6, <2>1, <2>2 DEF PromptShape
  <1>13. NoStaleSleep'
    BY <1>4 DEF NoStaleSleep, Same
  <1> QED
    BY <1>7, <1>8, <1>9, <1>10, <1>11, <1>12, <1>13 DEF Inv

(* The tokens that operations install.                                     *)
LEMMA TokenTypes ==
    ASSUME ScheduleTypeOK
    PROVE  FreshTokens \cup OldTokens \cup {NoToken} \subseteq Tokens
  <1>1. now \in Nat
    BY FieldTypes
  <1>2. NoToken \in Tokens
    BY DEF NoToken, Tokens
  <1>3. ASSUME NEW t \in FreshTokens
        PROVE  t \in Tokens
    <2>1. PICK b \in BOOLEAN, e \in {0} \cup {now + n : n \in Lifetimes} :
              t = [refresh |-> b, lastAuthAt |-> now, expiresAt |-> e]
      BY DEF FreshTokens
    <2>2. e \in Nat
      BY <1>1
    <2> QED
      BY <1>1, <2>1, <2>2 DEF Tokens
  <1>4. ASSUME NEW t \in OldTokens
        PROVE  t \in Tokens
    <2>1. PICK a \in 1..now, n \in Lifetimes :
              t = [refresh |-> TRUE, lastAuthAt |-> a, expiresAt |-> a + n]
      BY DEF OldTokens
    <2>2. a \in Nat /\ a + n \in Nat
      BY <1>1
    <2> QED
      BY <2>1, <2>2 DEF Tokens
  <1> QED
    BY <1>2, <1>3, <1>4

LEMMA InstallGenerationInv ==
    ASSUME Inv, InstallGeneration
    PROVE  Inv'
  <1>1. PICK t \in FreshTokens \cup OldTokens \cup {NoToken} : Install(t, loops)
    BY DEF InstallGeneration
  <1>2. t \in Tokens
    BY TokenTypes DEF Inv
  <1>3. loops \in [Loops -> Runs] /\ \A k \in Loops : loops[k].revision <= revision
    BY DEF Inv, ScheduleTypeOK, RevisionShape
  <1>4. UNCHANGED <<now, prompt, ready>>
    BY DEF InstallGeneration
  <1> QED
    BY <1>1, <1>2, <1>3, <1>4, InstallInv

LEMMA AttemptCommitsInv ==
    ASSUME Inv, NEW l \in Loops, AttemptCommits(l)
    PROVE  Inv'
  <1>1. PICK t \in {u \in FreshTokens : u.refresh} \cup {NoToken} :
            Install(t, Finishing(l, IF t = NoToken THEN "permanent" ELSE "succeeded"))
    BY DEF AttemptCommits
  <1>2. ScheduleTypeOK
    BY DEF Inv
  <1>3. t \in Tokens
    BY <1>2, TokenTypes
  <1>4. PICK x \in Results : x = IF t = NoToken THEN "permanent" ELSE "succeeded"
    BY DEF Results
  <1> DEFINE ls == Finishing(l, x)
  <1>5. /\ ls \in [Loops -> Runs]
        /\ ls[l].revision = loops[l].revision
        /\ \A k \in Loops : k # l => ls[k] = loops[k]
    BY <1>2, FinishingFacts
  <1>6. Install(t, ls)
    BY <1>1, <1>4
  <1> HIDE DEF ls
  <1>7. ASSUME NEW k \in Loops
        PROVE  ls[k].revision <= revision
    BY <1>5 DEF Inv, RevisionShape
  <1>8. UNCHANGED <<now, prompt, ready>>
    BY DEF AttemptCommits
  <1> QED
    BY <1>3, <1>5, <1>6, <1>7, <1>8, InstallInv

(* What a loop records of its attempt.                                     *)
LEMMA RecordedFacts ==
    ASSUME Inv, NEW l \in Loops, schedule.claim = l, loops[l].pc = "finish"
    PROVE  /\ Recorded(l) \in Schedules
           /\ Recorded(l).claim = NoLoop
           /\ Recorded(l).eventEmitted = schedule.eventEmitted
           /\ \/ /\ loops[l].result \in {"temporary", "canceledAfter", "succeeded"}
                 /\ Recorded(l).disposition = schedule.disposition
                 /\ Recorded(l).eventAt = schedule.eventAt
                 /\ Recorded(l).nextStage = schedule.nextStage + 1
                 /\ Recorded(l).retryNotBefore = now + MinInterval
              \/ /\ Recorded(l).nextStage = schedule.nextStage
                 /\ Recorded(l).retryNotBefore = schedule.retryNotBefore
                 /\ \/ /\ loops[l].result = "permanent"
                       /\ Recorded(l).disposition = "permanent"
                       /\ Recorded(l).eventAt = sessionExpiredEventTime(token)
                    \/ loops[l].result = "integrity" /\ Recorded(l).disposition = "integrity"
                    \/ loops[l].result = "expiredBefore" /\ Recorded(l).disposition = "expired"
                    \/ /\ loops[l].result = "canceledBefore"
                       /\ Recorded(l).disposition = schedule.disposition
                       /\ Recorded(l).eventAt = schedule.eventAt
  <1> DEFINE x == loops[l].result
  <1>1. ScheduleTypeOK /\ schedule \in Schedules /\ x \in Results /\ now \in Nat
        /\ schedule.nextStage \in Nat
    BY FieldTypes DEF Inv, ScheduleTypeOK
  <1>2. x # "none" /\ loops[l].stage = schedule.nextStage
    BY DEF Inv, ClaimShape
  <1>3. {"permanent", "integrity", "expired"} \subseteq Dispositions
    BY DEF Dispositions
  <1>4. sessionExpiredEventTime(token) \in Nat
    BY <1>1, EventTime
  <1>5. CASE x \in {"temporary", "canceledAfter", "succeeded"}
    <2> DEFINE n == schedule.nextStage + 1
               u == now + MinInterval
               v == [schedule EXCEPT !.claim = NoLoop, !.nextStage = n, !.retryNotBefore = u]
    <2>1. Recorded(l) = v
      BY <1>2, <1>5 DEF Recorded, advanceRefreshStage
    <2>2. n \in Nat \ {0} /\ u \in Nat
      BY <1>1
    <2> HIDE DEF n, u
    <2>3. v \in Schedules
      BY <1>1, <2>2, ScheduleUpdates
    <2>4. /\ v.claim = NoLoop /\ v.nextStage = n /\ v.retryNotBefore = u
          /\ v.eventEmitted = schedule.eventEmitted /\ v.disposition = schedule.disposition
          /\ v.eventAt = schedule.eventAt
      BY <1>1 DEF Schedules
    <2> HIDE DEF v
    <2> QED
      BY <1>5, <2>1, <2>3, <2>4 DEF n, u
  <1>6. CASE x = "permanent"
    <2> DEFINE e == sessionExpiredEventTime(token)
               v == [schedule EXCEPT !.claim = NoLoop, !.disposition = "permanent", !.eventAt = e]
    <2>1. Recorded(l) = v
      BY <1>6 DEF Recorded
    <2>2. e \in Nat
      BY <1>4
    <2> HIDE DEF e
    <2>3. v \in Schedules
      BY <1>1, <1>3, <2>2, ScheduleUpdates
    <2>4. /\ v.claim = NoLoop /\ v.nextStage = schedule.nextStage
          /\ v.retryNotBefore = schedule.retryNotBefore
          /\ v.eventEmitted = schedule.eventEmitted /\ v.disposition = "permanent" /\ v.eventAt = e
      BY <1>1 DEF Schedules
    <2> HIDE DEF v
    <2> QED
      BY <1>6, <2>1, <2>3, <2>4 DEF e
  <1>7. CASE x = "integrity"
    <2> DEFINE v == [schedule EXCEPT !.claim = NoLoop, !.disposition = "integrity", !.eventAt = now]
    <2>1. Recorded(l) = v
      BY <1>7 DEF Recorded
    <2>2. v \in Schedules
      BY <1>1, <1>3, ScheduleUpdates
    <2>3. /\ v.claim = NoLoop /\ v.nextStage = schedule.nextStage
          /\ v.retryNotBefore = schedule.retryNotBefore
          /\ v.eventEmitted = schedule.eventEmitted /\ v.disposition = "integrity"
      BY <1>1 DEF Schedules
    <2> HIDE DEF v
    <2> QED
      BY <1>7, <2>1, <2>2, <2>3
  <1>8. CASE x = "expiredBefore"
    <2> DEFINE v == [schedule EXCEPT !.claim = NoLoop, !.disposition = "expired"]
    <2>1. Recorded(l) = v
      BY <1>8 DEF Recorded
    <2>2. v \in Schedules
      BY <1>1, <1>3, ScheduleUpdates
    <2>3. /\ v.claim = NoLoop /\ v.nextStage = schedule.nextStage
          /\ v.retryNotBefore = schedule.retryNotBefore
          /\ v.eventEmitted = schedule.eventEmitted /\ v.disposition = "expired"
      BY <1>1 DEF Schedules
    <2> HIDE DEF v
    <2> QED
      BY <1>8, <2>1, <2>2, <2>3
  <1>9. CASE x = "canceledBefore"
    <2> DEFINE v == [schedule EXCEPT !.claim = NoLoop]
    <2>1. Recorded(l) = v
      BY <1>9 DEF Recorded
    <2>2. v \in Schedules
      BY <1>1, ScheduleUpdates
    <2>3. /\ v.claim = NoLoop /\ v.nextStage = schedule.nextStage
          /\ v.retryNotBefore = schedule.retryNotBefore /\ v.eventAt = schedule.eventAt
          /\ v.eventEmitted = schedule.eventEmitted /\ v.disposition = schedule.disposition
      BY <1>1 DEF Schedules
    <2> HIDE DEF v
    <2> QED
      BY <1>9, <2>1, <2>2, <2>3
  <1> QED
    BY <1>1, <1>2, <1>5, <1>6, <1>7, <1>8, <1>9 DEF Results

LEMMA FinishOwnInv ==
    ASSUME Inv, NEW l \in Loops, finishRefreshLoopAttempt(l), loops[l].revision = revision
    PROVE  Inv'
  <1> DEFINE ls == Resumed(l)
             r == Rest(loops[l])
             x == loops[l].result
  <1>1. ScheduleTypeOK /\ loops \in [Loops -> Runs] /\ revision \in Nat
    BY FieldTypes DEF Inv, ScheduleTypeOK
  <1>2. /\ loops[l].pc = "finish" /\ schedule' = Recorded(l) /\ loops' = Woken(ls)
        /\ failedAt' = IF x \in {"temporary", "canceledAfter"} THEN now ELSE failedAt
        /\ UNCHANGED <<now, prompt, ready, token, revision, started, attended>>
    BY DEF finishRefreshLoopAttempt
  <1>3. schedule.claim = l
    BY <1>1, <1>2 DEF ScheduleTypeOK
  <1>4. /\ ls = [loops EXCEPT ![l] = r] /\ ls \in [Loops -> Runs] /\ r.pc \in {"off", "next"}
        /\ r.revision = 0 /\ (~loops[l].cancelled => r.pc = "next" /\ ~r.cancelled)
    BY <1>1, ResumedFacts
  <1> HIDE DEF r, ls
  <1>5. ls[l] = r /\ \A k \in Loops : k # l => ls[k] = loops[k]
    BY <1>1, <1>4
  <1>6. /\ loops' \in [Loops -> Runs] /\ loops'[l] = r
        /\ \A k \in Loops : k # l => /\ Same(loops'[k], loops[k])
                                     /\ loops'[k].cancelled = loops[k].cancelled
                                     /\ loops[k].pc = "wait" => loops'[k].woken
    <2>1. /\ loops' \in [Loops -> Runs]
          /\ \A k \in Loops : /\ Same(loops'[k], ls[k])
                              /\ loops'[k].cancelled = ls[k].cancelled
                              /\ ls[k].pc = "wait" => loops'[k].woken
                              /\ ls[k].pc # "wait" => loops'[k] = ls[k]
      BY <1>2, <1>4, WokenFacts
    <2>2. loops'[l] = r
      BY <1>4, <1>5, <2>1
    <2> QED
      BY <1>5, <2>1, <2>2
  <1>7. /\ schedule' \in Schedules /\ schedule'.claim = NoLoop
        /\ schedule'.eventEmitted = schedule.eventEmitted
    BY <1>2, <1>3, RecordedFacts
  <1>8. \/ /\ x \in {"temporary", "canceledAfter", "succeeded"}
           /\ schedule'.disposition = schedule.disposition
           /\ schedule'.eventAt = schedule.eventAt
           /\ schedule'.nextStage = schedule.nextStage + 1
           /\ schedule'.retryNotBefore = now + MinInterval
        \/ /\ schedule'.nextStage = schedule.nextStage
           /\ schedule'.retryNotBefore = schedule.retryNotBefore
           /\ \/ /\ x = "permanent"
                 /\ schedule'.disposition = "permanent"
                 /\ schedule'.eventAt = sessionExpiredEventTime(token)
              \/ x = "integrity" /\ schedule'.disposition = "integrity"
              \/ x = "expiredBefore" /\ schedule'.disposition = "expired"
              \/ /\ x = "canceledBefore"
                 /\ schedule'.disposition = schedule.disposition
                 /\ schedule'.eventAt = schedule.eventAt
    BY <1>2, <1>3, RecordedFacts
  <1>9. \A k \in Loops : schedule'.claim # k
    BY <1>7
  <1>10. ~schedule.eventEmitted
    BY <1>3 DEF Inv, EventShape
  <1>11. ScheduleTypeOK'
    <2>1. ASSUME NEW k \in Loops
          PROVE  ~(loops'[k].pc \in {"claimed", "attempt", "finish"} /\ loops'[k].revision = revision)
      <3>1. CASE k = l
        BY <1>4, <1>6, <3>1
      <3>2. CASE k # l
        <4>1. ~(loops[k].pc \in {"claimed", "attempt", "finish"} /\ loops[k].revision = revision)
          BY <1>1, <1>3, <3>2 DEF ScheduleTypeOK
        <4> QED
          BY <1>6, <3>2, <4>1 DEF Same
      <3> QED
        BY <3>1, <3>2
    <2>2. failedAt' \in Nat
      BY <1>1, <1>2, FieldTypes DEF ScheduleTypeOK
    <2> QED
      BY <1>1, <1>2, <1>6, <1>7, <1>9, <2>1, <2>2, Zenon DEF ScheduleTypeOK
  <1>12. RevisionShape' /\ NoStaleSleep'
    <2>1. loops'[l].revision <= revision /\ loops'[l].pc # "wait"
      BY <1>1, <1>4, <1>6
    <2> QED
      BY <1>1, <1>2, <1>6, <2>1, SignalOne
  <1>13. ClaimShape'
    BY <1>9 DEF ClaimShape
  <1>14. StageShape'
    <2>1. StageShape /\ schedule.retryNotBefore <= now
      BY <1>3 DEF Inv, ClaimShape
    <2>2. /\ now \in Nat /\ now > 0 /\ failedAt \in Nat /\ schedule.retryNotBefore \in Nat
          /\ schedule.nextStage \in Nat /\ started \subseteq Nat /\ MinInterval \in Nat
      BY <1>1, FieldTypes DEF ScheduleTypeOK
    <2>3. failedAt' # 0 => failedAt' + MinInterval <= schedule'.retryNotBefore
      <3>1. CASE x \in {"temporary", "canceledAfter", "succeeded"}
        <4>1. schedule'.retryNotBefore = now + MinInterval
          BY <1>8, <3>1
        <4>2. failedAt' = now \/ failedAt' = failedAt
          BY <1>2
        <4>3. failedAt # 0 => failedAt + MinInterval <= schedule.retryNotBefore
          BY <2>1 DEF StageShape
        <4> QED
          BY <2>1, <2>2, <4>1, <4>2, <4>3
      <3>2. CASE x \notin {"temporary", "canceledAfter", "succeeded"}
        <4>1. schedule'.retryNotBefore = schedule.retryNotBefore /\ failedAt' = failedAt
          BY <1>2, <1>8, <3>2
        <4> QED
          BY <2>1, <4>1 DEF StageShape
      <3> QED
        BY <3>1, <3>2
    <2>4. ASSUME schedule'.disposition = "active", NEW s \in started
          PROVE  s < schedule'.nextStage
      <3>1. schedule.disposition = "active" /\ s \in Nat
        BY <1>8, <2>2, <2>4
      <3>2. s < schedule.nextStage \/ (s = schedule.nextStage /\ Attempting)
        BY <2>1, <3>1 DEF StageShape
      <3>3. CASE x \in {"temporary", "canceledAfter", "succeeded"}
        <4>1. schedule'.nextStage = schedule.nextStage + 1
          BY <1>8, <3>3
        <4> QED
          BY <2>2, <3>1, <3>2, <4>1
      <3>4. CASE x \notin {"temporary", "canceledAfter", "succeeded"}
        <4>1. x = "canceledBefore" /\ schedule'.nextStage = schedule.nextStage
          BY <1>8, <2>4, <3>4
        <4>2. ~Attempting
          BY <1>2, <1>3, <4>1 DEF Attempting
        <4> QED
          BY <3>2, <4>1, <4>2
      <3> QED
        BY <3>3, <3>4
    <2> QED
      BY <1>2, <2>3, <2>4 DEF StageShape
  <1>15. EventShape'
    <2>1. GraceEnd(token)' = GraceEnd(token) /\ token' = token
      BY <1>2 DEF GraceEnd
    <2>2. ASSUME schedule'.disposition = "permanent", GracePeriod > 0, token.lastAuthAt # 0
          PROVE  GraceEnd(token) <= schedule'.eventAt
      <3>1. \/ schedule'.eventAt = sessionExpiredEventTime(token)
            \/ schedule.disposition = "permanent" /\ schedule'.eventAt = schedule.eventAt
        BY <1>8, <2>2
      <3> QED
        BY <1>1, <2>2, <3>1, EventTime DEF Inv, EventShape
    <2>3. ASSUME NEW k \in Loops, loops'[k].pc = "emit", loops'[k].revision = revision
          PROVE  FALSE
      <3>1. k # l
        BY <1>4, <1>6, <2>3
      <3>2. loops[k].pc = "emit" /\ loops[k].revision = revision
        BY <1>6, <2>3, <3>1 DEF Same
      <3> QED
        BY <1>10, <3>2 DEF Inv, EventShape
    <2> QED
      BY <1>2, <1>7, <1>10, <2>1, <2>2, <2>3 DEF EventShape
  <1>16. PromptShape'
    <2>1. ASSUME Waiting'
          PROVE  x = "canceledBefore" /\ Waiting
      <3>1. schedule'.disposition \notin {"permanent", "integrity"} /\ prompt /\ started = {}
        BY <1>2, <2>1 DEF Waiting, Blocked
      <3>2. x \notin {"temporary", "canceledAfter"}
        BY <1>2, <1>3, <3>1 DEF Inv, ClaimShape
      <3>3. x # "expiredBefore"
        BY <1>2, <1>3, <3>1 DEF Inv, PromptShape
      <3>4. x \in {"succeeded", "canceledBefore"} /\ schedule'.disposition = schedule.disposition
        BY <1>8, <3>1, <3>2, <3>3
      <3>5. Waiting
        BY <1>2, <2>1, <3>4 DEF Waiting, Blocked, HasLifetime, Lifetime
      <3>6. schedule.disposition = "active"
        BY <3>5 DEF Inv, PromptShape
      <3>7. x # "succeeded"
        BY <1>2, <1>3, <3>6 DEF Inv, ClaimShape
      <3> QED
        BY <3>4, <3>5, <3>7
    <2>2. Attentive(loops) => Attentive(loops)'
      <3> SUFFICES ASSUME NEW k \in Loops, loops[k].pc \notin {"off", "attempt"}, ~loops[k].cancelled
                   PROVE  loops'[k].pc \notin {"off", "attempt"} /\ ~loops'[k].cancelled
        BY DEF Attentive
      <3>1. CASE k = l
        BY <1>4, <1>6, <3>1
      <3>2. CASE k # l
        BY <1>6, <3>2 DEF Same
      <3> QED
        BY <3>1, <3>2
    <2>3. ASSUME Waiting'
          PROVE  /\ now < token.expiresAt /\ ready /\ schedule'.disposition = "active"
                 /\ schedule'.nextStage = 1 /\ schedule'.retryNotBefore = 0 /\ Attentive(loops)'
      <3>1. x = "canceledBefore" /\ Waiting
        BY <2>1, <2>3
      <3>2. /\ schedule'.disposition = schedule.disposition /\ schedule'.nextStage = schedule.nextStage
            /\ schedule'.retryNotBefore = schedule.retryNotBefore
        BY <1>8, <3>1
      <3> QED
        BY <2>2, <3>1, <3>2 DEF Inv, PromptShape
    <2> QED
      BY <1>2, <1>9, <2>3 DEF PromptShape
  <1> QED
    BY <1>11, <1>12, <1>13, <1>14, <1>15, <1>16 DEF Inv

(* Loops are cancelled, and one may start in the place of the others.      *)
LEMMA CancelInv ==
    ASSUME Inv, loops' \in [Loops -> Runs],
           \A k \in Loops :
               \/ /\ Same(loops'[k], loops[k])
                  /\ loops'[k].due = loops[k].due /\ loops'[k].woken = loops[k].woken
               \/ loops[k].pc = "off" /\ loops'[k].pc = "next" /\ loops'[k].revision = 0,
           UNCHANGED <<now, prompt, ready, token, revision, schedule, started, failedAt>>,
           attended' \in BOOLEAN,
           attended' => attended /\ Attentive(loops)'
    PROVE  Inv'
  <1>1. ScheduleTypeOK /\ revision \in Nat
    BY FieldTypes DEF Inv
  <1>2. ASSUME NEW k \in Loops, loops'[k].pc \notin {"off", "next"}
        PROVE  /\ Same(loops'[k], loops[k])
               /\ loops'[k].due = loops[k].due /\ loops'[k].woken = loops[k].woken
    BY <1>2
  <1>3. ASSUME NEW k \in Loops, loops[k].pc # "off"
        PROVE  Same(loops'[k], loops[k])
    BY <1>3
  <1>4. ScheduleTypeOK'
    <2>1. ASSUME NEW k \in Loops
          PROVE  schedule'.claim = k <=> /\ loops'[k].pc \in {"claimed", "attempt", "finish"}
                                         /\ loops'[k].revision = revision'
      <3>1. schedule.claim = k <=> /\ loops[k].pc \in {"claimed", "attempt", "finish"}
                                   /\ loops[k].revision = revision
        BY <1>1 DEF ScheduleTypeOK
      <3> QED
        BY <3>1 DEF Same
    <2> QED
      BY <1>1, <2>1, Zenon DEF ScheduleTypeOK
  <1>5. RevisionShape'
    <2>1. ASSUME NEW k \in Loops
          PROVE  loops'[k].revision <= revision
      <3>1. loops'[k].revision = loops[k].revision \/ loops'[k].revision = 0
        BY DEF Same
      <3>2. loops[k].revision <= revision
        BY DEF Inv, RevisionShape
      <3> QED
        BY <1>1, <3>1, <3>2
    <2> QED
      BY <2>1 DEF RevisionShape
  <1>6. ASSUME NEW k \in Loops, schedule.claim = k
        PROVE  Same(loops'[k], loops[k])
    <2>1. loops[k].pc # "off"
      BY <1>1, <1>6 DEF ScheduleTypeOK
    <2> QED
      BY <1>3, <2>1
  <1>7. ClaimShape'
    <2> SUFFICES ASSUME NEW k \in Loops, schedule.claim = k
                 PROVE  /\ token.refresh /\ HasLifetime(token)' /\ ready
                        /\ loops'[k].stage = schedule.nextStage
                        /\ refreshStageTime(token, schedule.nextStage)' <= now
                        /\ schedule.retryNotBefore <= now
                        /\ loops'[k].pc = "attempt" => loops'[k].stage \in started
                        /\ loops'[k].pc = "finish" =>
                              /\ loops'[k].result # "none"
                              /\ loops'[k].result \in {"temporary", "canceledAfter"} => loops'[k].stage \in started
                              /\ loops'[k].result = "succeeded" => schedule.disposition # "active"
      BY DEF ClaimShape
    <2>1. HasLifetime(token)' = HasLifetime(token)
      BY DEF HasLifetime
    <2>2. refreshStageTime(token, schedule.nextStage)' = refreshStageTime(token, schedule.nextStage)
      BY DEF refreshStageTime, Lifetime
    <2>3. ClaimShape
      BY DEF Inv
    <2> QED
      BY <1>6, <2>1, <2>2, <2>3 DEF ClaimShape, Same
  <1>8. StageShape'
    <2>1. Attempting => Attempting'
      BY <1>6 DEF Attempting, Same
    <2> QED
      BY <2>1 DEF Inv, StageShape
  <1>9. EventShape'
    <2>1. InGracePeriod(token)' = InGracePeriod(token) /\ GraceEnd(token)' = GraceEnd(token) /\ Blocked' = Blocked
      BY DEF InGracePeriod, GraceEnd, Blocked
    <2>2. EventShape
      BY DEF Inv
    <2>3. ASSUME NEW k \in Loops, loops'[k].pc = "emit", loops'[k].revision = revision
          PROVE  schedule.eventEmitted /\ (schedule.disposition = "integrity" \/ ~InGracePeriod(token))
      <3>1. loops[k].pc = "emit" /\ loops[k].revision = revision
        BY <1>2, <2>3 DEF Same
      <3> QED
        BY <2>2, <3>1 DEF EventShape
    <2> QED
      BY <2>1, <2>2, <2>3 DEF EventShape
  <1>10. PromptShape'
    <2>1. Waiting' => Waiting /\ Attentive(loops)'
      BY DEF Waiting, HasLifetime, Lifetime, Blocked
    <2>2. PromptShape
      BY DEF Inv
    <2> QED
      BY <1>6, <2>1, <2>2 DEF PromptShape, Same
  <1>11. NoStaleSleep'
    <2>1. Due' = Due
      BY DueStays
    <2> QED
      BY <1>2, <2>1 DEF NoStaleSleep, Inv, Same
  <1> QED
    BY <1>4, <1>5, <1>7, <1>8, <1>9, <1>10, <1>11 DEF Inv

LEMMA StartInv ==
    ASSUME Inv, NEW l \in Loops, StartRefreshLoop(l)
    PROVE  Inv'
  <1> DEFINE w == Cancelled(loops)
             r == [NoRun EXCEPT !.pc = "next"]
  <1>1. ScheduleTypeOK /\ loops \in [Loops -> Runs] /\ attended \in BOOLEAN
    BY DEF Inv, ScheduleTypeOK
  <1>2. /\ w \in [Loops -> Runs]
        /\ \A k \in Loops : /\ Same(w[k], loops[k])
                            /\ w[k].due = loops[k].due /\ w[k].woken = loops[k].woken
    BY <1>1, CancelledFacts
  <1>3. r \in Runs /\ r.pc = "next" /\ r.revision = 0 /\ r.cancelled = FALSE
    BY RunUpdates, NoRunFields
  <1>4. loops[l].pc = "off" /\ loops' = [w EXCEPT ![l] = r]
    BY DEF StartRefreshLoop
  <1> HIDE DEF w, r
  <1>5. loops' \in [Loops -> Runs] /\ loops'[l] = r /\ \A k \in Loops : k # l => loops'[k] = w[k]
    BY <1>2, <1>3, <1>4
  <1>6. Attentive(loops)'
    BY <1>3, <1>5 DEF Attentive
  <1>7. UNCHANGED <<now, prompt, ready, token, revision, schedule, started, failedAt, attended>>
    BY DEF StartRefreshLoop
  <1>8. ASSUME NEW k \in Loops
        PROVE  \/ /\ Same(loops'[k], loops[k])
                  /\ loops'[k].due = loops[k].due /\ loops'[k].woken = loops[k].woken
               \/ loops[k].pc = "off" /\ loops'[k].pc = "next" /\ loops'[k].revision = 0
    BY <1>2, <1>3, <1>4, <1>5
  <1> QED
    BY <1>1, <1>5, <1>6, <1>7, <1>8, CancelInv

LEMMA StopInv ==
    ASSUME Inv, StopRefreshLoop
    PROVE  Inv'
  <1>1. loops \in [Loops -> Runs]
    BY DEF Inv, ScheduleTypeOK
  <1>2. /\ loops' \in [Loops -> Runs]
        /\ \A k \in Loops : /\ Same(loops'[k], loops[k])
                            /\ loops'[k].due = loops[k].due /\ loops'[k].woken = loops[k].woken
    BY <1>1, CancelledFacts DEF StopRefreshLoop
  <1>3. attended' = FALSE /\ UNCHANGED <<now, prompt, ready, token, revision, schedule, started, failedAt>>
    BY DEF StopRefreshLoop
  <1> QED
    BY <1>2, <1>3, CancelInv

(* Time passes.  When loops are prompt, one that should see to a new       *)
(* generation sleeps until its first stage, which is before the expiry.    *)
LEMMA TickInv ==
    ASSUME Inv, Tick
    PROVE  Inv'
  <1>1. ScheduleTypeOK /\ now \in Nat
    BY FieldTypes DEF Inv
  <1>2. /\ now < MaxTime /\ now' = now + 1 /\ (prompt => \A l \in Loops : ~Runnable(l))
        /\ UNCHANGED <<prompt, ready, token, revision, schedule, loops, started, failedAt, attended>>
    BY DEF Tick
  <1>3. ScheduleTypeOK'
    <2>1. now' \in 1..MaxTime
      BY <1>1, <1>2
    <2> QED
      BY <1>1, <1>2, <2>1, Zenon DEF ScheduleTypeOK
  <1>4. RevisionShape' /\ StageShape'
    BY <1>2 DEF Inv, RevisionShape, StageShape, Attempting
  <1>5. ClaimShape'
    <2> SUFFICES ASSUME NEW k \in Loops, schedule.claim = k
                 PROVE  /\ token.refresh /\ HasLifetime(token)' /\ ready
                        /\ loops[k].stage = schedule.nextStage
                        /\ refreshStageTime(token, schedule.nextStage)' <= now'
                        /\ schedule.retryNotBefore <= now'
                        /\ loops[k].pc = "attempt" => loops[k].stage \in started
                        /\ loops[k].pc = "finish" =>
                              /\ loops[k].result # "none"
                              /\ loops[k].result \in {"temporary", "canceledAfter"} => loops[k].stage \in started
                              /\ loops[k].result = "succeeded" => schedule.disposition # "active"
      BY <1>2 DEF ClaimShape
    <2>1. ClaimShape
      BY DEF Inv
    <2>2. HasLifetime(token) /\ HasLifetime(token)' = HasLifetime(token)
      BY <1>2, <2>1 DEF HasLifetime, ClaimShape
    <2>3. refreshStageTime(token, schedule.nextStage)' = refreshStageTime(token, schedule.nextStage)
      BY <1>2 DEF refreshStageTime, Lifetime
    <2>4. refreshStageTime(token, schedule.nextStage) \in Nat /\ schedule.retryNotBefore \in Nat
      BY <1>1, <2>2, DueTypes, FieldTypes
    <2>5. refreshStageTime(token, schedule.nextStage) <= now /\ schedule.retryNotBefore <= now
      BY <2>1 DEF ClaimShape
    <2>6. refreshStageTime(token, schedule.nextStage)' <= now' /\ schedule.retryNotBefore <= now'
      BY <1>1, <1>2, <2>3, <2>4, <2>5
    <2> QED
      BY <2>1, <2>2, <2>6 DEF ClaimShape
  <1>6. EventShape'
    <2>1. GraceEnd(token)' = GraceEnd(token) /\ Blocked' = Blocked
      BY <1>2 DEF GraceEnd, Blocked
    <2>2. InGracePeriod(token)' => InGracePeriod(token)
      BY <1>1, <1>2, <2>1, FieldTypes DEF InGracePeriod
    <2> QED
      BY <1>2, <2>1, <2>2 DEF Inv, EventShape
  <1>7. PromptShape'
    <2>1. ASSUME prompt, NEW k \in Loops
          PROVE  /\ loops[k].pc \notin {"next", "claimed", "finish", "emit"}
                 /\ loops[k].pc = "wait" =>
                       ~loops[k].cancelled /\ ~loops[k].woken /\ (loops[k].due = 0 \/ ~(now >= loops[k].due))
      BY <1>2, <2>1 DEF Runnable
    <2>2. ASSUME Waiting
          PROVE  now + 1 < token.expiresAt
      <3>1. /\ prompt /\ token.refresh /\ HasLifetime(token) /\ Lifetime(token) > 1 /\ ~Blocked
            /\ started = {}
        BY <2>2 DEF Waiting
      <3>2. /\ ready /\ schedule.disposition = "active" /\ schedule.nextStage = 1
            /\ schedule.retryNotBefore = 0 /\ Attentive(loops)
        BY <2>2 DEF Inv, PromptShape
      <3>3. StageLeft /\ StageDue \in Nat \ {0} /\ StageDue < token.expiresAt
        BY <1>1, <3>1, <3>2, FirstStage
      <3>4. schedule.claim = NoLoop
        <4>1. SUFFICES ASSUME schedule.claim \in Loops
                       PROVE  FALSE
          BY <1>1, FieldTypes
        <4>2. PICK k \in Loops : schedule.claim = k
          BY <4>1
        <4>3. loops[k].pc \in {"claimed", "attempt", "finish"}
          BY <1>1, <4>2 DEF ScheduleTypeOK
        <4>4. loops[k].pc = "attempt"
          BY <2>1, <3>1, <4>3
        <4>5. loops[k].stage \in started
          BY <4>2, <4>4 DEF Inv, ClaimShape
        <4> QED
          BY <3>1, <4>5
      <3>5. Due = StageDue
        BY <3>1, <3>2, <3>3, <3>4 DEF Due, Refreshable
      <3>6. PICK k \in Loops : loops[k].pc \notin {"off", "attempt"} /\ ~loops[k].cancelled
        BY <3>2 DEF Attentive
      <3>7. loops[k].pc \in PCs
        BY <1>1, FieldTypes
      <3>8. loops[k].pc = "wait"
        BY <2>1, <3>1, <3>6, <3>7 DEF PCs
      <3>9. loops[k].due = Due
        BY <2>1, <3>1, <3>8 DEF Inv, NoStaleSleep
      <3>10. ~(now >= StageDue)
        BY <2>1, <3>1, <3>3, <3>5, <3>8, <3>9
      <3>11. token.expiresAt \in Nat
        BY <1>1, FieldTypes
      <3> QED
        BY <1>1, <3>3, <3>10, <3>11
    <2>3. Waiting' = Waiting
      BY <1>2 DEF Waiting, HasLifetime, Lifetime, Blocked
    <2>4. Attentive(loops)' = Attentive(loops)
      BY <1>2 DEF Attentive
    <2> QED
      BY <1>2, <2>1, <2>2, <2>3, <2>4 DEF Inv, PromptShape
  <1>8. NoStaleSleep'
    <2>1. Due' = Due
      BY <1>2, DueStays
    <2> QED
      BY <1>2, <2>1 DEF Inv, NoStaleSleep
  <1> QED
    BY <1>3, <1>4, <1>5, <1>6, <1>7, <1>8 DEF Inv

LEMMA StutterInv ==
    ASSUME Inv, UNCHANGED scheduleVars
    PROVE  Inv'
  <1>1. UNCHANGED <<now, prompt, ready, token, revision, schedule, loops, started, failedAt, attended>>
    BY DEF scheduleVars
  <1>2. Due' = Due
    BY <1>1, DueStays
  <1> QED
    BY <1>1, <1>2 DEF Inv, ScheduleTypeOK, RevisionShape, ClaimShape, StageShape, EventShape,
       PromptShape, NoStaleSleep, Attempting, Waiting, Attentive, HasLifetime, Lifetime, Blocked,
       refreshStageTime, InGracePeriod, GraceEnd

LEMMA NextInv ==
    ASSUME Inv, [ScheduleNext]_scheduleVars
    PROVE  Inv'
  <1>1. ASSUME NEW l \in Loops, LoopNext(l)
        PROVE  Inv'
    BY <1>1, LoopWaitsInv, LoopParksInv, LoopAnnouncesInv, LoopClaimsInv, LoopWakesInv,
       LoopExitsInv, AttemptBeginsInv, AttemptEndsInv, AttemptCommitsInv, FinishOtherInv,
       FinishOwnInv, EmitInv, StartInv DEF LoopNext
  <1> QED
    BY <1>1, InstallGenerationInv, InitSucceedsInv, blockRefreshIntegrityInv,
       blockRefreshPermanentInv, StopInv, TickInv, StutterInv DEF ScheduleNext

(* Only its own AttemptBegins makes a loop start an attempt.               *)
LEMMA OnlyBegins ==
    ASSUME ScheduleTypeOK, [ScheduleNext]_scheduleVars, NEW k \in Loops,
           loops[k].pc = "claimed", loops'[k].pc = "attempt"
    PROVE  AttemptBegins(k)
  <1>1. loops \in [Loops -> Runs]
    BY DEF ScheduleTypeOK
  <1>2. Woken(loops)[k] = loops[k] /\ Woken(loops) \in [Loops -> Runs]
    BY <1>1, WokenFacts
  <1>3. Cancelled(loops)[k].pc = "claimed" /\ Cancelled(loops) \in [Loops -> Runs]
    BY <1>1, CancelledFacts DEF Same
  <1>4. ASSUME NEW l \in Loops, LoopNext(l)
        PROVE  AttemptBegins(k)
    <2>1. CASE l # k
      <3>1. ASSUME LoopWaits(l) \/ LoopWakes(l) \/ LoopExits(l) \/ EmitSessionExpired(l)
            PROVE  FALSE
        BY <1>1, <2>1, <3>1 DEF LoopWaits, LoopWakes, LoopExits, EmitSessionExpired, Resumed
      <3>2. ASSUME LoopParks(l) \/ LoopAnnounces(l) \/ LoopClaims(l)
            PROVE  FALSE
        BY <1>2, <2>1, <3>2 DEF LoopParks, LoopAnnounces, LoopClaims
      <3>3. ASSUME AttemptBegins(l) \/ AttemptEnds(l)
            PROVE  FALSE
        BY <1>1, <2>1, <3>3 DEF AttemptBegins, AttemptEnds, Finishing
      <3>4. ASSUME AttemptCommits(l)
            PROVE  FALSE
        <4>1. PICK x \in Results : loops' = Woken(Finishing(l, x))
          BY <3>4 DEF AttemptCommits, Install, Results
        <4> DEFINE ls == Finishing(l, x)
        <4>a. ls \in [Loops -> Runs]
          BY FinishingFacts
        <4>b. ls[k] = loops[k]
          BY <1>1, <2>1 DEF Finishing
        <4>2. ls \in [Loops -> Runs] /\ ls[k] = loops[k]
          BY <4>a, <4>b
        <4> HIDE DEF ls
        <4>3. Same(Woken(ls)[k], ls[k])
          BY <4>2, WokenFacts
        <4>4. loops' = Woken(ls)
          BY <4>1 DEF ls
        <4> QED
          BY <4>2, <4>3, <4>4 DEF Same
      <3>5. ASSUME finishRefreshLoopAttempt(l)
            PROVE  FALSE
        <4> DEFINE ls == Resumed(l)
        <4>1. ls = [loops EXCEPT ![l] = Rest(loops[l])] /\ ls \in [Loops -> Runs]
          BY ResumedFacts
        <4>2. ls[k] = loops[k]
          BY <1>1, <2>1, <4>1
        <4>3. loops' = ls \/ loops' = Woken(ls)
          BY <3>5 DEF finishRefreshLoopAttempt
        <4> HIDE DEF ls
        <4>4. Same(Woken(ls)[k], ls[k])
          BY <4>1, WokenFacts
        <4> QED
          BY <4>2, <4>3, <4>4 DEF Same
      <3>6. ASSUME StartRefreshLoop(l)
            PROVE  FALSE
        BY <1>3, <2>1, <3>6 DEF StartRefreshLoop
      <3> QED
        BY <1>4, <3>1, <3>2, <3>3, <3>4, <3>5, <3>6 DEF LoopNext
    <2>2. CASE l = k
      BY <1>4, <2>2 DEF LoopNext, LoopWaits, LoopParks, LoopAnnounces, LoopClaims, AtNext, LoopWakes,
         LoopExits, AttemptEnds, AttemptCommits, finishRefreshLoopAttempt, EmitSessionExpired,
         StartRefreshLoop
    <2> QED
      BY <2>1, <2>2
  <1>5. ASSUME InstallGeneration \/ InitSucceeds \/ blockRefreshIntegrity \/ blockRefreshPermanent
        PROVE  FALSE
    BY <1>2, <1>5 DEF InstallGeneration, Install, InitSucceeds, blockRefreshIntegrity,
       blockRefreshPermanent
  <1>6. ASSUME StopRefreshLoop
        PROVE  FALSE
    BY <1>3, <1>6 DEF StopRefreshLoop
  <1>7. ASSUME Tick \/ UNCHANGED scheduleVars
        PROVE  FALSE
    BY <1>7 DEF Tick, scheduleVars
  <1> QED
    BY <1>4, <1>5, <1>6, <1>7 DEF ScheduleNext

\* What AttemptsInWindow says of one step.
StartsInWindow(l) ==
    (loops[l].pc = "claimed" /\ loops'[l].pc = "attempt") =>
        /\ refreshStageTime(token, loops[l].stage) <= now /\ now < token.expiresAt
        /\ failedAt # 0 => now >= failedAt + MinInterval
        /\ loops[l].stage \notin started

LEMMA StartInWindow ==
    ASSUME Inv, [ScheduleNext]_scheduleVars, NEW l \in Loops
    PROVE  StartsInWindow(l)
  <1> SUFFICES ASSUME loops[l].pc = "claimed", loops'[l].pc = "attempt"
               PROVE  /\ refreshStageTime(token, loops[l].stage) <= now /\ now < token.expiresAt
                      /\ failedAt # 0 => now >= failedAt + MinInterval
                      /\ loops[l].stage \notin started
    BY DEF StartsInWindow
  <1>1. ScheduleTypeOK
    BY DEF Inv
  <1>2. AttemptBegins(l)
    BY <1>1, OnlyBegins
  <1>3. NotStarted(l) = "none"
    <2>1. SUFFICES ASSUME NotStarted(l) # "none"
                   PROVE  FALSE
      OBVIOUS
    <2>2. PICK x \in Results : x = NotStarted(l)
      BY <1>1, NotStartedFacts
    <2>3. loops' = Finishing(l, x)
      BY <1>2, <2>1, <2>2 DEF AttemptBegins
    <2>4. Finishing(l, x)[l].pc = "finish"
      BY <1>1, FinishingFacts
    <2> QED
      BY <2>3, <2>4
  <1>4. loops[l].revision = revision /\ schedule.disposition = "active" /\ now < token.expiresAt
    BY <1>1, <1>3, NotStartedFacts
  <1>5. schedule.claim = l
    BY <1>1, <1>4 DEF ScheduleTypeOK
  <1>6. /\ loops[l].stage = schedule.nextStage /\ schedule.retryNotBefore <= now
        /\ refreshStageTime(token, schedule.nextStage) <= now
    BY <1>5 DEF Inv, ClaimShape
  <1>7. failedAt # 0 => now >= failedAt + MinInterval
    <2>1. failedAt \in Nat /\ schedule.retryNotBefore \in Nat /\ now \in Nat
      BY <1>1, FieldTypes DEF ScheduleTypeOK
    <2>2. failedAt # 0 => failedAt + MinInterval <= schedule.retryNotBefore
      BY DEF Inv, StageShape
    <2> QED
      BY <1>6, <2>1, <2>2
  <1>8. loops[l].stage \notin started
    <2>1. ~Attempting
      BY <1>5 DEF Attempting
    <2>2. ~(schedule.nextStage < schedule.nextStage)
      BY <1>1, FieldTypes
    <2> QED
      BY <1>4, <1>6, <2>1, <2>2 DEF Inv, StageShape
  <1> QED
    BY <1>4, <1>6, <1>7, <1>8

(* An announcement for the present generation comes when grace is over.    *)
LEMMA AnnouncedAfterGrace ==
    ASSUME Inv, NEW l \in Loops, loops[l].pc = "emit", loops[l].revision = revision
    PROVE  ~GraceMode
  BY DEF Inv, EventShape, GraceMode

-----------------------------------------------------------------------------
(* Theorems.                                                               *)

LEMMA AlwaysInv ==
    ScheduleSpec => []Inv
  <1>1. ScheduleInit => Inv
    BY InitInv
  <1>2. Inv /\ [ScheduleNext]_scheduleVars => Inv'
    BY NextInv
  <1> QED
    BY <1>1, <1>2, PTL DEF ScheduleSpec

(* For any number of loops, tokens and lifetimes the state of the refresh  *)
(* schedule has its types, and the claim is held by exactly the loop that  *)
(* is between taking and releasing it.                                     *)
THEOREM ScheduleTypeCorrect ==
    ScheduleSpec => []ScheduleTypeOK
  <1>1. Inv => ScheduleTypeOK
    BY InvImplies
  <1> QED
    BY <1>1, AlwaysInv, PTL

(* No loop sleeps on a timer that the present schedule did not set: every  *)
(* change of ready, tokens, blocks or claim reaches all that wait.         *)
THEOREM SleepsAreNeverStale ==
    ScheduleSpec => []NoStaleSleep
  <1>1. Inv => NoStaleSleep
    BY InvImplies
  <1> QED
    BY <1>1, AlwaysInv, PTL

(* A generation that prompt loops attend to does not expire untried.       *)
THEOREM GenerationsAreTried ==
    ScheduleSpec => []TriedBeforeExpiry
  <1>1. Inv => TriedBeforeExpiry
    BY InvImplies
  <1> QED
    BY <1>1, AlwaysInv, PTL

(* refreshStageTime: the closed form of the thresholds, for every lifetime *)
(* and stage.                                                              *)
THEOREM ThresholdsAreHalves ==
    ScheduleSpec => []StagesHalve
  <1>1. ScheduleTypeOK => StagesHalve
    BY TypeImplies
  <1> QED
    BY <1>1, ScheduleTypeCorrect, PTL

(* persistenceRetryDelay: the closed form of the delay, for every number   *)
(* of failures and all even bounds.                                        *)
THEOREM RetryDelaysDouble ==
    ScheduleSpec => []RetryDelayDoubles
  <1>1. ScheduleTypeOK => RetryDelayDoubles
    BY TypeImplies
  <1> QED
    BY <1>1, ScheduleTypeCorrect, PTL

(* A background attempt begins between its threshold and the expiry, not   *)
(* sooner than minRefreshInterval after a failure, and never twice for one *)
(* stage.                                                                  *)
THEOREM AttemptsStayInWindow ==
    ScheduleSpec => AttemptsInWindow
  <1>1. Inv /\ [ScheduleNext]_scheduleVars => [\A l \in Loops : StartsInWindow(l)]_scheduleVars
    BY StartInWindow
  <1> QED
    BY <1>1, AlwaysInv, PTL DEF ScheduleSpec, AttemptsInWindow, StartsInWindow

(* Session-expired is not announced while AuthStatus reports grace.        *)
THEOREM AnnouncementsWaitForGrace ==
    ScheduleSpec => ExpiredAfterGrace
  <1>1. Inv => [ \A l \in Loops :
                   (loops[l].pc = "emit" /\ loops'[l].pc # "emit" /\ loops[l].revision = revision) =>
                       ~GraceMode ]_scheduleVars
    BY AnnouncedAfterGrace
  <1> QED
    BY <1>1, AlwaysInv, PTL DEF ExpiredAfterGrace

=============================================================================
