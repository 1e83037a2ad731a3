---------------------------- MODULE JournalProofs ----------------------------
(***************************************************************************)
(* The journal keeps its shape, whatever is prepared, saved or answered,   *)
(* and reads back what was written: the operators of Journal on a list in  *)
(* good shape (LogOK), for any number of attempts.                         *)
(***************************************************************************)
EXTENDS Journal, FiniteSetTheorems, TLAPS

-----------------------------------------------------------------------------
(* Counting *)

\* The attempts with numbers up to m are m attempts.
LEMMA Counted ==
    ASSUME NEW K, NEW log \in Seq(Attempts(K)), NEW k,
           NEW n \in Nat, Numbered(log, k, n),
           NEW m \in 0..n
    PROVE  Cardinality({h \in Rows(log, k) : log[h].no <= m}) = m
<1> DEFINE S == {h \in Rows(log, k) : log[h].no <= m}
           f == [h \in S |-> log[h].no]
<1>1. Rows(log, k) \subseteq 1..Len(log) /\ Len(log) \in Nat
  BY DEF Rows
<1>2. IsFiniteSet(S)
  <2>1. IsFiniteSet(1..Len(log))
    BY <1>1, FS_Interval
  <2>2. S \in SUBSET (1..Len(log))
    BY <1>1
  <2> QED
    BY <2>1, <2>2, FS_Subset
<1>3. f \in [S -> 1..m]
  BY DEF Numbered
<1>4. ASSUME NEW a \in S, NEW b \in S, f[a] = f[b]
      PROVE  a = b
  <2>1. a \in Int /\ b \in Int /\ log[a].no = log[b].no
    BY <1>1, <1>4
  <2>2. a < b => log[a].no < log[b].no
    BY DEF Numbered
  <2>3. b < a => log[b].no < log[a].no
    BY DEF Numbered
  <2>4. log[a].no \in Int
    BY DEF Numbered
  <2> QED
    BY <2>1, <2>2, <2>3, <2>4
<1>5. ASSUME NEW t \in 1..m
      PROVE  \E h \in S : f[h] = t
  <2>1. t \in 1..n /\ t <= m
    OBVIOUS
  <2>2. PICK h \in Rows(log, k) : log[h].no = t
    BY <2>1 DEF Numbered
  <2> QED
    BY <2>1, <2>2
<1>6. f \in Bijection(S, 1..m)
  BY <1>3, <1>4, <1>5 DEF Bijection, Injection, Surjection, IsInjective
<1>7. Cardinality(1..m) = Cardinality(S)
  BY <1>2, <1>6, FS_Bijection DEF ExistsBijection
<1>8. Cardinality(1..m) = m
  BY FS_Interval
<1> QED
  BY <1>7, <1>8

\* An attempt's number is its place among the attempts of its command.
LEMMA NumberIsPlace ==
    ASSUME NEW K, NEW log \in Seq(Attempts(K)), NEW k,
           NEW n \in Nat, Numbered(log, k, n)
    PROVE  /\ Cardinality(Rows(log, k)) = n
           /\ \A i \in Rows(log, k) :
                log[i].no = Cardinality({h \in Rows(log, k) : h <= i})
<1>1. Rows(log, k) \subseteq Nat /\ \A i \in Rows(log, k) : log[i].no \in 1..n
  BY DEF Rows, Numbered
<1>2. Cardinality(Rows(log, k)) = n
  <2>1. {h \in Rows(log, k) : log[h].no <= n} = Rows(log, k)
    BY <1>1
  <2> QED
    BY <2>1, Counted
<1>3. ASSUME NEW i \in Rows(log, k)
      PROVE  log[i].no = Cardinality({h \in Rows(log, k) : h <= i})
  <2>1. \A h \in Rows(log, k) : h <= i <=> log[h].no <= log[i].no
    <3> TAKE h \in Rows(log, k)
    <3>1. h < i => log[h].no < log[i].no
      BY DEF Numbered
    <3>2. i < h => log[i].no < log[h].no
      BY DEF Numbered
    <3> QED
      BY <1>1, <3>1, <3>2
  <2>2. {h \in Rows(log, k) : h <= i} = {h \in Rows(log, k) : log[h].no <= log[i].no}
    BY <2>1
  <2> QED
    BY SMTT(30), <1>1, <2>2, Counted
<1> QED
  BY <1>2, <1>3

-----------------------------------------------------------------------------
(* Reading *)

\* A command without attempts.
LEMMA NoAttempts ==
    ASSUME NEW log, NEW k, NEW n \in Nat, Numbered(log, k, n)
    PROVE  n = 0 <=> Rows(log, k) = {}
  BY DEF Numbered

\* The command as the jobs see it is its attempt with the highest number.
LEMMA LastAttempt ==
    ASSUME NEW K, NEW log \in Seq(Attempts(K)), NEW k,
           NEW n \in Nat \ {0}, Numbered(log, k, n)
    PROVE  LET i == Latest(log, k) IN
           /\ i \in Rows(log, k) /\ log[i].no = n
           /\ \A j \in Rows(log, k) : log[j].no = n => j = i
           /\ attempts_for(log, k) = IF log[i].outcome = NoReceipt THEN n - 1 ELSE n
           /\ CommandOf(log, k) = [state |-> log[i].state, outcome |-> log[i].outcome,
                                   attempts |-> attempts_for(log, k)]
<1> DEFINE last == Latest(log, k)
<1>1. /\ Rows(log, k) \subseteq Nat
      /\ \A i \in Rows(log, k) : log[i].no \in 1..n
  BY DEF Rows, Numbered
<1>2. PICK t \in Rows(log, k) : log[t].no = n
  BY DEF Numbered
<1>3. \A j \in Rows(log, k) : log[j].no <= log[t].no
  BY <1>1, <1>2
<1>4. last \in Rows(log, k) /\ \A j \in Rows(log, k) : log[j].no <= log[last].no
  BY <1>3 DEF Latest
<1>5. log[last].no = n
  BY <1>1, <1>2, <1>4
<1>6. ASSUME NEW j \in Rows(log, k), log[j].no = n
      PROVE  j = last
  <2>1. j < last => log[j].no < log[last].no
    BY <1>4 DEF Numbered
  <2>2. last < j => log[last].no < log[j].no
    BY <1>4 DEF Numbered
  <2> QED
    BY <1>1, <1>4, <1>5, <1>6, <2>1, <2>2
<1>7. attempts_for(log, k) = IF log[last].outcome = NoReceipt THEN n - 1 ELSE n
  <2> DEFINE upTo(m) == {h \in Rows(log, k) : log[h].no <= m}
  <2>1. \A m \in 0..n : Cardinality(upTo(m)) = m
    BY Counted
  <2>2. \A h \in Rows(log, k) : log[h].outcome = NoReceipt => h = last
    BY <1>6 DEF Numbered
  <2>3. n - 1 \in 0..n /\ n \in 0..n
    OBVIOUS
  <2>4. CASE log[last].outcome = NoReceipt
    <3>1. \A h \in Rows(log, k) : log[h].outcome # NoReceipt <=> log[h].no <= n - 1
      BY <1>1, <1>5, <1>6, <2>2, <2>4
    <3>2. History(log, k) = upTo(n - 1)
      BY <3>1 DEF History
    <3> HIDE DEF upTo
    <3> QED
      BY <2>1, <2>3, <2>4, <3>2 DEF attempts_for
  <2>5. CASE log[last].outcome # NoReceipt
    <3>1. \A h \in Rows(log, k) : log[h].outcome # NoReceipt /\ log[h].no <= n
      BY <1>1, <2>2, <2>5
    <3>2. History(log, k) = upTo(n)
      BY <3>1 DEF History
    <3> HIDE DEF upTo
    <3> QED
      BY <2>1, <2>3, <2>5, <3>2 DEF attempts_for
  <2> QED
    BY <2>4, <2>5
<1>8. CommandOf(log, k) = [state |-> log[last].state, outcome |-> log[last].outcome,
                           attempts |-> attempts_for(log, k)]
  BY <1>4 DEF CommandOf
<1> QED
  BY <1>4, <1>5, <1>6, <1>7, <1>8

-----------------------------------------------------------------------------
(* Writing *)

\* What is written of one command is not seen in another.
LEMMA Untouched ==
    ASSUME NEW K, NEW log \in Seq(Attempts(K)), NEW new \in Seq(Attempts(K)),
           NEW k,
           NEW n \in Nat, Numbered(log, k, n), Rows(new, k) = Rows(log, k),
           \A i \in Rows(log, k) : new[i] = log[i]
    PROVE  Numbered(new, k, n) /\ CommandOf(new, k) = CommandOf(log, k)
<1>1. Numbered(new, k, n)
  BY DEF Numbered
<1>2. CASE n = 0
  BY <1>1, <1>2, NoAttempts DEF CommandOf
<1>3. CASE n # 0
  <2>1. /\ Latest(log, k) \in Rows(log, k) /\ log[Latest(log, k)].no = n
        /\ \A j \in Rows(log, k) : log[j].no = n => j = Latest(log, k)
        /\ attempts_for(log, k) =
             IF log[Latest(log, k)].outcome = NoReceipt THEN n - 1 ELSE n
        /\ CommandOf(log, k) =
             [state |-> log[Latest(log, k)].state,
              outcome |-> log[Latest(log, k)].outcome,
              attempts |-> attempts_for(log, k)]
    BY <1>3, LastAttempt
  <2>2. /\ Latest(new, k) \in Rows(new, k) /\ new[Latest(new, k)].no = n
        /\ attempts_for(new, k) =
             IF new[Latest(new, k)].outcome = NoReceipt THEN n - 1 ELSE n
        /\ CommandOf(new, k) =
             [state |-> new[Latest(new, k)].state,
              outcome |-> new[Latest(new, k)].outcome,
              attempts |-> attempts_for(new, k)]
    BY <1>1, <1>3, LastAttempt
  <2>3. Latest(new, k) = Latest(log, k)
    BY <2>1, <2>2
  <2> QED
    BY <1>1, <2>1, <2>2, <2>3
<1> QED
  BY <1>2, <1>3

Rewrite(log, k, e) == [log EXCEPT ![Latest(log, k)] = e]

\* The latest attempt is rewritten.
LEMMA Rewritten ==
    ASSUME NEW K, NEW log \in Seq(Attempts(K)), NEW k,
           NEW n \in Nat \ {0}, Numbered(log, k, n),
           NEW e \in Attempts(K), e.command = k, e.no = n, e.state # "NONE"
    PROVE  LET new == Rewrite(log, k, e) IN
           /\ new \in Seq(Attempts(K))
           /\ Numbered(new, k, n)
           /\ Latest(new, k) = Latest(log, k)
           /\ new[Latest(log, k)] = e
           /\ CommandOf(new, k) =
                [state |-> e.state, outcome |-> e.outcome,
                 attempts |-> IF e.outcome = NoReceipt THEN n - 1 ELSE n]
           /\ \A c, m : c # k /\ m \in Nat /\ Numbered(log, c, m) =>
                Numbered(new, c, m) /\ CommandOf(new, c) = CommandOf(log, c)
<1> DEFINE i == Latest(log, k)
           new == Rewrite(log, k, e)
<1>1. /\ i \in Rows(log, k) /\ log[i].no = n
      /\ \A j \in Rows(log, k) : log[j].no = n => j = i
  BY LastAttempt
<1>2. i \in DOMAIN log /\ log[i].command = k
  BY <1>1 DEF Rows
<1> HIDE DEF i, new
<1>3. /\ new \in Seq(Attempts(K))
      /\ DOMAIN new = DOMAIN log
      /\ \A j \in DOMAIN log : new[j] = IF j = i THEN e ELSE log[j]
  BY <1>2 DEF Rewrite, i, new
<1>4. \A c : Rows(new, c) = Rows(log, c)
  BY <1>2, <1>3 DEF Rows
<1>5. Rows(log, k) \subseteq DOMAIN log
  BY DEF Rows
<1>6. \A j \in Rows(log, k) : new[j].no = log[j].no
  BY <1>1, <1>3, <1>5
<1>7. Numbered(new, k, n)
  <2>1. ASSUME NEW j \in Rows(new, k)
        PROVE  /\ new[j].no \in 1..n
               /\ new[j].state # "NONE"
               /\ new[j].outcome = NoReceipt => new[j].no = n
    <3>1. j \in Rows(log, k) /\ new[j].no = log[j].no
      BY <1>4, <1>6, <2>1
    <3>2. CASE j = i
      BY <1>1, <1>2, <1>3, <3>1, <3>2
    <3>3. CASE j # i
      BY <1>3, <1>5, <3>1, <3>3 DEF Numbered
    <3> QED
      BY <3>2, <3>3
  <2>2. \A a, b \in Rows(new, k) : a < b => new[a].no < new[b].no
    BY <1>4, <1>6 DEF Numbered
  <2>3. \A m \in 1..n : \E j \in Rows(new, k) : new[j].no = m
    BY <1>4, <1>6 DEF Numbered
  <2> QED
    BY <2>1, <2>2, <2>3 DEF Numbered
<1>8. /\ Latest(new, k) \in Rows(new, k) /\ new[Latest(new, k)].no = n
      /\ attempts_for(new, k) =
           IF new[Latest(new, k)].outcome = NoReceipt THEN n - 1 ELSE n
      /\ CommandOf(new, k) =
           [state |-> new[Latest(new, k)].state,
            outcome |-> new[Latest(new, k)].outcome,
            attempts |-> attempts_for(new, k)]
  BY <1>3, <1>7, LastAttempt
<1>9. Latest(new, k) = i /\ new[i] = e
  BY <1>1, <1>2, <1>3, <1>4, <1>6, <1>8
<1>10. ASSUME NEW c, NEW m \in Nat, c # k, Numbered(log, c, m)
       PROVE  Numbered(new, c, m) /\ CommandOf(new, c) = CommandOf(log, c)
  <2>1. \A j \in Rows(log, c) : new[j] = log[j]
    BY <1>2, <1>3, <1>10 DEF Rows
  <2> QED
    BY <1>3, <1>4, <1>10, <2>1, Untouched
<1> QED
  BY <1>3, <1>7, <1>8, <1>9, <1>10 DEF i, new

\* An attempt is added after the last, once that one has an answer.
LEMMA Appended ==
    ASSUME NEW K, NEW log \in Seq(Attempts(K)), NEW k,
           NEW n \in Nat, Numbered(log, k, n),
           \A i \in Rows(log, k) : log[i].outcome # NoReceipt,
           NEW e \in Attempts(K), e.command = k, e.no = n + 1, e.state # "NONE"
    PROVE  LET new == Append(log, e) IN
           /\ new \in Seq(Attempts(K))
           /\ Numbered(new, k, n + 1)
           /\ CommandOf(new, k) =
                [state |-> e.state, outcome |-> e.outcome,
                 attempts |-> IF e.outcome = NoReceipt THEN n ELSE n + 1]
           /\ \A c, m : c # k /\ m \in Nat /\ Numbered(log, c, m) =>
                Numbered(new, c, m) /\ CommandOf(new, c) = CommandOf(log, c)
<1> DEFINE l == Len(log) + 1
           new == Append(log, e)
<1>1. /\ new \in Seq(Attempts(K))
      /\ DOMAIN new = DOMAIN log \cup {l}
      /\ \A j \in DOMAIN log : new[j] = log[j]
      /\ new[l] = e
      /\ l \notin DOMAIN log /\ l \in Nat
      /\ \A j \in DOMAIN log : j \in Nat /\ j < l
  OBVIOUS
<1> HIDE DEF new, l
<1>2. /\ Rows(new, k) = Rows(log, k) \cup {l}
      /\ Rows(log, k) \subseteq DOMAIN log
  BY <1>1 DEF Rows
<1>3. Numbered(new, k, n + 1)
  <2>1. ASSUME NEW j \in Rows(new, k)
        PROVE  /\ new[j].no \in 1..(n + 1)
               /\ new[j].state # "NONE"
               /\ new[j].outcome = NoReceipt => new[j].no = n + 1
    <3>1. CASE j = l
      BY <1>1, <3>1
    <3>2. CASE j # l
      <4>1. j \in Rows(log, k) /\ new[j] = log[j]
        BY <1>1, <1>2, <2>1, <3>2
      <4>2. log[j].no \in 1..n /\ log[j].state # "NONE"
        BY <4>1 DEF Numbered
      <4> QED
        BY <4>1, <4>2
    <3> QED
      BY <3>1, <3>2
  <2>2. ASSUME NEW a \in Rows(new, k), NEW b \in Rows(new, k), a < b
        PROVE  new[a].no < new[b].no
    <3>1. a \in Rows(log, k) /\ new[a] = log[a]
      BY <1>1, <1>2, <2>2
    <3>2. CASE b = l
      <4>1. log[a].no \in 1..n
        BY <3>1 DEF Numbered
      <4> QED
        BY <1>1, <3>1, <3>2, <4>1
    <3>3. CASE b # l
      <4>1. b \in Rows(log, k) /\ new[b] = log[b]
        BY <1>1, <1>2, <3>3
      <4> QED
        BY <2>2, <3>1, <4>1 DEF Numbered
    <3> QED
      BY <3>2, <3>3
  <2>3. ASSUME NEW m \in 1..(n + 1)
        PROVE  \E j \in Rows(new, k) : new[j].no = m
    <3>1. CASE m = n + 1
      BY <1>1, <1>2, <3>1
    <3>2. CASE m \in 1..n
      <4>1. PICK j \in Rows(log, k) : log[j].no = m
        BY <3>2 DEF Numbered
      <4> QED
        BY <1>1, <1>2, <4>1
    <3> QED
      BY <3>1, <3>2
  <2> QED
    BY <2>1, <2>2, <2>3 DEF Numbered
<1>4. /\ \A j \in Rows(new, k) : new[j].no = n + 1 => j = Latest(new, k)
      /\ attempts_for(new, k) =
           IF new[Latest(new, k)].outcome = NoReceipt THEN (n + 1) - 1 ELSE n + 1
      /\ CommandOf(new, k) =
           [state |-> new[Latest(new, k)].state,
            outcome |-> new[Latest(new, k)].outcome,
            attempts |-> attempts_for(new, k)]
  <2>1. n + 1 \in Nat \ {0}
    OBVIOUS
  <2> QED
    BY <1>1, <1>3, <2>1, LastAttempt
<1>5. Latest(new, k) = l
  BY <1>1, <1>2, <1>4
<1>6. ASSUME NEW c, NEW m \in Nat, c # k, Numbered(log, c, m)
      PROVE  Numbered(new, c, m) /\ CommandOf(new, c) = CommandOf(log, c)
  <2>1. /\ Rows(new, c) = Rows(log, c)
        /\ \A j \in Rows(log, c) : new[j] = log[j]
    BY <1>1, <1>6 DEF Rows
  <2> QED
    BY <1>1, <1>6, <2>1, Untouched
<1>7. CommandOf(new, k) = [state |-> e.state, outcome |-> e.outcome,
                           attempts |-> IF e.outcome = NoReceipt THEN n ELSE n + 1]
  BY <1>1, <1>4, <1>5
<1> QED
  BY <1>1, <1>3, <1>6, <1>7 DEF new

-----------------------------------------------------------------------------
(* The operations *)

LEMMA CommandType ==
    ASSUME NEW K, NEW log, LogOK(log, K), NEW k \in K
    PROVE  /\ CommandOf(log, k) \in [state : ActionStates,
                                     outcome : Receipts \cup {NoReceipt},
                                     attempts : 0..MaxAttempts]
           /\ attempts_for(log, k) = CommandOf(log, k).attempts
           /\ CommandOf(log, k).state = "NONE" <=> Rows(log, k) = {}
           /\ CommandOf(log, k).state = "NONE" => CommandOf(log, k).attempts = 0
<1>1. PICK n \in 0..MaxAttempts : Numbered(log, k, n)
  BY DEF LogOK
<1>2. log \in Seq(Attempts(K)) /\ MaxAttempts \in Nat
  BY AttemptsAssumption DEF LogOK
<1>3. CASE n = 0
  <2>1. Rows(log, k) = {} /\ History(log, k) = {}
    BY <1>1, <1>3, NoAttempts DEF History
  <2>2. attempts_for(log, k) = 0
    BY <2>1, FS_EmptySet DEF attempts_for
  <2>3. CommandOf(log, k) = [state |-> "NONE", outcome |-> NoReceipt, attempts |-> 0]
    BY <2>1 DEF CommandOf
  <2> QED
    BY <1>2, <2>1, <2>2, <2>3 DEF ActionStates
<1>4. CASE n # 0
  <2> DEFINE last == log[Latest(log, k)]
  <2>1. /\ Latest(log, k) \in Rows(log, k)
        /\ attempts_for(log, k) = IF last.outcome = NoReceipt THEN n - 1 ELSE n
        /\ CommandOf(log, k) = [state |-> last.state, outcome |-> last.outcome,
                                attempts |-> attempts_for(log, k)]
    BY <1>1, <1>2, <1>4, LastAttempt
  <2>2. last \in Attempts(K) /\ last.state # "NONE"
    BY <1>1, <1>2, <2>1 DEF Rows, Numbered
  <2>3. attempts_for(log, k) \in 0..MaxAttempts
    BY <1>2, <1>4, <2>1
  <2>4. last.state \in ActionStates /\ last.outcome \in Receipts \cup {NoReceipt}
    BY <2>2 DEF Attempts
  <2> HIDE DEF last
  <2> QED
    BY <2>1, <2>2, <2>3, <2>4
<1> QED
  BY <1>3, <1>4

\* insert_prepared, of a command that is not there yet
LEMMA Inserted ==
    ASSUME NEW K, NEW log, LogOK(log, K), NEW k \in K, Rows(log, k) = {}
    PROVE  LET new == insert_prepared(log, k) IN
           /\ LogOK(new, K)
           /\ CommandOf(new, k) =
                [state |-> "PREPARED", outcome |-> NoReceipt, attempts |-> 0]
           /\ \A c \in K \ {k} : CommandOf(new, c) = CommandOf(log, c)
<1> DEFINE e == [command |-> k, no |-> 1, state |-> "PREPARED", outcome |-> NoReceipt]
           new == Append(log, e)
<1>1. log \in Seq(Attempts(K)) /\ MaxAttempts \in Nat \ {0}
  BY AttemptsAssumption DEF LogOK
<1>2. Numbered(log, k, 0)
  BY DEF Numbered
<1>3. e \in Attempts(K) /\ e.command = k /\ e.no = 0 + 1 /\ e.state = "PREPARED"
      /\ e.outcome = NoReceipt
  BY DEF Attempts, ActionStates
<1> HIDE DEF e
<1>4. /\ new \in Seq(Attempts(K))
      /\ Numbered(new, k, 0 + 1)
      /\ CommandOf(new, k) = [state |-> e.state, outcome |-> e.outcome,
                              attempts |-> IF e.outcome = NoReceipt THEN 0 ELSE 0 + 1]
      /\ \A c, m : c # k /\ m \in Nat /\ Numbered(log, c, m) =>
           Numbered(new, c, m) /\ CommandOf(new, c) = CommandOf(log, c)
  BY <1>1, <1>2, <1>3, Appended
<1> HIDE DEF new
<1>5. ASSUME NEW c \in K \ {k}
      PROVE  /\ \E m \in 0..MaxAttempts : Numbered(new, c, m)
             /\ CommandOf(new, c) = CommandOf(log, c)
  BY <1>1, <1>4 DEF LogOK
<1>6. 0 + 1 \in 0..MaxAttempts
  BY <1>1
<1>7. LogOK(new, K)
  BY <1>4, <1>5, <1>6 DEF LogOK
<1>8. insert_prepared(log, k) = new
  BY DEF insert_prepared, new, e
<1> QED
  BY <1>3, <1>4, <1>5, <1>7, <1>8

\* save_command, by a caller that keeps the outcome
LEMMA Saved ==
    ASSUME NEW K, NEW log, LogOK(log, K), NEW k \in K, Rows(log, k) # {},
           NEW state \in ActionStates \ {"NONE"}
    PROVE  LET new == save_command(log, k, state, CommandOf(log, k).outcome) IN
           /\ LogOK(new, K)
           /\ CommandOf(new, k) = [CommandOf(log, k) EXCEPT !.state = state]
           /\ \A c \in K \ {k} : CommandOf(new, c) = CommandOf(log, c)
<1> DEFINE outcome == CommandOf(log, k).outcome
           last == log[Latest(log, k)]
           e == [last EXCEPT !.state = state, !.outcome = outcome]
           new == Rewrite(log, k, e)
<1>1. log \in Seq(Attempts(K)) /\ MaxAttempts \in Nat \ {0}
  BY AttemptsAssumption DEF LogOK
<1>2. PICK n \in 0..MaxAttempts : Numbered(log, k, n)
  BY DEF LogOK
<1>3. n \in Nat \ {0}
  BY <1>1, <1>2, NoAttempts
<1>4. /\ Latest(log, k) \in Rows(log, k) /\ last.no = n
      /\ attempts_for(log, k) = IF last.outcome = NoReceipt THEN n - 1 ELSE n
      /\ CommandOf(log, k) = [state |-> last.state, outcome |-> last.outcome,
                              attempts |-> attempts_for(log, k)]
  BY <1>1, <1>2, <1>3, LastAttempt
<1>5. last \in Attempts(K) /\ last.command = k
  BY <1>1, <1>4 DEF Rows
<1>a. outcome = last.outcome
  BY <1>4
<1> HIDE DEF last, outcome
<1>6. /\ e \in Attempts(K) /\ e.command = k /\ e.no = n
      /\ e.state = state /\ e.state # "NONE" /\ e.outcome = last.outcome
  BY <1>4, <1>5, <1>a DEF Attempts
<1> HIDE DEF e
<1>7. /\ new \in Seq(Attempts(K))
      /\ Numbered(new, k, n)
      /\ CommandOf(new, k) = [state |-> e.state, outcome |-> e.outcome,
                              attempts |-> IF e.outcome = NoReceipt THEN n - 1 ELSE n]
      /\ \A c, m : c # k /\ m \in Nat /\ Numbered(log, c, m) =>
           Numbered(new, c, m) /\ CommandOf(new, c) = CommandOf(log, c)
  BY <1>1, <1>2, <1>3, <1>6, Rewritten
<1> HIDE DEF new
<1>8. CommandOf(new, k) = [CommandOf(log, k) EXCEPT !.state = state]
  BY <1>4, <1>6, <1>7
<1>9. ASSUME NEW c \in K \ {k}
      PROVE  /\ \E m \in 0..MaxAttempts : Numbered(new, c, m)
             /\ CommandOf(new, c) = CommandOf(log, c)
  BY <1>1, <1>7 DEF LogOK
<1>10. LogOK(new, K)
  BY <1>2, <1>7, <1>9 DEF LogOK
<1>11. save_command(log, k, state, CommandOf(log, k).outcome) = new
  BY DEF save_command, Rewrite, new, e, last, outcome
<1> QED
  BY <1>8, <1>9, <1>10, <1>11

LEMMA NoReceiptIsNone == NoReceipt \notin Receipts
  BY Zenon DEF NoReceipt, Receipts, Rejects

\* add_attempt, with the number that is next: the attempt without an answer gets
\* one, or the last is copied.
LEMMA Added ==
    ASSUME NEW K, NEW log \in Seq(Attempts(K)), NEW k,
           NEW n \in Nat \ {0}, Numbered(log, k, n),
           NEW receipt \in Receipts
    PROVE  LET m == next_attempt_no(log, k)
               new == add_attempt(log, k, m, receipt) IN
           /\ m = CommandOf(log, k).attempts + 1 /\ m \in Nat \ {0}
           /\ new \in Seq(Attempts(K))
           /\ Numbered(new, k, m)
           /\ \A c, l : c # k /\ l \in Nat /\ Numbered(log, c, l) =>
                Numbered(new, c, l) /\ CommandOf(new, c) = CommandOf(log, c)
<1> DEFINE i == Latest(log, k)
           m == next_attempt_no(log, k)
           new == add_attempt(log, k, m, receipt)
           same == {h \in Rows(log, k) : log[h].no = m}
<1>1. /\ i \in Rows(log, k) /\ log[i].no = n
      /\ \A j \in Rows(log, k) : log[j].no = n => j = i
      /\ attempts_for(log, k) = IF log[i].outcome = NoReceipt THEN n - 1 ELSE n
      /\ CommandOf(log, k) = [state |-> log[i].state, outcome |-> log[i].outcome,
                              attempts |-> attempts_for(log, k)]
  BY LastAttempt
<1>2. m = IF log[i].outcome = NoReceipt THEN n ELSE n + 1
  BY <1>1 DEF next_attempt_no
<1>3. m = CommandOf(log, k).attempts + 1 /\ m \in Nat \ {0}
  BY <1>1, <1>2 DEF next_attempt_no
<1>4. log[i] \in Attempts(K) /\ log[i].command = k /\ log[i].state # "NONE" /\ i \in DOMAIN log
  BY <1>1 DEF Rows, Numbered
<1>5. receipt # NoReceipt
  BY NoReceiptIsNone
<1>6. Rows(log, k) \subseteq Nat /\ \A h \in Rows(log, k) : log[h].no \in 1..n
  BY DEF Rows, Numbered
<1> HIDE DEF i
<1>7. CASE log[i].outcome = NoReceipt
  <2> DEFINE e == [log[i] EXCEPT !.outcome = receipt]
  <2>1. e \in Attempts(K) /\ e.command = k /\ e.no = n /\ e.state # "NONE"
    BY <1>1, <1>4 DEF Attempts
  <2>2. same = {i}
    BY <1>1, <1>2, <1>7
  <2>3. (CHOOSE h \in same : \A j \in same : h <= j) = i
    BY <1>1, <1>6, <2>2
  <2>4. new = [log EXCEPT ![i].outcome = receipt]
    BY <2>2, <2>3 DEF add_attempt
  <2>5. new = Rewrite(log, k, e)
    BY <1>4, <2>4 DEF Rewrite, i
  <2> HIDE DEF e, new
  <2>6. /\ Rewrite(log, k, e) \in Seq(Attempts(K))
        /\ Numbered(Rewrite(log, k, e), k, n)
        /\ \A c, l : c # k /\ l \in Nat /\ Numbered(log, c, l) =>
             /\ Numbered(Rewrite(log, k, e), c, l)
             /\ CommandOf(Rewrite(log, k, e), c) = CommandOf(log, c)
    BY <2>1, Rewritten
  <2> QED
    BY <1>2, <1>3, <1>7, <2>5, <2>6 DEF new
<1>8. CASE log[i].outcome # NoReceipt
  <2> DEFINE e == [log[i] EXCEPT !.no = m, !.outcome = receipt]
  <2>1. e \in Attempts(K) /\ e.command = k /\ e.no = n + 1 /\ e.state # "NONE"
    BY <1>2, <1>3, <1>4, <1>8 DEF Attempts
  <2>2. same = {}
    BY <1>2, <1>6, <1>8
  <2>3. new = Append(log, e)
    BY <2>2 DEF add_attempt, i
  <2>4. \A h \in Rows(log, k) : log[h].outcome # NoReceipt
    BY <1>1, <1>8 DEF Numbered
  <2> HIDE DEF e, new
  <2>5. /\ Append(log, e) \in Seq(Attempts(K))
        /\ Numbered(Append(log, e), k, n + 1)
        /\ \A c, l : c # k /\ l \in Nat /\ Numbered(log, c, l) =>
             /\ Numbered(Append(log, e), c, l)
             /\ CommandOf(Append(log, e), c) = CommandOf(log, c)
    BY <2>1, <2>4, Appended
  <2> QED
    BY <1>2, <1>3, <1>8, <2>3, <2>5 DEF new
<1> QED
  BY <1>7, <1>8

\* record_receipt, while an attempt is left
LEMMA Recorded ==
    ASSUME NEW K, NEW log, LogOK(log, K), NEW k \in K, Rows(log, k) # {},
           CommandOf(log, k).attempts < MaxAttempts, NEW receipt \in Receipts
    PROVE  LET new == record_receipt(log, k, receipt)
               n == CommandOf(log, k).attempts + 1 IN
           /\ LogOK(new, K)
           /\ CommandOf(new, k) = [state |-> state_after_receipt(receipt, n),
                                   outcome |-> receipt, attempts |-> n]
           /\ \A c \in K \ {k} : CommandOf(new, c) = CommandOf(log, c)
<1> DEFINE m == next_attempt_no(log, k)
           mid == add_attempt(log, k, m, receipt)
           last == mid[Latest(mid, k)]
           state == state_after_receipt(receipt, m)
           e == [last EXCEPT !.state = state, !.outcome = receipt]
           new == Rewrite(mid, k, e)
<1>1. log \in Seq(Attempts(K)) /\ MaxAttempts \in Nat \ {0}
  BY AttemptsAssumption DEF LogOK
<1>2. PICK n \in 0..MaxAttempts : Numbered(log, k, n)
  BY DEF LogOK
<1>3. n \in Nat \ {0}
  BY <1>1, <1>2, NoAttempts
<1>4. /\ m = CommandOf(log, k).attempts + 1 /\ m \in Nat \ {0}
      /\ mid \in Seq(Attempts(K))
      /\ Numbered(mid, k, m)
      /\ \A c, l : c # k /\ l \in Nat /\ Numbered(log, c, l) =>
           Numbered(mid, c, l) /\ CommandOf(mid, c) = CommandOf(log, c)
  BY <1>1, <1>2, <1>3, Added
<1>5. m \in 0..MaxAttempts
  BY <1>1, <1>4, CommandType
<1>6. record_receipt(log, k, receipt) = new
  BY DEF record_receipt, save_command, Rewrite
<1>7. state \in ActionStates \ {"NONE"}
  BY DEF state_after_receipt, ActionStates
<1> HIDE DEF m, mid, state
<1>8. Latest(mid, k) \in Rows(mid, k) /\ last.no = m
  BY <1>4, LastAttempt
<1>9. last \in Attempts(K) /\ last.command = k
  BY <1>4, <1>8 DEF Rows
<1> HIDE DEF last
<1>10. /\ e \in Attempts(K) /\ e.command = k /\ e.no = m
       /\ e.state = state /\ e.state # "NONE" /\ e.outcome = receipt
  BY <1>7, <1>8, <1>9 DEF Attempts
<1>11. e.outcome # NoReceipt
  BY <1>10, NoReceiptIsNone
<1> HIDE DEF e
<1>12. /\ new \in Seq(Attempts(K))
       /\ Numbered(new, k, m)
       /\ CommandOf(new, k) = [state |-> e.state, outcome |-> e.outcome,
                               attempts |-> IF e.outcome = NoReceipt THEN m - 1 ELSE m]
       /\ \A c, l : c # k /\ l \in Nat /\ Numbered(mid, c, l) =>
            Numbered(new, c, l) /\ CommandOf(new, c) = CommandOf(mid, c)
  BY <1>4, <1>10, Rewritten
<1> HIDE DEF new
<1>13. CommandOf(new, k) = [state |-> state, outcome |-> receipt, attempts |-> m]
  BY <1>10, <1>11, <1>12
<1>14. ASSUME NEW c \in K \ {k}
       PROVE  /\ \E l \in 0..MaxAttempts : Numbered(new, c, l)
              /\ CommandOf(new, c) = CommandOf(log, c)
  <2>1. PICK l \in 0..MaxAttempts : Numbered(log, c, l)
    BY DEF LogOK
  <2>2. Numbered(mid, c, l) /\ CommandOf(mid, c) = CommandOf(log, c)
    BY <1>4, <2>1
  <2> QED
    BY <1>12, <2>1, <2>2
<1>15. LogOK(new, K)
  BY <1>5, <1>12, <1>14 DEF LogOK
<1> QED
  BY <1>4, <1>6, <1>13, <1>14, <1>15 DEF state

\* What JournalOK says of a list.
LEMMA Shape ==
    ASSUME NEW K, NEW log, LogOK(log, K), NEW k \in K
    PROVE  /\ Cardinality(Rows(log, k)) <= MaxAttempts
           /\ \A i \in Rows(log, k) :
                /\ log[i].no = Cardinality({h \in Rows(log, k) : h <= i})
                /\ log[i].outcome = NoReceipt => i = Latest(log, k)
<1>1. log \in Seq(Attempts(K)) /\ MaxAttempts \in Nat \ {0}
  BY AttemptsAssumption DEF LogOK
<1>2. PICK n \in 0..MaxAttempts : Numbered(log, k, n)
  BY DEF LogOK
<1>3. n \in Nat
  BY <1>1
<1> DEFINE place(i) == Cardinality({h \in Rows(log, k) : h <= i})
<1>5. /\ Cardinality(Rows(log, k)) = n
      /\ \A i \in Rows(log, k) : log[i].no = place(i)
  BY <1>1, <1>2, <1>3, NumberIsPlace, Zenon
<1>6. n <= MaxAttempts
  BY <1>1
<1> HIDE DEF place
<1>4. ASSUME NEW i \in Rows(log, k), log[i].outcome = NoReceipt
      PROVE  i = Latest(log, k)
  <2>1. log[i].no = n
    BY <1>2, <1>4 DEF Numbered
  <2>2. n \in Nat \ {0}
    BY <1>1, <1>2, <1>4, NoAttempts
  <2> QED
    BY <1>1, <1>2, <1>4, <2>1, <2>2, LastAttempt
<1>7. Cardinality(Rows(log, k)) <= MaxAttempts
  BY <1>5, <1>6
<1> QED
  BY <1>4, <1>5, <1>7 DEF place
=============================================================================
