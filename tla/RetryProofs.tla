----------------------------- MODULE RetryProofs -----------------------------
(***************************************************************************)
(* Proofs about Retry for any requests, hosts, limits and budgets: the     *)
(* inductive invariant, and the safety properties that follow from it.     *)
(***************************************************************************)
EXTENDS Retry, FiniteSetTheorems, SequenceTheorems, TLAPS

Budget == [host : Hosts, tokens : Int]

USE DEF UsesBudget

(* Appending to the list of budgets keeps those that are there.            *)
LEMMA BudgetAppended ==
  ASSUME NEW bs \in Seq(Budget), NEW h \in Hosts
  PROVE  LET b == [host |-> h, tokens |-> Reserve]
         IN /\ Append(bs, b) \in Seq(Budget)
            /\ Len(Append(bs, b)) = Len(bs) + 1
            /\ \A i \in 1..Len(bs) : Append(bs, b)[i] = bs[i]
            /\ Append(bs, b)[Len(bs) + 1] = b
  <1>1. [host |-> h, tokens |-> Reserve] \in Budget
    BY RetryAssumption DEF Budget
  <1>2. QED
    BY <1>1, AppendProperties

(* A deposit or a withdrawal changes tokens and not whose budget it is.    *)
LEMMA TokensChanged ==
  ASSUME NEW bs \in Seq(Budget), NEW i \in 1..Len(bs), NEW n \in Int
  PROVE  LET new == [bs EXCEPT ![i].tokens = n]
         IN /\ new \in Seq(Budget)
            /\ Len(new) = Len(bs)
            /\ \A j \in 1..Len(bs) : new[j].host = bs[j].host
  <1> DEFINE b == [bs[i] EXCEPT !.tokens = n]
  <1>1. bs[i] \in Budget
    BY ElementOfSeq
  <1>2. b \in Budget /\ b.host = bs[i].host
    BY <1>1 DEF Budget
  <1>3. [bs EXCEPT ![i].tokens = n] = [bs EXCEPT ![i] = b]
    OBVIOUS
  <1> HIDE DEF b
  <1>4. QED
    BY <1>2, <1>3, ExceptSeq

(* Budgets::get: what a lookup returns is a budget of the host, the other  *)
(* budgets stay as they are, and the map stays within its bound.           *)
LEMMA GetBudgetKeeps ==
  ASSUME TypeOK, IsFiniteSet(Tracked), HostsBounded,
         NEW r \in Requests, GetBudget(r, host[r])
  PROVE  /\ budgets' \in Seq(Budget)
         /\ Len(budgets) <= Len(budgets')
         /\ \A i \in 1..Len(budgets) : budgets'[i] = budgets[i]
         /\ hosts' \in [Hosts -> 0..Len(budgets')]
         /\ \E b \in 1..Len(budgets') :
               /\ arc' = [arc EXCEPT ![r] = b]
               /\ budgets'[b].host = host[r]
         /\ IsFiniteSet(Tracked')
         /\ HostsBounded'
  <1> DEFINE h == host[r]
  <1>0. /\ budgets \in Seq(Budget) /\ h \in Hosts /\ Len(budgets) \in Nat
        /\ hosts \in [Hosts -> 0..Len(budgets)]
    BY LenProperties DEF TypeOK, Budget
  <1>1. CASE hosts[h] # 0
    <2>1. /\ arc' = [arc EXCEPT ![r] = hosts[h]]
          /\ hosts' = hosts /\ budgets' = budgets
      BY <1>1 DEF GetBudget
    <2>2. h \in Tracked /\ hosts[h] \in 1..Len(budgets)
      BY <1>0, <1>1 DEF Tracked
    <2>3. budgets[hosts[h]].host = h
      BY <2>2 DEF HostsBounded
    <2>4. Tracked' = Tracked
      BY <2>1 DEF Tracked
    <2>5. HostsBounded'
      BY <2>1, <2>4 DEF HostsBounded
    <2>6. budgets'[hosts[h]].host = host[r] /\ hosts[h] \in 1..Len(budgets')
      BY <2>1, <2>2, <2>3
    <2>7. \E b \in 1..Len(budgets') :
              arc' = [arc EXCEPT ![r] = b] /\ budgets'[b].host = host[r]
      BY <2>1, <2>6
    <2>8. IsFiniteSet(Tracked')
      BY <2>4
    <2>9. /\ budgets' \in Seq(Budget)
          /\ Len(budgets) <= Len(budgets')
          /\ \A i \in 1..Len(budgets) : budgets'[i] = budgets[i]
          /\ hosts' \in [Hosts -> 0..Len(budgets')]
      BY <1>0, <2>1
    <2>10. QED
      BY <2>5, <2>7, <2>8, <2>9
  <1>2. CASE hosts[h] = 0
    <2> DEFINE b == Len(budgets) + 1
               kept == IF Cardinality(Tracked) >= MaxHosts
                       THEN [g \in Hosts |-> 0] ELSE hosts
               keptHosts == {g \in Hosts : kept[g] # 0}
    <2>1. /\ budgets' = Append(budgets, [host |-> h, tokens |-> Reserve])
          /\ hosts' = [kept EXCEPT ![h] = b]
          /\ arc' = [arc EXCEPT ![r] = b]
      BY <1>2 DEF GetBudget
    <2>2. /\ budgets' \in Seq(Budget)
          /\ Len(budgets') = b
          /\ \A i \in 1..Len(budgets) : budgets'[i] = budgets[i]
          /\ budgets'[b] = [host |-> h, tokens |-> Reserve]
      BY <1>0, <2>1, BudgetAppended
    <2>3. kept \in [Hosts -> 0..Len(budgets)] /\ keptHosts \subseteq Tracked
      BY <1>0 DEF Tracked
    <2>4. IsFiniteSet(keptHosts) /\ Cardinality(keptHosts) < MaxHosts
      <3>1. CASE Cardinality(Tracked) >= MaxHosts
        <4>1. keptHosts = {}
          BY <3>1
        <4>2. QED
          BY <4>1, FS_EmptySet, RetryAssumption
      <3>2. CASE ~(Cardinality(Tracked) >= MaxHosts)
        <4>1. keptHosts = Tracked
          BY <3>2 DEF Tracked
        <4>2. Cardinality(Tracked) \in Nat
          BY FS_CardinalityType
        <4> HIDE DEF keptHosts
        <4>3. QED
          BY <3>2, <4>1, <4>2, RetryAssumption
      <3>3. QED
        BY <3>1, <3>2
    <2>5. Tracked' = keptHosts \cup {h}
      BY <1>0, <2>1, <2>3 DEF Tracked
    <2>6. h \notin keptHosts
      BY <1>0, <1>2
    <2>7. IsFiniteSet(Tracked') /\ Cardinality(Tracked') <= MaxHosts
      <3> HIDE DEF keptHosts, h
      <3>1. Cardinality(keptHosts) \in Nat
        BY <2>4, FS_CardinalityType
      <3>2. /\ IsFiniteSet(keptHosts \cup {h})
            /\ Cardinality(keptHosts \cup {h}) = Cardinality(keptHosts) + 1
        BY <2>4, <2>6, FS_AddElement
      <3>3. QED
        BY <2>4, <2>5, <3>1, <3>2, RetryAssumption
    <2>8. \A g \in Tracked' : budgets'[hosts'[g]].host = g
      <3>0. h \in Tracked' => budgets'[hosts'[h]].host = h
        BY <1>0, <2>1, <2>2, <2>3
      <3>1. SUFFICES ASSUME NEW g \in Tracked', g # h
                     PROVE  budgets'[hosts'[g]].host = g
        BY <3>0
      <3>2. g \in Tracked /\ hosts'[g] = hosts[g]
        BY <1>0, <2>1, <2>3, <2>5, <3>1 DEF Tracked
      <3>3. hosts[g] \in 1..Len(budgets) /\ budgets[hosts[g]].host = g
        BY <1>0, <3>2 DEF Tracked, HostsBounded
      <3>4. QED
        BY <2>2, <3>2, <3>3
    <2>9. hosts' \in [Hosts -> 0..Len(budgets')]
      BY <1>0, <2>1, <2>2, <2>3
    <2>10. b \in 1..Len(budgets') /\ budgets'[b].host = h
      BY <1>0, <2>2
    <2>11. HostsBounded'
      BY <2>7, <2>8 DEF HostsBounded
    <2>12. \E i \in 1..Len(budgets') :
              arc' = [arc EXCEPT ![r] = i] /\ budgets'[i].host = host[r]
      BY <2>1, <2>10
    <2> HIDE DEF b, kept, keptHosts
    <2>13. Len(budgets) <= Len(budgets')
      BY <1>0, <2>2 DEF b
    <2>14. QED
      BY <2>2, <2>7, <2>9, <2>11, <2>12, <2>13
  <1>3. QED
    BY <1>0, <1>1, <1>2

-----------------------------------------------------------------------------
(* What a budget may be overdrawn by                                       *)

LEMMA TimesNext ==
  ASSUME NEW t \in Nat, NEW a \in Nat
  PROVE  t * a \in Nat /\ t * (a + 1) = t * a + t
  OBVIOUS

LEMMA TimesMonotone ==
  ASSUME NEW t \in Nat, NEW a \in Nat, NEW b \in Nat, a <= b
  PROVE  t * a <= t * b
  <1>1. PICK d \in Nat : b = a + d
    <2>1. b - a \in Nat /\ b = a + (b - a)
      OBVIOUS
    <2>2. QED
      BY <2>1
  <1>2. t * b = t * a + t * d
    BY <1>1
  <1>3. t * d \in Nat /\ t * a \in Nat
    OBVIOUS
  <1>4. QED
    BY <1>2, <1>3

LEMMA RoomArithmetic ==
  ASSUME NEW x \in Nat, NEW y \in Nat, NEW w \in Nat, NEW o \in Nat,
         NEW s \in Int, NEW t \in Int
  PROVE  /\ x <= y /\ y <= s + o /\ s <= t => x <= t + o
         /\ x <= y /\ y = o + w /\ w <= s => x <= s + o
         /\ y = x + w /\ y <= s + o => x <= (s - w) + o
  OBVIOUS

(* One withdrawal less than there are requests.                            *)
LEMMA OverdraftCounts ==
  /\ Cardinality(Requests) \in Nat
  /\ Overdraft \in Nat
  /\ WithdrawAmount * Cardinality(Requests) = Overdraft + WithdrawAmount
  <1>1. PICK r : r \in Requests
    BY RetryAssumption
  <1>2. Cardinality(Requests) \in Nat /\ Cardinality(Requests) # 0
    BY <1>1, FS_CardinalityType, FS_EmptySet, RetryAssumption
  <1>3. PICK n \in Nat : n = Cardinality(Requests) - 1
    BY <1>2
  <1>4. Cardinality(Requests) = n + 1 /\ Overdraft = WithdrawAmount * n
    BY <1>2, <1>3 DEF Overdraft
  <1>5. QED
    BY <1>2, <1>4, TimesNext, RetryAssumption

LEMMA GrantedCounts ==
  ASSUME NEW b
  PROVE  /\ IsFiniteSet(Granted(b)) /\ Cardinality(Granted(b)) \in Nat
         /\ Cardinality(Granted(b)) <= Cardinality(Requests)
  <1>1. Granted(b) \subseteq Requests
    BY DEF Granted
  <1>2. QED
    BY <1>1, FS_Subset, FS_CardinalityType, RetryAssumption

(* There stays room for fewer withdrawals when no tokens are taken.        *)
LEMMA RoomKept ==
  ASSUME TypeOK, OverdraftIsBounded, NEW b \in 1..Len(budgets),
         NEW S, S \subseteq Granted(b), NEW t \in Int, budgets[b].tokens <= t
  PROVE  WithdrawAmount * Cardinality(S) <= t + Overdraft
  <1>1. budgets \in Seq(Budget) /\ b \in DOMAIN budgets
    BY LenProperties DEF TypeOK, Budget
  <1>2. budgets[b].tokens \in Int
    <2>1. budgets[b] \in Budget
      BY <1>1, ElementOfSeq
    <2>2. QED
      BY <2>1 DEF Budget
  <1>3. Cardinality(S) \in Nat /\ Cardinality(S) <= Cardinality(Granted(b))
    BY GrantedCounts, FS_Subset, FS_CardinalityType
  <1>4. WithdrawAmount * Cardinality(S)
            <= WithdrawAmount * Cardinality(Granted(b))
    BY <1>3, GrantedCounts, TimesMonotone, RetryAssumption
  <1>5. WithdrawAmount * Cardinality(Granted(b))
            <= budgets[b].tokens + Overdraft
    BY <1>1 DEF OverdraftIsBounded
  <1>6. /\ WithdrawAmount * Cardinality(S) \in Nat
        /\ WithdrawAmount * Cardinality(Granted(b)) \in Nat
    BY <1>3, GrantedCounts, TimesNext, RetryAssumption
  <1>7. QED
    BY <1>2, <1>4, <1>5, <1>6, OverdraftCounts, RoomArithmetic

-----------------------------------------------------------------------------
(* Initially there are no calls and no budgets.                            *)
LEMMA IInvInitially == Init => IInv
  <1> SUFFICES ASSUME Init PROVE IInv
    OBVIOUS
  <1>1. TypeOK
    <2>1. << >> \in Seq(Budget) /\ Len(<< >>) = 0
      BY EmptySeq
    <2>2. QED
      BY <2>1, RetryAssumption DEF Init, TypeOK, PCs, Results, Budget
  <1>2. CountsByPc
    BY <1>1, RetryAssumption DEF Init, CountsByPc, CountsOf, TypeOK
  <1>3. Tracked = {}
    BY DEF Init, Tracked
  <1>4. IsFiniteSet(Tracked) /\ HostsBounded
    BY <1>3, FS_EmptySet, RetryAssumption DEF HostsBounded
  <1>5. BudgetIsOwnHosts
    BY DEF Init, BudgetIsOwnHosts
  <1>6. OverdraftIsBounded
    BY DEF Init, OverdraftIsBounded
  <1>7. QED
    BY <1>1, <1>2, <1>4, <1>5, <1>6 DEF IInv

(* What the map and the budgets satisfy.                                   *)
BudgetsOk ==
    /\ IsFiniteSet(Tracked)
    /\ HostsBounded
    /\ BudgetIsOwnHosts
    /\ OverdraftIsBounded

(* A step that leaves the map and the list of budgets alone, and takes no  *)
(* request further in the use of a budget, keeps what they satisfy.        *)
LEMMA BudgetsUntouched ==
  ASSUME IInv, UNCHANGED <<hosts, budgets>>,
         \A r \in Requests :
            pc'[r] \in UsesBudget =>
               pc'[r] = pc[r] /\ host'[r] = host[r] /\ arc'[r] = arc[r]
  PROVE  BudgetsOk'
  <1>1. Tracked' = Tracked
    BY DEF Tracked
  <1>2. HostsBounded'
    BY <1>1 DEF IInv, HostsBounded
  <1>3. BudgetIsOwnHosts'
    BY DEF IInv, BudgetIsOwnHosts
  <1>4. ASSUME NEW b \in DOMAIN budgets'
        PROVE  (WithdrawAmount * Cardinality(Granted(b))
                    <= budgets[b].tokens + Overdraft)'
    <2>1. budgets \in Seq(Budget) /\ b \in 1..Len(budgets)
      BY <1>4, LenProperties DEF IInv, TypeOK, Budget
    <2>2. Granted(b)' \subseteq Granted(b)
      BY DEF Granted
    <2>3. budgets[b].tokens \in Int
      <3>1. budgets[b] \in Budget
        BY <2>1, ElementOfSeq
      <3>2. QED
        BY <3>1 DEF Budget
    <2>4. Overdraft' = Overdraft
      BY DEF Overdraft
    <2>5. QED
      BY <2>1, <2>2, <2>3, <2>4, RoomKept DEF IInv
  <1>5. OverdraftIsBounded'
    BY <1>4 DEF OverdraftIsBounded
  <1>6. QED
    BY <1>1, <1>2, <1>3, <1>5 DEF IInv, BudgetsOk

(* A call, a fresh one or the one of a redirect, starts its counts anew.   *)
LEMMA CallPreserves ==
  ASSUME IInv, NEW r \in Requests, NEW h \in Hosts, NEW c \in BOOLEAN,
         pc[r] \notin UsesBudget, Call(r, h, c),
         \/ hops' = hops /\ pc[r] = "new"
         \/ hops' = [hops EXCEPT ![r] = @ + 1] /\ hops[r] < MaxHops
  PROVE  IInv'
  <1> USE RetryAssumption
  <1>1. TypeOK'
    <2>1. hops' \in [Requests -> 0..MaxHops]
      <3>1. hops \in [Requests -> 0..MaxHops]
        BY DEF IInv, TypeOK
      <3>2. CASE hops' = hops
        BY <3>1, <3>2
      <3>3. CASE hops' = [hops EXCEPT ![r] = @ + 1] /\ hops[r] < MaxHops
        <4>1. hops[r] + 1 \in 0..MaxHops
          BY <3>1, <3>3
        <4>2. QED
          BY <3>1, <3>3, <4>1
      <3>4. QED
        BY <3>2, <3>3
    <2>2. /\ pc' \in [Requests -> PCs]
          /\ host' \in [Requests -> Hosts]
          /\ replayable' \in [Requests -> BOOLEAN]
          /\ held' \in [Requests -> BOOLEAN]
      BY DEF IInv, TypeOK, PCs, Call, Clones
    <2>3. /\ total' \in [Requests -> 0..MaxRetries]
          /\ app' \in [Requests -> 0..MaxRetries]
          /\ calls' \in [Hosts -> Nat]
      BY SMTT(30) DEF IInv, TypeOK, Call
    <2>4. QED
      BY <2>1, <2>2, <2>3 DEF IInv, TypeOK, Call
  <1>2. CountsByPc'
    <2> SUFFICES ASSUME NEW q \in Requests PROVE CountsOf(q)'
      BY DEF CountsByPc
    <2>1. CASE q = r
      <3>1. /\ pc'[r] = "called" /\ replayable'[r] = c
            /\ total'[r] = 0 /\ app'[r] = 0 /\ retries'[r] = retries[r]
            /\ held'[r] => replayable'[r] /\ 0 < MaxRetries
        BY DEF IInv, TypeOK, Call, Clones
      <3>2. hops'[r] = 0 => retries[r] = 0
        <4>1. CASE hops' = hops /\ pc[r] = "new"
          BY <4>1 DEF IInv, CountsByPc, CountsOf
        <4>2. CASE hops' = [hops EXCEPT ![r] = @ + 1]
          BY SMTT(30), <4>2 DEF IInv, TypeOK
        <4>3. QED
          BY <4>1, <4>2
      <3>3. QED
        BY <2>1, <3>1, <3>2 DEF CountsOf
    <2>2. CASE q # r
      BY <2>2 DEF IInv, TypeOK, Call, CountsByPc, CountsOf
    <2>3. QED
      BY <2>1, <2>2
  <1>3. BudgetsOk'
    BY BudgetsUntouched DEF IInv, TypeOK, Call
  <1>4. QED
    BY <1>1, <1>2, <1>3 DEF IInv, BudgetsOk

(* Granting a retry keeps the counts within the limit.                     *)
LEMMA CountRetryKeeps ==
  ASSUME TypeOK, CountsByPc, NEW r \in Requests, NEW kind,
         pc[r] \in {"judged", "granted"}, CountRetry(r, kind),
         UNCHANGED <<replayable, held, retries, hops>>
  PROVE  /\ pc' \in [Requests -> PCs]
         /\ total' \in [Requests -> 0..MaxRetries]
         /\ app' \in [Requests -> 0..MaxRetries]
         /\ CountsByPc'
  <1> USE RetryAssumption
  <1>1. /\ replayable[r] /\ app[r] <= total[r] /\ total[r] < MaxRetries
        /\ hops[r] = 0 => retries[r] = total[r]
    BY DEF CountsByPc, CountsOf
  <1>2. /\ total[r] \in Nat /\ app[r] \in Nat /\ retries[r] \in Nat
        /\ total \in [Requests -> 0..MaxRetries]
        /\ app \in [Requests -> 0..MaxRetries]
        /\ pc \in [Requests -> PCs]
    BY DEF TypeOK
  <1>3. total[r] + 1 \in 0..MaxRetries /\ app[r] + 1 \in 0..MaxRetries
    BY <1>1, <1>2
  <1>4. /\ total' = [total EXCEPT ![r] = total[r] + 1]
        /\ \/ app' = [app EXCEPT ![r] = app[r] + 1]
           \/ app' = app
        /\ pc' = [pc EXCEPT ![r] = "sleeping"]
    BY <1>2 DEF CountRetry
  <1>5. total' \in [Requests -> 0..MaxRetries]
    BY <1>2, <1>3, <1>4
  <1>6. app' \in [Requests -> 0..MaxRetries]
    BY <1>2, <1>3, <1>4
  <1>7. pc' \in [Requests -> PCs]
    BY <1>2, <1>4 DEF PCs
  <1>8. CountsByPc'
    <2> SUFFICES ASSUME NEW q \in Requests PROVE CountsOf(q)'
      BY DEF CountsByPc
    <2>1. CASE q = r
      <3>1. /\ pc'[r] = "sleeping" /\ total'[r] = total[r] + 1
            /\ app'[r] <= total[r] + 1
        BY <1>1, <1>2, <1>4
      <3>2. QED
        BY <1>1, <1>2, <2>1, <3>1 DEF CountsOf, CountsByPc
    <2>2. CASE q # r
      <3>1. pc'[q] = pc[q] /\ total'[q] = total[q] /\ app'[q] = app[q]
        BY <1>2, <1>4, <2>2
      <3>2. QED
        BY <3>1 DEF CountsOf, CountsByPc
    <2>3. QED
      BY <2>1, <2>2
  <1>9. QED
    BY <1>5, <1>6, <1>7, <1>8

(* The budget that a request uses is one of the list.                      *)
LEMMA InUse ==
  ASSUME IInv, NEW r \in Requests, pc[r] \in UsesBudget
  PROVE  /\ budgets \in Seq(Budget) /\ Len(budgets) \in Nat
         /\ arc[r] \in 1..Len(budgets)
         /\ budgets[arc[r]].host = host[r]
         /\ budgets[arc[r]].tokens \in Int
  <1>1. budgets \in Seq(Budget) /\ Len(budgets) \in Nat
    BY LenProperties DEF IInv, TypeOK, Budget
  <1>2. arc[r] \in 0..Len(budgets)
    <2>1. arc \in [Requests -> 0..Len(budgets)]
      BY DEF IInv, TypeOK
    <2>2. QED
      BY <2>1
  <1>3. arc[r] # 0 /\ budgets[arc[r]].host = host[r]
    BY DEF IInv, BudgetIsOwnHosts
  <1>4. arc[r] \in 1..Len(budgets)
    BY <1>1, <1>2, <1>3
  <1>5. budgets[arc[r]] \in Budget
    BY <1>1, <1>4, ElementOfSeq
  <1>6. QED
    BY <1>1, <1>3, <1>4, <1>5 DEF Budget

(* Using a budget changes its tokens only.                                 *)
LEMMA BudgetUsed ==
  ASSUME IInv, NEW r \in Requests, Deposit(r) \/ Withdraw(r)
  PROVE  /\ budgets' \in Seq(Budget)
         /\ Len(budgets') = Len(budgets)
         /\ \A j \in 1..Len(budgets) : budgets'[j].host = budgets[j].host
  <1> USE RetryAssumption
  <1> DEFINE b == arc[r]
  <1>1. b \in 1..Len(budgets) /\ budgets \in Seq(Budget)
    BY InUse DEF Deposit, Withdraw
  <1>2. budgets[b].tokens \in Int
    BY InUse DEF Deposit, Withdraw
  <1>3. \E n \in Int : budgets' = [budgets EXCEPT ![b].tokens = n]
    <2>1. CASE Deposit(r)
      <3>1. budgets' = [budgets EXCEPT ![b].tokens =
                                          budgets[b].tokens + DepositAmount]
        BY <1>1, <2>1 DEF Deposit
      <3>2. budgets[b].tokens + DepositAmount \in Int
        BY <1>2
      <3>3. QED
        BY <3>1, <3>2
    <2>2. CASE Withdraw(r)
      <3>1. budgets' = [budgets EXCEPT ![b].tokens =
                                          budgets[b].tokens - WithdrawAmount]
        BY <1>1, <2>2 DEF Withdraw
      <3>2. budgets[b].tokens - WithdrawAmount \in Int
        BY <1>2
      <3>3. QED
        BY <3>1, <3>2
    <2>3. QED
      BY <2>1, <2>2
  <1>4. QED
    BY <1>1, <1>3, TokensChanged

(* Passing the comparison needs the tokens of one withdrawal, so the other *)
(* requests can overdraw the budget at most.                               *)
LEMMA CheckKeepsRoom ==
  ASSUME IInv, NEW r \in Requests, CheckBudget(r)
  PROVE  OverdraftIsBounded'
  <1> SUFFICES ASSUME NEW b \in 1..Len(budgets)
               PROVE  WithdrawAmount * Cardinality(Granted(b)')
                          <= budgets[b].tokens + Overdraft
    <2>1. budgets' = budgets /\ Overdraft' = Overdraft
      BY DEF CheckBudget, shared, Overdraft
    <2>2. DOMAIN budgets = 1..Len(budgets)
      BY LenProperties DEF IInv, TypeOK
    <2>3. QED
      BY <2>1, <2>2 DEF OverdraftIsBounded
  <1>1. budgets[b].tokens \in Int
    <2>1. budgets[b] \in Budget
      BY ElementOfSeq DEF IInv, TypeOK, Budget
    <2>2. QED
      BY <2>1 DEF Budget
  <1>2. CASE b = arc[r]
    <2>1. WithdrawAmount <= budgets[b].tokens
      BY <1>1, <1>2, RetryAssumption DEF CheckBudget
    <2>2. /\ Cardinality(Granted(b)') \in Nat
          /\ Cardinality(Granted(b)') <= Cardinality(Requests)
      <3>1. Granted(b)' \subseteq Requests
        BY DEF Granted
      <3>2. QED
        BY <3>1, FS_Subset, FS_CardinalityType, RetryAssumption
    <2>3. WithdrawAmount * Cardinality(Granted(b)')
              <= WithdrawAmount * Cardinality(Requests)
      BY <2>2, OverdraftCounts, TimesMonotone, RetryAssumption
    <2>4. WithdrawAmount * Cardinality(Granted(b)') \in Nat
      BY <2>2, TimesNext, RetryAssumption
    <2>5. QED
      <3>1. WithdrawAmount * Cardinality(Requests) \in Nat
        BY OverdraftCounts, TimesNext, RetryAssumption
      <3>2. QED
        BY <1>1, <2>1, <2>3, <2>4, <3>1, OverdraftCounts, RoomArithmetic,
           RetryAssumption
  <1>3. CASE b # arc[r]
    <2>1. Granted(b)' \subseteq Granted(b)
      BY <1>3 DEF CheckBudget, Granted, IInv, TypeOK
    <2>2. QED
      BY <1>1, <2>1, RoomKept DEF IInv
  <1>4. QED
    BY <1>2, <1>3

(* A lookup takes nothing, and nobody uses a new budget yet.               *)
LEMMA LookUpKeepsRoom ==
  ASSUME IInv, NEW r \in Requests, LookUpBudget(r)
  PROVE  OverdraftIsBounded'
  <1>1. /\ budgets' \in Seq(Budget) /\ budgets \in Seq(Budget)
        /\ Len(budgets) \in Nat /\ Len(budgets') \in Nat
        /\ Len(budgets) <= Len(budgets')
        /\ \A i \in 1..Len(budgets) : budgets'[i] = budgets[i]
    BY GetBudgetKeeps, LenProperties
    DEF LookUpBudget, IInv, TypeOK, Budget
  <1>2. PICK a \in 1..Len(budgets') : arc' = [arc EXCEPT ![r] = a]
    BY GetBudgetKeeps DEF LookUpBudget, IInv
  <1>3. \A q \in Requests : pc'[q] = "granted" =>
            pc[q] = "granted" /\ arc'[q] = arc[q]
    BY <1>2 DEF LookUpBudget, IInv, TypeOK
  <1>4. Overdraft' = Overdraft
    BY DEF Overdraft
  <1> SUFFICES ASSUME NEW b \in 1..Len(budgets')
               PROVE  WithdrawAmount * Cardinality(Granted(b)')
                          <= budgets'[b].tokens + Overdraft
    BY <1>1, <1>4, LenProperties DEF OverdraftIsBounded
  <1>5. Granted(b)' \subseteq Granted(b)
    BY <1>3 DEF Granted
  <1>6. CASE b \in 1..Len(budgets)
    <2>1. budgets[b].tokens \in Int
      <3>1. budgets[b] \in Budget
        BY <1>1, <1>6, ElementOfSeq
      <3>2. QED
        BY <3>1 DEF Budget
    <2>2. QED
      BY <1>1, <1>5, <1>6, <2>1, RoomKept DEF IInv
  <1>7. CASE b \notin 1..Len(budgets)
    <2>1. Granted(b) = {}
      <3>1. arc \in [Requests -> 0..Len(budgets)]
        BY DEF IInv, TypeOK
      <3>2. \A q \in Requests : arc[q] = b => FALSE
        BY <1>1, <1>7, <3>1
      <3>3. QED
        BY <3>2 DEF Granted
    <2>2. Cardinality(Granted(b)') = 0
      BY <1>5, <2>1, FS_EmptySet
    <2>3. budgets'[b].tokens = Reserve
      <3>1. budgets' # budgets
        BY <1>7
      <3>2. budgets' = Append(budgets,
                              [host |-> host[r], tokens |-> Reserve])
        BY <3>1 DEF LookUpBudget, GetBudget
      <3>3. /\ Len(budgets') = Len(budgets) + 1
            /\ budgets'[Len(budgets) + 1].tokens = Reserve
        BY <1>1, <3>2, BudgetAppended DEF IInv, TypeOK
      <3>4. b = Len(budgets) + 1
        BY <1>1, <1>7, <3>3
      <3>5. QED
        BY <3>3, <3>4
    <2>4. QED
      BY <2>2, <2>3, OverdraftCounts, RetryAssumption
  <1>8. QED
    BY <1>6, <1>7

(* A deposit adds tokens; a withdrawal takes as many as it had room for.   *)
LEMMA UseKeepsRoom ==
  ASSUME IInv, NEW r \in Requests, Deposit(r) \/ Withdraw(r)
  PROVE  OverdraftIsBounded'
  <1>1. /\ budgets' \in Seq(Budget) /\ budgets \in Seq(Budget)
        /\ Len(budgets') = Len(budgets)
    BY BudgetUsed DEF IInv, TypeOK, Budget
  <1>2. Overdraft' = Overdraft
    BY DEF Overdraft
  <1> SUFFICES ASSUME NEW b \in 1..Len(budgets)
               PROVE  WithdrawAmount * Cardinality(Granted(b)')
                          <= budgets'[b].tokens + Overdraft
    BY <1>1, <1>2, LenProperties DEF OverdraftIsBounded
  <1>3. budgets[b].tokens \in Int /\ budgets[b] \in Budget
    <2>1. budgets[b] \in Budget
      BY <1>1, ElementOfSeq
    <2>2. QED
      BY <2>1 DEF Budget
  <1>4. Granted(b)' = Granted(b) \ {r}
    BY DEF Deposit, Withdraw, CountRetry, Granted, IInv, TypeOK
  <1>5. /\ DOMAIN budgets = 1..Len(budgets) /\ Len(budgets) \in Nat
        /\ arc[r] \in 1..Len(budgets)
    BY <1>1, LenProperties, InUse DEF Deposit, Withdraw
  <1>6. CASE Deposit(r) \/ b # arc[r]
    <2>1. /\ budgets'[b].tokens \in Int
          /\ budgets[b].tokens <= budgets'[b].tokens
      <3>1. CASE b # arc[r]
        <4>1. budgets'[b] = budgets[b]
          BY <1>5, <3>1 DEF Deposit, Withdraw
        <4>2. QED
          BY <1>3, <4>1
      <3>2. CASE Deposit(r) /\ b = arc[r]
        <4>1. budgets'[b].tokens = budgets[b].tokens + DepositAmount
          BY <1>3, <1>5, <3>2 DEF Deposit, Budget
        <4>2. QED
          BY <1>3, <4>1, RetryAssumption
      <3>3. QED
        BY <1>6, <3>1, <3>2
    <2>2. QED
      BY <1>4, <2>1, RoomKept DEF IInv
  <1>7. CASE Withdraw(r) /\ b = arc[r]
    <2>1. budgets'[b].tokens = budgets[b].tokens - WithdrawAmount
      BY <1>3, <1>5, <1>7 DEF Withdraw, Budget
    <2>2. r \in Granted(b)
      BY <1>7 DEF Withdraw, Granted
    <2>3. Cardinality(Granted(b)) = Cardinality(Granted(b)') + 1
          /\ Cardinality(Granted(b)') \in Nat
      <3>1. Cardinality(Granted(b) \ {r}) = Cardinality(Granted(b)) - 1
            /\ IsFiniteSet(Granted(b) \ {r})
        BY <2>2, GrantedCounts, FS_RemoveElement
      <3>2. QED
        BY <1>4, <3>1, GrantedCounts, FS_CardinalityType
    <2>4. /\ WithdrawAmount * Cardinality(Granted(b))
              = WithdrawAmount * Cardinality(Granted(b)') + WithdrawAmount
          /\ WithdrawAmount * Cardinality(Granted(b)') \in Nat
      BY <2>3, TimesNext, RetryAssumption
    <2>5. WithdrawAmount * Cardinality(Granted(b))
              <= budgets[b].tokens + Overdraft
      BY <1>5 DEF IInv, OverdraftIsBounded
    <2>6. QED
      <3>1. WithdrawAmount * Cardinality(Granted(b)) \in Nat
        BY GrantedCounts, TimesNext, RetryAssumption
      <3>2. WithdrawAmount * Cardinality(Granted(b)')
                <= (budgets[b].tokens - WithdrawAmount) + Overdraft
        BY <1>3, <2>4, <2>5, <3>1, OverdraftCounts, RoomArithmetic,
           RetryAssumption
      <3>3. QED
        BY <2>1, <3>2
  <1>8. QED
    BY <1>6, <1>7

(* Every step preserves the inductive invariant.                           *)
LEMMA IInvPreserved == IInv /\ [Next]_vars => IInv'
  <1> USE RetryAssumption
  <1> SUFFICES ASSUME IInv, [Next]_vars PROVE IInv'
    OBVIOUS
  <1>a. TypeOK /\ CountsByPc
    BY DEF IInv
  <1>1. ASSUME NEW r \in Requests, Send(r) PROVE IInv'
    <2>1. host[r] \in Hosts /\ replayable[r] \in BOOLEAN
      BY <1>a DEF TypeOK
    <2>2. /\ Call(r, host[r], replayable[r])
          /\ hops' = hops /\ pc[r] = "new"
      BY <1>1 DEF Send
    <2>3. pc[r] \notin UsesBudget
      BY <2>2
    <2>4. QED
      BY <2>1, <2>2, <2>3, CallPreserves
  <1>2. ASSUME NEW r \in Requests, Redirect(r) PROVE IInv'
    <2>1. PICK h \in Hosts, c \in BOOLEAN : Call(r, h, c)
      BY <1>2 DEF Redirect
    <2>2. /\ hops' = [hops EXCEPT ![r] = @ + 1] /\ hops[r] < MaxHops
          /\ pc[r] \notin UsesBudget
      BY <1>2 DEF Redirect
    <2>3. QED
      BY <2>1, <2>2, CallPreserves
  <1>3. ASSUME NEW r \in Requests, Attempted(r) PROVE IInv'
    <2>1. TypeOK'
      BY <1>a, <1>3 DEF Attempted, TypeOK, PCs, Results, perCall, shared
    <2>2. CountsByPc'
      BY ZenonT(40), <1>a, <1>3
      DEF Attempted, TypeOK, CountsByPc, CountsOf, perCall
    <2>3. BudgetsOk'
      BY <1>a, <1>3, BudgetsUntouched
      DEF Attempted, TypeOK, perCall, shared
    <2>4. QED
      BY <2>1, <2>2, <2>3 DEF IInv, BudgetsOk
  <1>4. ASSUME NEW r \in Requests, Accept(r) \/ GiveUp(r) \/ Drop(r)
        PROVE  IInv'
    <2>1. TypeOK'
      BY <1>a, <1>4 DEF Accept, GiveUp, Drop, TypeOK, PCs, perCall, shared
    <2>2. CountsByPc'
      <3>1. /\ UNCHANGED <<perCall, held, total, app, retries>>
            /\ \/ pc' = [pc EXCEPT ![r] = "over"] /\ pc[r] = "judged"
               \/ /\ pc' = [pc EXCEPT ![r] = "dropped"]
                  /\ pc[r] \in {"called", "sleeping"}
        BY <1>4 DEF Accept, GiveUp, Drop
      <3>2. ASSUME NEW q \in Requests PROVE CountsOf(q)'
        <4>1. CountsOf(q) /\ total[q] \in 0..MaxRetries
          BY <1>a DEF CountsByPc, TypeOK
        <4>2. CASE q = r
          BY <1>a, <3>1, <4>1, <4>2 DEF TypeOK, CountsOf, perCall
        <4>3. CASE q # r
          <5>1. pc'[q] = pc[q]
            BY <1>a, <3>1, <4>3 DEF TypeOK
          <5>2. QED
            BY <3>1, <4>1, <5>1 DEF CountsOf, perCall
        <4>4. QED
          BY <4>2, <4>3
      <3>3. QED
        BY <3>2 DEF CountsByPc
    <2>3. BudgetsOk'
      BY <1>a, <1>4, BudgetsUntouched
      DEF Accept, GiveUp, Drop, TypeOK, perCall, shared
    <2>4. QED
      BY <2>1, <2>2, <2>3 DEF IInv, BudgetsOk
  <1>5. ASSUME NEW r \in Requests, RetryUnbudgeted(r) PROVE IInv'
    <2>1. /\ pc' \in [Requests -> PCs]
          /\ total' \in [Requests -> 0..MaxRetries]
          /\ app' \in [Requests -> 0..MaxRetries]
          /\ CountsByPc'
      BY <1>a, <1>5, CountRetryKeeps DEF RetryUnbudgeted, perCall
    <2>2. TypeOK'
      BY <1>a, <1>5, <2>1 DEF RetryUnbudgeted, TypeOK, perCall, shared
    <2>3. BudgetsOk'
      BY <1>a, <1>5, BudgetsUntouched
      DEF RetryUnbudgeted, CountRetry, TypeOK, perCall, shared
    <2>4. QED
      BY <2>1, <2>2, <2>3 DEF IInv, BudgetsOk
  <1>6. ASSUME NEW r \in Requests, LookUpBudget(r) PROVE IInv'
    <2>1. GetBudget(r, host[r])
      BY <1>6 DEF LookUpBudget
    <2>2. /\ budgets' \in Seq(Budget)
          /\ Len(budgets) <= Len(budgets')
          /\ \A i \in 1..Len(budgets) : budgets'[i] = budgets[i]
          /\ hosts' \in [Hosts -> 0..Len(budgets')]
          /\ IsFiniteSet(Tracked') /\ HostsBounded'
      BY <2>1, GetBudgetKeeps DEF IInv
    <2>3. PICK b \in 1..Len(budgets') :
              arc' = [arc EXCEPT ![r] = b] /\ budgets'[b].host = host[r]
      BY <2>1, GetBudgetKeeps DEF IInv
    <2>4. Len(budgets) \in Nat /\ Len(budgets') \in Nat
      BY <1>a, <2>2, LenProperties DEF TypeOK
    <2>5. arc' \in [Requests -> 0..Len(budgets')]
      <3>1. arc \in [Requests -> 0..Len(budgets)]
        BY <1>a DEF TypeOK
      <3>2. arc \in [Requests -> 0..Len(budgets')]
        BY <2>2, <2>4, <3>1
      <3>3. b \in 0..Len(budgets')
        BY <2>4
      <3>4. QED
        BY <2>3, <3>2, <3>3
    <2>6. TypeOK'
      BY <1>a, <1>6, <2>2, <2>5
      DEF LookUpBudget, TypeOK, PCs, Budget, perCall
    <2>7. CountsByPc'
      BY <1>a, <1>6 DEF LookUpBudget, TypeOK, CountsByPc, CountsOf, perCall
    <2>8. BudgetIsOwnHosts'
      <3> SUFFICES ASSUME NEW q \in Requests,
                          pc'[q] \in UsesBudget
                   PROVE  arc'[q] # 0 /\ budgets'[arc'[q]].host = host'[q]
        BY DEF BudgetIsOwnHosts
      <3>1. host' = host
        BY <1>6 DEF LookUpBudget, perCall
      <3>2. CASE q = r
        BY <1>a, <2>3, <2>4, <3>1, <3>2 DEF TypeOK
      <3>3. CASE q # r
        <4>1. pc[q] = pc'[q] /\ arc'[q] = arc[q]
          BY <1>a, <1>6, <2>3, <3>3 DEF LookUpBudget, TypeOK
        <4>2. arc[q] \in 1..Len(budgets) /\ budgets[arc[q]].host = host[q]
          <5>1. arc[q] # 0 /\ budgets[arc[q]].host = host[q]
            BY <4>1 DEF IInv, BudgetIsOwnHosts
          <5>2. arc[q] \in 0..Len(budgets)
            <6>1. arc \in [Requests -> 0..Len(budgets)]
              BY <1>a DEF TypeOK
            <6>2. QED
              BY <6>1
          <5>3. QED
            BY <2>4, <5>1, <5>2
        <4>3. QED
          BY <2>2, <3>1, <4>1, <4>2
      <3>4. QED
        BY <3>2, <3>3
    <2>9. QED
      BY <1>6, <2>2, <2>6, <2>7, <2>8, LookUpKeepsRoom DEF IInv
  <1>7. ASSUME NEW r \in Requests, Deposit(r) \/ Withdraw(r) PROVE IInv'
    <2> DEFINE b == arc[r]
    <2>1. b \in 1..Len(budgets) /\ budgets \in Seq(Budget)
      BY <1>7, InUse DEF Deposit, Withdraw
    <2>4. /\ budgets' \in Seq(Budget)
          /\ Len(budgets') = Len(budgets)
          /\ \A j \in 1..Len(budgets) : budgets'[j].host = budgets[j].host
      BY <1>7, BudgetUsed
    <2>5. /\ arc' = [arc EXCEPT ![r] = 0] /\ hosts' = hosts /\ host' = host
          /\ UNCHANGED <<hasBudget, replayable, held, result, retries, hops>>
      BY <1>7 DEF Deposit, Withdraw, perCall
    <2>7. /\ pc' \in [Requests -> PCs]
          /\ total' \in [Requests -> 0..MaxRetries]
          /\ app' \in [Requests -> 0..MaxRetries]
          /\ CountsByPc'
      <3>1. CASE Deposit(r)
        <4>1. /\ pc[r] = "depositing"
              /\ pc' = [pc EXCEPT ![r] = "over"]
              /\ UNCHANGED <<total, app>>
          BY <3>1 DEF Deposit
        <4>2. /\ pc' \in [Requests -> PCs]
              /\ total' \in [Requests -> 0..MaxRetries]
              /\ app' \in [Requests -> 0..MaxRetries]
          BY <1>a, <4>1 DEF TypeOK, PCs
        <4>3. ASSUME NEW q \in Requests PROVE CountsOf(q)'
          <5>1. CountsOf(q)
            BY <1>a DEF CountsByPc
          <5>2. CASE q = r
            BY <1>a, <2>5, <4>1, <5>1, <5>2 DEF CountsOf, TypeOK
          <5>3. CASE q # r
            <6>1. pc'[q] = pc[q]
              BY <1>a, <4>1, <5>3 DEF TypeOK
            <6>2. QED
              BY <2>5, <4>1, <5>1, <6>1 DEF CountsOf
          <5>4. QED
            BY <5>2, <5>3
        <4>4. QED
          BY <4>2, <4>3 DEF CountsByPc
      <3>2. CASE Withdraw(r)
        BY <1>a, <2>5, <3>2, CountRetryKeeps DEF Withdraw
      <3>3. QED
        BY <1>7, <3>1, <3>2
    <2>6. TypeOK'
      <3>1. arc' \in [Requests -> 0..Len(budgets')]
        BY <1>a, <2>1, <2>4, <2>5, LenProperties DEF TypeOK
      <3>2. hosts' \in [Hosts -> 0..Len(budgets')]
        BY <1>a, <2>4, <2>5 DEF TypeOK
      <3>3. calls' \in [Hosts -> Nat] /\ paid' \in [Hosts -> Nat]
        BY SMTT(30), <1>a, <1>7 DEF Deposit, Withdraw, TypeOK
      <3>4. QED
        BY <1>a, <2>4, <2>5, <2>7, <3>1, <3>2, <3>3 DEF TypeOK, Budget
    <2>8. Tracked' = Tracked /\ IsFiniteSet(Tracked')
      BY <2>5 DEF Tracked, IInv
    <2>9. HostsBounded'
      <3>1. \A h \in Tracked : hosts[h] \in 1..Len(budgets)
        <4>1. hosts \in [Hosts -> 0..Len(budgets)] /\ Len(budgets) \in Nat
          BY <1>a, <2>1, LenProperties DEF TypeOK
        <4>2. \A h \in Tracked : hosts[h] \in 0..Len(budgets) /\ hosts[h] # 0
          BY <4>1 DEF Tracked
        <4>3. QED
          BY <4>1, <4>2
      <3>2. QED
        BY <2>4, <2>5, <2>8, <3>1 DEF IInv, HostsBounded
    <2>10. BudgetIsOwnHosts'
      <3> SUFFICES ASSUME NEW q \in Requests,
                          pc'[q] \in UsesBudget
                   PROVE  arc'[q] # 0 /\ budgets'[arc'[q]].host = host'[q]
        BY DEF BudgetIsOwnHosts
      <3>1. q # r /\ pc[q] = pc'[q]
        BY <1>a, <1>7 DEF Deposit, Withdraw, CountRetry, TypeOK
      <3>2. arc'[q] = arc[q]
        BY <1>a, <2>5, <3>1 DEF TypeOK
      <3>3. arc[q] # 0 /\ budgets[arc[q]].host = host[q]
        BY <3>1 DEF IInv, BudgetIsOwnHosts
      <3>a. arc[q] \in 1..Len(budgets)
        <4>1. arc[q] \in 0..Len(budgets) /\ Len(budgets) \in Nat
          BY <1>a, <2>1, LenProperties DEF TypeOK
        <4>2. QED
          BY <3>3, <4>1
      <3>4. QED
        BY <2>4, <2>5, <3>2, <3>3, <3>a
    <2>11. QED
      BY <1>7, <2>6, <2>7, <2>8, <2>9, <2>10, UseKeepsRoom DEF IInv
  <1>8. ASSUME NEW r \in Requests, OverBudget(r) PROVE IInv'
    <2>1. TypeOK'
      <3>1. Len(budgets) \in Nat
        BY <1>a, LenProperties DEF TypeOK
      <3>2. arc' \in [Requests -> 0..Len(budgets)]
        BY <1>a, <1>8, <3>1 DEF OverBudget, TypeOK
      <3>3. pc' \in [Requests -> PCs]
        BY <1>a, <1>8 DEF OverBudget, TypeOK, PCs
      <3>4. QED
        BY <1>a, <1>8, <3>2, <3>3 DEF OverBudget, TypeOK, perCall, shared
    <2>2. CountsByPc'
      BY <1>a, <1>8 DEF OverBudget, TypeOK, CountsByPc, CountsOf, perCall
    <2>3. BudgetsOk'
      BY <1>a, <1>8, BudgetsUntouched
      DEF OverBudget, TypeOK, perCall, shared
    <2>4. QED
      BY <2>1, <2>2, <2>3 DEF IInv, BudgetsOk
  <1>9. ASSUME NEW r \in Requests, Resend(r) PROVE IInv'
    <2>1. TypeOK'
      <3>1. /\ pc' \in [Requests -> PCs]
            /\ held' \in [Requests -> BOOLEAN]
            /\ retries' \in [Requests -> Nat]
        <4>0. pc' \in [Requests -> PCs]
          BY <1>a, <1>9 DEF Resend, TypeOK, PCs
        <4>1. retries' \in [Requests -> Nat]
          <5>1. retries[r] + 1 \in Nat /\ retries \in [Requests -> Nat]
            BY <1>a DEF TypeOK
          <5>2. retries' = [retries EXCEPT ![r] = retries[r] + 1]
            BY <1>9 DEF Resend
          <5>3. QED
            BY <5>1, <5>2
        <4>2. Clones(replayable[r], total[r]) \in BOOLEAN
          BY <1>a DEF Clones, TypeOK
        <4>3. held' \in [Requests -> BOOLEAN]
          BY <1>a, <1>9, <4>2 DEF Resend, TypeOK
        <4>4. QED
          BY <4>0, <4>1, <4>3
      <3>2. UNCHANGED <<perCall, total, app, result, arc, shared>>
        BY <1>9 DEF Resend
      <3>3. QED
        BY <1>a, <3>1, <3>2 DEF TypeOK, perCall, shared
    <2>2. CountsByPc'
      <3> SUFFICES ASSUME NEW q \in Requests PROVE CountsOf(q)'
        BY DEF CountsByPc
      <3>1. CASE q = r
        <4>1. /\ pc'[r] = "called" /\ retries'[r] = retries[r] + 1
              /\ held'[r] => replayable[r] /\ total[r] < MaxRetries
              /\ UNCHANGED <<replayable, total, app, hops>>
          BY <1>a, <1>9 DEF Resend, Clones, TypeOK, perCall
        <4>2. /\ replayable[r] /\ app[r] <= total[r]
              /\ hops[r] = 0 => retries[r] = total[r] - 1
          BY <1>a, <1>9 DEF Resend, CountsByPc, CountsOf
        <4>3. total[r] \in Nat /\ retries[r] \in Nat
          BY <1>a DEF TypeOK
        <4>4. hops'[r] = 0 => retries'[r] = total'[r]
          BY <4>1, <4>2, <4>3
        <4>5. QED
          BY <3>1, <4>1, <4>2, <4>4 DEF CountsOf
      <3>2. CASE q # r
        BY <1>a, <1>9, <3>2
        DEF Resend, TypeOK, CountsByPc, CountsOf, perCall
      <3>3. QED
        BY <3>1, <3>2
    <2>3. BudgetsOk'
      BY <1>a, <1>9, BudgetsUntouched
      DEF Resend, TypeOK, perCall, shared
    <2>4. QED
      BY <2>1, <2>2, <2>3 DEF IInv, BudgetsOk
  <1>10. CASE UNCHANGED vars
    <2>1. TypeOK' /\ CountsByPc'
      BY <1>a, <1>10 DEF vars, TypeOK, CountsByPc, CountsOf
    <2>2. BudgetsOk'
      BY <1>10, BudgetsUntouched DEF vars
    <2>3. QED
      BY <2>1, <2>2 DEF IInv, BudgetsOk
  <1>11. ASSUME NEW r \in Requests, CheckBudget(r) PROVE IInv'
    <2>1. TypeOK'
      BY <1>a, <1>11 DEF CheckBudget, TypeOK, PCs, perCall, shared
    <2>2. CountsByPc'
      BY <1>a, <1>11
      DEF CheckBudget, TypeOK, CountsByPc, CountsOf, perCall
    <2>3. Tracked' = Tracked /\ IsFiniteSet(Tracked') /\ HostsBounded'
      BY <1>11 DEF CheckBudget, Tracked, IInv, HostsBounded, shared
    <2>4. BudgetIsOwnHosts'
      BY <1>a, <1>11 DEF CheckBudget, IInv, BudgetIsOwnHosts,
                         TypeOK, perCall, shared
    <2>5. QED
      BY <1>11, <2>1, <2>2, <2>3, <2>4, CheckKeepsRoom DEF IInv
  <1>12. QED
    BY <1>1, <1>2, <1>3, <1>4, <1>5, <1>6, <1>7, <1>8, <1>9, <1>10, <1>11
    DEF Next, Step, Quiescent

-----------------------------------------------------------------------------
(* The inductive invariant holds in every state of the policy.             *)
THEOREM RetryInvariant == Spec => []IInv
  BY IInvInitially, IInvPreserved, PTL DEF Spec

(* Every variable of the policy and its budgets keeps its type.            *)
THEOREM TypeCorrect == Spec => []TypeOK
  <1>1. IInv => TypeOK
    BY DEF IInv
  <1>2. QED
    BY <1>1, RetryInvariant, PTL

(* The policy is asked about a result only while it may still retry.       *)
THEOREM LastAttempt == Spec => []LastAttemptIsUnjudged
  <1>1. IInv => LastAttemptIsUnjudged
    BY DEF IInv, CountsByPc, CountsOf, LastAttemptIsUnjudged
  <1>2. QED
    BY <1>1, RetryInvariant, PTL

(* All kinds of retry share the limit of a call, which is none for a       *)
(* request that cannot be replayed.                                        *)
THEOREM LimitIsShared == Spec => []SharedLimit
  <1>1. IInv => SharedLimit
    <2> SUFFICES ASSUME IInv, NEW r \in Requests
                 PROVE  /\ total[r] <= IF replayable[r] THEN MaxRetries ELSE 0
                        /\ app[r] <= total[r]
                        /\ hops[r] = 0 =>
                              retries[r] \in {total[r], total[r] - 1}
      BY DEF SharedLimit
    <2>1. total[r] \in 0..MaxRetries
      BY DEF IInv, TypeOK
    <2>2. CountsOf(r)
      BY DEF IInv, CountsByPc
    <2>3. total[r] <= IF replayable[r] THEN MaxRetries ELSE 0
      BY <2>1, <2>2, RetryAssumption DEF CountsOf
    <2>4. QED
      BY <2>2, <2>3 DEF CountsOf
  <1>2. QED
    BY <1>1, RetryInvariant, PTL

(* The map of budgets never tracks more than MaxHosts hosts.               *)
THEOREM MapIsBounded == Spec => []HostsBounded
  <1>1. IInv => HostsBounded
    BY DEF IInv
  <1>2. QED
    BY <1>1, RetryInvariant, PTL

(* However the comparisons and subtractions of requests interleave, a      *)
(* budget is overdrawn by no more than one withdrawal of every other       *)
(* request (TpsBudget::withdraw).                                          *)
THEOREM OverdraftHolds == Spec => []OverdraftIsBounded
  <1>1. IInv => OverdraftIsBounded
    BY DEF IInv
  <1>2. QED
    BY <1>1, RetryInvariant, PTL

(* A request pays from, and deposits into, a budget of its own host.       *)
THEOREM OwnBudget == Spec => []BudgetIsOwnHosts
  <1>1. IInv => BudgetIsOwnHosts
    BY DEF IInv
  <1>2. QED
    BY <1>1, RetryInvariant, PTL

-----------------------------------------------------------------------------
(* A host that the map tracks gets no second budget.                       *)
THEOREM OneBudgetWhileTracked == Spec => TrackedHostKeepsBudget
  <1>1. IInv /\ [Next]_vars =>
            [\A h \in Tracked : BudgetsOf(h)' = BudgetsOf(h)]_vars
    <2> SUFFICES ASSUME IInv, Next, NEW h \in Tracked
                 PROVE  BudgetsOf(h)' = BudgetsOf(h)
      OBVIOUS
    <2>1. budgets \in Seq(Budget) /\ h \in Hosts /\ hosts[h] # 0
      BY DEF IInv, TypeOK, Tracked, Budget
    <2>2. ASSUME budgets' \in Seq(Budget), Len(budgets') = Len(budgets),
                 \A j \in 1..Len(budgets) : budgets'[j].host = budgets[j].host
          PROVE  BudgetsOf(h)' = BudgetsOf(h)
      <3>1. DOMAIN budgets = 1..Len(budgets)
            /\ DOMAIN budgets' = 1..Len(budgets)
        BY <2>1, <2>2, LenProperties
      <3>2. QED
        BY <2>2, <3>1 DEF BudgetsOf
    <2>3. ASSUME UNCHANGED budgets
          PROVE  BudgetsOf(h)' = BudgetsOf(h)
      BY <2>3 DEF BudgetsOf
    <2>4. ASSUME NEW r \in Requests, LookUpBudget(r)
          PROVE  BudgetsOf(h)' = BudgetsOf(h)
      <3>1. GetBudget(r, host[r]) /\ host[r] \in Hosts
        BY <2>4 DEF LookUpBudget, IInv, TypeOK
      <3>2. CASE hosts[host[r]] # 0
        BY <2>3, <3>1, <3>2 DEF GetBudget
      <3>3. CASE hosts[host[r]] = 0
        <4> DEFINE b == [host |-> host[r], tokens |-> Reserve]
        <4>1. budgets' = Append(budgets, b) /\ b.host # h
          BY <2>1, <3>1, <3>3 DEF GetBudget
        <4>2. /\ Append(budgets, b) \in Seq(Budget)
              /\ Len(Append(budgets, b)) = Len(budgets) + 1
              /\ \A i \in 1..Len(budgets) :
                    Append(budgets, b)[i] = budgets[i]
              /\ Append(budgets, b)[Len(budgets) + 1] = b
          BY <2>1, <3>1, BudgetAppended
        <4> HIDE DEF b
        <4>3. /\ DOMAIN budgets = 1..Len(budgets) /\ Len(budgets) \in Nat
              /\ DOMAIN budgets' = 1..(Len(budgets) + 1)
          BY <2>1, <4>1, <4>2, LenProperties
        <4>4. \A i \in 1..(Len(budgets) + 1) :
                  i \in 1..Len(budgets) \/ i = Len(budgets) + 1
          BY <4>3
        <4>5. 1..Len(budgets) \subseteq 1..(Len(budgets) + 1)
          BY <4>3
        <4>6. QED
          BY <4>1, <4>2, <4>3, <4>4, <4>5 DEF BudgetsOf
      <3>4. QED
        BY <3>2, <3>3
    <2>5. ASSUME NEW r \in Requests, Deposit(r) \/ Withdraw(r)
          PROVE  BudgetsOf(h)' = BudgetsOf(h)
      BY <2>2, <2>5, BudgetUsed
    <2>6. ASSUME NEW r \in Requests,
                 \/ Send(r) \/ Attempted(r) \/ Accept(r) \/ GiveUp(r)
                 \/ RetryUnbudgeted(r) \/ CheckBudget(r) \/ OverBudget(r)
                 \/ Resend(r) \/ Redirect(r) \/ Drop(r)
          PROVE  BudgetsOf(h)' = BudgetsOf(h)
      BY <2>3, <2>6
      DEF Send, Call, Attempted, Accept, GiveUp, RetryUnbudgeted, CheckBudget,
          OverBudget, Resend, Redirect, Drop, shared
    <2>7. QED
      BY <2>3, <2>4, <2>5, <2>6 DEF Next, Step, Quiescent, vars
  <1>2. QED
    BY <1>1, RetryInvariant, PTL DEF Spec, TrackedHostKeepsBudget

-----------------------------------------------------------------------------
(* What is left in a host's budgets                                        *)

(* What can still be taken from a budget, and from a new one.              *)
Left(b) == b.tokens + Overdraft
Purse == Reserve + Overdraft

Funded == {b \in Budget : Left(b) \in Nat}

(* What budget n adds to what is left for host h.                          *)
Share(bs, n, h) == IF bs[n].host = h THEN Left(bs[n]) ELSE 0

(* f[n] is what is left in the first n budgets, as far as they are h's.    *)
Tallies(f, bs, h) ==
    /\ f \in [0..Len(bs) -> Nat] /\ f[0] = 0
    /\ \A n \in 1..Len(bs) : f[n] = f[n - 1] + Share(bs, n, h)
    /\ \A m, n \in 0..Len(bs) : m <= n => f[m] <= f[n]

(* The reserves, the overdrafts and the share of the calls that have ended *)
(* cover what is left in the budgets of a host and what the retries have   *)
(* spent.                                                                  *)
Covered(h, left) ==
    left + WithdrawAmount * paid[h] + DepositAmount * Cardinality(Calling(h))
        <= Purse * Cardinality(BudgetsOf(h)) + DepositAmount * calls[h]

(* No budget is overdrawn by more than that, so what is left is a number.  *)
LEMMA BudgetsAreFunded ==
  ASSUME IInv
  PROVE  budgets \in Seq(Funded)
  <1>1. budgets \in Seq(Budget) /\ Len(budgets) \in Nat
    BY LenProperties DEF IInv, TypeOK, Budget
  <1>2. ASSUME NEW i \in 1..Len(budgets)
        PROVE  budgets[i] \in Funded
    <2>1. budgets[i] \in Budget /\ budgets[i].tokens \in Int
      <3>1. budgets[i] \in Budget
        BY <1>1, ElementOfSeq
      <3>2. QED
        BY <3>1 DEF Budget
    <2>2. WithdrawAmount * Cardinality(Granted(i))
              <= budgets[i].tokens + Overdraft
      BY <1>1, LenProperties DEF IInv, OverdraftIsBounded
    <2>3. WithdrawAmount * Cardinality(Granted(i)) \in Nat
      BY GrantedCounts, TimesNext, RetryAssumption
    <2>4. budgets[i].tokens + Overdraft \in Nat
      BY <2>1, <2>2, <2>3, OverdraftCounts
    <2>5. QED
      BY <2>1, <2>4 DEF Funded, Left
  <1>3. budgets = [i \in 1..Len(budgets) |-> budgets[i]]
    BY <1>1, LenProperties
  <1>4. QED
    BY <1>1, <1>2, <1>3, SeqDef

LEMMA PurseIsNat == Purse \in Nat /\ Purse' = Purse
  BY OverdraftCounts, RetryAssumption DEF Purse, Overdraft

(* Appending a new budget, or changing tokens within the overdraft, leaves *)
(* every budget funded.                                                    *)
LEMMA FundedAppended ==
  ASSUME NEW bs \in Seq(Funded), NEW h \in Hosts
  PROVE  LET b == [host |-> h, tokens |-> Reserve]
         IN /\ Append(bs, b) \in Seq(Funded)
            /\ Len(Append(bs, b)) = Len(bs) + 1
            /\ \A i \in 1..Len(bs) : Append(bs, b)[i] = bs[i]
            /\ Append(bs, b)[Len(bs) + 1] = b
  <1>1. [host |-> h, tokens |-> Reserve] \in Funded
    BY OverdraftCounts, RetryAssumption DEF Budget, Funded, Left
  <1>2. QED
    BY <1>1, AppendProperties

LEMMA FundsChanged ==
  ASSUME NEW bs \in Seq(Funded), NEW i \in 1..Len(bs), NEW n \in Int,
         n + Overdraft \in Nat
  PROVE  LET new == [bs EXCEPT ![i].tokens = n]
         IN /\ new \in Seq(Funded)
            /\ Len(new) = Len(bs)
            /\ \A j \in 1..Len(bs) : new[j].host = bs[j].host
  <1> DEFINE b == [bs[i] EXCEPT !.tokens = n]
  <1>1. bs[i] \in Funded
    BY ElementOfSeq
  <1>2. b \in Funded /\ b.host = bs[i].host
    BY <1>1 DEF Budget, Funded, Left
  <1>3. [bs EXCEPT ![i].tokens = n] = [bs EXCEPT ![i] = b]
    OBVIOUS
  <1> HIDE DEF b
  <1>4. QED
    BY <1>2, <1>3, ExceptSeq

RetriesAreCovered ==
    \A h \in Hosts :
        \E f : Tallies(f, budgets, h) /\ Covered(h, f[Len(budgets)])

(* A new budget is tallied with its reserve.                               *)
LEMMA TallyAppended ==
  ASSUME NEW bs \in Seq(Funded), NEW g \in Hosts, NEW h \in Hosts,
         NEW f, Tallies(f, bs, h)
  PROVE  LET new == Append(bs, [host |-> g, tokens |-> Reserve])
         IN \E e : /\ Tallies(e, new, h)
                   /\ e[Len(new)] = f[Len(bs)]
                                    + (IF g = h THEN Purse ELSE 0)
  <1> DEFINE N == Len(bs)
             b == [host |-> g, tokens |-> Reserve]
             new == Append(bs, b)
             r == IF g = h THEN Purse ELSE 0
             e == [n \in 0..(N + 1) |-> IF n = N + 1 THEN f[N] + r ELSE f[n]]
  <1>1. /\ N \in Nat /\ r \in Nat
        /\ new \in Seq(Funded) /\ Len(new) = N + 1
        /\ \A i \in 1..N : new[i] = bs[i]
        /\ new[N + 1] = b
    BY FundedAppended, LenProperties, PurseIsNat
  <1>2. /\ f \in [0..N -> Nat] /\ f[0] = 0
        /\ \A n \in 1..N : f[n] = f[n - 1] + Share(bs, n, h)
        /\ \A m, n \in 0..N : m <= n => f[m] <= f[n]
    BY DEF Tallies, Share
  <1>3. Share(new, N + 1, h) = r
    BY <1>1 DEF Share, Left, Purse
  <1> HIDE DEF N, b, new, r
  <1>4. /\ e \in [0..(N + 1) -> Nat] /\ e[0] = 0 /\ e[N + 1] = f[N] + r
        /\ \A n \in 0..N : e[n] = f[n]
    BY <1>1, <1>2
  <1> HIDE DEF e
  <1>5. ASSUME NEW n \in 1..(N + 1)
        PROVE  e[n] = e[n - 1] + Share(new, n, h)
    <2>1. CASE n = N + 1
      <3>1. e[n] = f[N] + r /\ e[n - 1] = f[N]
        BY <1>1, <1>4, <2>1
      <3>2. QED
        BY <1>3, <2>1, <3>1
    <2>2. CASE n # N + 1
      <3>1. n \in 1..N /\ n - 1 \in 0..N /\ n \in 0..N
        BY <1>1, <2>2
      <3>2. Share(new, n, h) = Share(bs, n, h)
        BY <1>1, <3>1 DEF Share
      <3>3. QED
        BY <1>2, <1>4, <3>1, <3>2
    <2>3. QED
      BY <2>1, <2>2
  <1>6. ASSUME NEW m \in 0..(N + 1), NEW n \in 0..(N + 1), m <= n
        PROVE  e[m] <= e[n]
    <2>1. CASE n # N + 1
      <3>1. m \in 0..N /\ n \in 0..N
        BY <1>1, <1>6, <2>1
      <3>2. QED
        BY <1>2, <1>4, <1>6, <3>1
    <2>2. CASE n = N + 1 /\ m # N + 1
      <3>1. m \in 0..N /\ N \in 0..N /\ m <= N
        BY <1>1, <2>2
      <3>2. f[m] <= f[N] /\ f[N] \in Nat /\ f[m] \in Nat
        BY <1>2, <3>1
      <3>3. QED
        BY <1>1, <1>4, <2>2, <3>1, <3>2
    <2>3. CASE n = N + 1 /\ m = N + 1
      BY <1>4, <2>3
    <2>4. QED
      BY <2>1, <2>2, <2>3
  <1>7. Tallies(e, new, h)
    BY <1>1, <1>4, <1>5, <1>6 DEF Tallies, Share
  <1>8. e[Len(new)] = f[N] + r
    BY <1>1, <1>4
  <1>9. \E x : Tallies(x, new, h) /\ x[Len(new)] = f[N] + r
    BY <1>7, <1>8
  <1>10. QED
    BY <1>9 DEF N, b, new, r

(* A change of one budget's tokens is a change of its host's tally, and of *)
(* nobody else's.                                                          *)
LEMMA TallyChanged ==
  ASSUME NEW bs \in Seq(Funded), NEW b \in 1..Len(bs), NEW u \in Int,
         NEW t \in Nat, t = u + Overdraft,
         NEW h \in Hosts, NEW f, Tallies(f, bs, h)
  PROVE  LET new == [bs EXCEPT ![b].tokens = u]
             left == f[Len(bs)]
         IN \E e : /\ Tallies(e, new, h)
                   /\ e[Len(new)] = IF bs[b].host = h
                                    THEN (left - Left(bs[b])) + t ELSE left
                   /\ bs[b].host = h => Left(bs[b]) <= left
  <1> DEFINE N == Len(bs)
             new == [bs EXCEPT ![b].tokens = u]
             old == Left(bs[b])
             e == [n \in 0..N |-> IF n >= b THEN (f[n] - old) + t ELSE f[n]]
  <1>1. /\ N \in Nat /\ bs[b] \in Budget /\ old \in Nat
        /\ DOMAIN bs = 1..N
    <2>1. bs[b] \in Funded
      BY ElementOfSeq
    <2>2. QED
      BY <2>1, LenProperties DEF Funded
  <1>2. /\ new \in Seq(Funded) /\ Len(new) = N
        /\ \A j \in 1..N : new[j].host = bs[j].host
    BY FundsChanged
  <1>3. /\ \A j \in 1..N : j # b => Left(new[j]) = Left(bs[j])
        /\ Left(new[b]) = t
    BY <1>1 DEF Budget, Left
  <1>4. /\ f \in [0..N -> Nat] /\ f[0] = 0
        /\ \A n \in 1..N : f[n] = f[n - 1] + Share(bs, n, h)
        /\ \A m, n \in 0..N : m <= n => f[m] <= f[n]
    BY DEF Tallies, Share
  <1>a. b \in 1..N
    OBVIOUS
  <1>c. \A m, n \in 0..N : m <= n =>
            f[m] <= f[n] /\ f[m] \in Nat /\ f[n] \in Nat
    BY <1>4
  <1>b. \A j \in 1..N : j # b => Share(new, j, h) = Share(bs, j, h)
    BY <1>2, <1>3 DEF Share
  <1>5. CASE bs[b].host # h
    <2>1. \A n \in 1..N : Share(new, n, h) = Share(bs, n, h)
      BY <1>2, <1>5, <1>b DEF Share
    <2>2. Tallies(f, new, h)
      BY <1>2, <1>4, <2>1 DEF Tallies, Share
    <2>3. QED
      BY <1>2, <1>5, <2>2
  <1>6. CASE bs[b].host = h
    <2>0. Share(bs, b, h) = old /\ Share(new, b, h) = t
      BY <1>2, <1>3, <1>6 DEF Share
    <2> HIDE DEF N, old, new
    <2>1. f[b - 1] + old = f[b] /\ f[b - 1] \in Nat /\ f[b] \in Nat
      <3>1. b - 1 \in 0..N /\ b \in 0..N
        BY <1>1, <1>a
      <3>2. QED
        BY <1>4, <1>a, <2>0, <3>1
    <2>2. \A n \in 0..N : n >= b => f[n] \in Nat /\ f[b - 1] + old <= f[n]
      <3>1. \A n \in 0..N : n >= b => f[b] <= f[n] /\ f[n] \in Nat
        BY <1>1, <1>4, <1>a
      <3>2. QED
        BY <2>1, <3>1
    <2>3. \A n \in 0..N : n < b => f[n] <= f[b - 1] /\ f[n] \in Nat
      BY <1>1, <1>4, <1>a
    <2>4. /\ \A n \in 0..N : n >= b => e[n] = (f[n] - old) + t
          /\ \A n \in 0..N : n < b => e[n] = f[n]
          /\ DOMAIN e = 0..N
      BY <1>1, <1>a
    <2>5. \A n \in 0..N : e[n] \in Nat
      <3> SUFFICES ASSUME NEW n \in 0..N PROVE e[n] \in Nat
        OBVIOUS
      <3>1. CASE n >= b
        BY SMTT(30), <1>1, <2>1, <2>2, <2>4, <3>1
      <3>2. CASE n < b
        BY <2>3, <2>4, <3>2
      <3>3. QED
        BY <1>1, <1>a, <3>1, <3>2
    <2>6. e \in [0..N -> Nat]
      BY <2>5
    <2> HIDE DEF e
    <2>7. e[0] = 0
      BY <1>1, <1>4, <1>a, <2>4
    <2>8. ASSUME NEW n \in 1..N
          PROVE  e[n] = e[n - 1] + Share(new, n, h)
      <3>0. n \in 0..N /\ n - 1 \in 0..N /\ f[n] = f[n - 1] + Share(bs, n, h)
        BY <1>1, <1>4
      <3>1. CASE n = b
        <4>1. e[n] = (f[n] - old) + t /\ e[n - 1] = f[n - 1]
          BY <1>1, <1>a, <2>4, <3>0, <3>1
        <4>2. QED
          BY <1>1, <2>0, <2>1, <3>1, <4>1
      <3>2. CASE n < b
        <4>1. e[n] = f[n] /\ e[n - 1] = f[n - 1]
          BY <1>1, <1>a, <2>4, <3>0, <3>2
        <4>2. QED
          BY <1>a, <1>b, <3>0, <3>2, <4>1
      <3>3. CASE n > b
        <4>1. e[n] = (f[n] - old) + t /\ e[n - 1] = (f[n - 1] - old) + t
          BY <1>1, <1>a, <2>4, <3>0, <3>3
        <4>2. Share(new, n, h) = Share(bs, n, h)
          BY <1>a, <1>b, <3>3
        <4>3. /\ f[n] \in Nat /\ f[n - 1] \in Nat
              /\ f[n - 1] + Share(bs, n, h) = f[n]
          BY <1>4, <3>0
        <4>4. Share(bs, n, h) \in Nat
          <5>1. bs[n] \in Funded
            BY ElementOfSeq DEF N
          <5>2. QED
            BY <5>1 DEF Share, Funded
        <4>5. QED
          BY SMTT(30), <1>1, <4>1, <4>2, <4>3, <4>4
      <3>4. QED
        BY <1>1, <1>a, <3>1, <3>2, <3>3
    <2>9. ASSUME NEW m \in 0..N, NEW n \in 0..N, m <= n
          PROVE  e[m] <= e[n]
      <3>1. CASE n < b
        <4>1. m < b /\ f[m] <= f[n]
          BY <1>1, <1>a, <1>c, <2>9, <3>1
        <4>2. QED
          BY <2>4, <3>1, <4>1
      <3>2. CASE m >= b
        <4>0. n >= b
          BY <1>1, <1>a, <2>9, <3>2
        <4>1. f[m] <= f[n] /\ f[m] \in Nat /\ f[n] \in Nat
          BY <1>c, <2>9
        <4>2. QED
          BY <1>1, <2>4, <3>2, <4>0, <4>1
      <3>3. CASE m < b /\ n >= b
        <4>1. f[m] <= f[b - 1] /\ f[b - 1] + old <= f[n]
              /\ f[m] \in Nat /\ f[n] \in Nat
          BY <2>2, <2>3, <3>3
        <4>2. f[m] <= (f[n] - old) + t
          BY SMTT(30), <1>1, <2>1, <4>1
        <4>3. QED
          BY <2>4, <3>3, <4>2
      <3>4. QED
        BY <1>1, <1>a, <3>1, <3>2, <3>3
    <2>10. Tallies(e, new, h)
      BY <1>2, <2>6, <2>7, <2>8, <2>9 DEF Tallies, Share
    <2>11. e[N] = (f[N] - old) + t /\ old <= f[N]
      <3>1. N \in 0..N /\ N >= b
        BY <1>1, <1>a
      <3>2. QED
        BY SMTT(30), <1>1, <2>1, <2>2, <2>4, <3>1
    <2>12. \E x : /\ Tallies(x, new, h)
                  /\ x[Len(new)] = IF bs[b].host = h THEN (f[N] - old) + t
                                   ELSE f[N]
                  /\ bs[b].host = h => old <= f[N]
      BY <1>2, <1>6, <2>10, <2>11
    <2>13. QED
      BY <2>12 DEF N, new, old
  <1>7. QED
    BY <1>5, <1>6

(* What is covered stays covered when as much is added to one side as to   *)
(* the other, or moved within one.                                         *)
LEMMA Rebalanced ==
  ASSUME NEW l \in Nat, NEW w \in Nat, NEW d \in Nat, NEW s \in Nat,
         NEW c \in Nat, NEW x \in Nat, l + w + d <= s + c
  PROVE  /\ l + w + (d + x) <= s + (c + x)
         /\ (l + x) + w + d <= (s + x) + c
  OBVIOUS

(* How a tally f of the budgets bs becomes a tally e when budget b has t   *)
(* tokens.                                                                 *)
Refilled(bs, b, t) == [bs EXCEPT ![b].tokens = t]

Retallied(f, e, bs, b, t, h) ==
    /\ Tallies(e, Refilled(bs, b, t), h)
    /\ bs[b].host = h =>
         /\ e[Len(Refilled(bs, b, t))]
              = (f[Len(bs)] - Left(bs[b])) + (t + Overdraft)
         /\ Left(bs[b]) <= f[Len(bs)]
    /\ bs[b].host # h => e[Len(Refilled(bs, b, t))] = f[Len(bs)]

LEMMA TallyRefilled ==
  ASSUME NEW bs \in Seq(Funded), NEW b \in 1..Len(bs), NEW t \in Int,
         t + Overdraft \in Nat, NEW h \in Hosts, NEW f, Tallies(f, bs, h)
  PROVE  \E e : Retallied(f, e, bs, b, t, h)
  <1> DEFINE new == [bs EXCEPT ![b].tokens = t]
  <1>1. PICK e : /\ Tallies(e, new, h)
                 /\ e[Len(new)] = IF bs[b].host = h
                                  THEN (f[Len(bs)] - Left(bs[b]))
                                       + (t + Overdraft)
                                  ELSE f[Len(bs)]
                 /\ bs[b].host = h => Left(bs[b]) <= f[Len(bs)]
    <2>1. PICK u \in Nat : u = t + Overdraft
      OBVIOUS
    <2>2. QED
      BY <2>1, TallyChanged
  <1>2. new = Refilled(bs, b, t)
    BY DEF Refilled
  <1> HIDE DEF new
  <1>3. QED
    BY <1>1, <1>2 DEF Retallied

(* The numbers of calls and of budgets are numbers.                        *)
LEMMA HostCounts ==
  ASSUME TypeOK, NEW h \in Hosts
  PROVE  /\ IsFiniteSet(Calling(h)) /\ Cardinality(Calling(h)) \in Nat
         /\ IsFiniteSet(BudgetsOf(h)) /\ Cardinality(BudgetsOf(h)) \in Nat
  <1>1. IsFiniteSet(Calling(h))
    <2>1. Calling(h) \subseteq Requests
      BY DEF Calling
    <2>2. QED
      BY <2>1, FS_Subset, RetryAssumption
  <1>2. IsFiniteSet(BudgetsOf(h))
    <2>1. BudgetsOf(h) \subseteq 1..Len(budgets) /\ Len(budgets) \in Nat
      BY LenProperties DEF BudgetsOf, TypeOK
    <2>2. IsFiniteSet(1..Len(budgets))
      BY <2>1, FS_Interval
    <2>3. QED
      BY <2>1, <2>2, FS_Subset
  <1>3. QED
    BY <1>1, <1>2, FS_CardinalityType

-----------------------------------------------------------------------------
(* Retries stay covered                                                    *)

LEMMA InitiallyCovered == Init => RetriesAreCovered
  <1> SUFFICES ASSUME Init, NEW h \in Hosts
               PROVE  \E f : Tallies(f, budgets, h)
                             /\ Covered(h, f[Len(budgets)])
    BY DEF RetriesAreCovered
  <1> DEFINE f == [n \in 0..0 |-> 0]
  <1>1. Len(budgets) = 0 /\ BudgetsOf(h) = {}
    <2>1. budgets = << >> /\ Len(<< >>) = 0
      BY EmptySeq DEF Init
    <2>2. QED
      BY <2>1 DEF BudgetsOf
  <1>2. Calling(h) = {} /\ paid[h] = 0 /\ calls[h] = 0
    BY DEF Init, Calling, InCall
  <1>3. f \in [0..0 -> Nat] /\ f[0] = 0 /\ \A m \in 0..0 : m = 0
    OBVIOUS
  <1> HIDE DEF f
  <1>4. Tallies(f, budgets, h)
    BY <1>1, <1>3 DEF Tallies
  <1>5. Cardinality({}) = 0
    BY FS_EmptySet
  <1>6. Covered(h, f[Len(budgets)])
    BY <1>1, <1>2, <1>3, <1>5, RetryAssumption, PurseIsNat DEF Covered
  <1>7. QED
    BY <1>4, <1>6

(* The step of a call, or its end without a deposit.                       *)
LEMMA QuietKeepsCover ==
  ASSUME TypeOK, RetriesAreCovered, UNCHANGED shared,
         \A h \in Hosts : Calling(h)' \subseteq Calling(h)
  PROVE  RetriesAreCovered'
  <1> SUFFICES ASSUME NEW h \in Hosts
               PROVE  \E f : Tallies(f, budgets', h)
                             /\ Covered(h, f[Len(budgets)])'
    BY DEF RetriesAreCovered
  <1>1. PICK f : Tallies(f, budgets, h) /\ Covered(h, f[Len(budgets)])
    BY DEF RetriesAreCovered
  <1>2. /\ f[Len(budgets)] \in Nat
        /\ paid[h] \in Nat /\ calls[h] \in Nat
    <2>1. Len(budgets) \in Nat
      BY LenProperties DEF TypeOK
    <2>2. QED
      BY <1>1, <2>1 DEF Tallies, TypeOK
  <1>3. /\ Cardinality(Calling(h)) \in Nat /\ Cardinality(Calling(h)') \in Nat
        /\ Cardinality(Calling(h)') <= Cardinality(Calling(h))
    BY HostCounts, FS_Subset, FS_CardinalityType
  <1>4. DepositAmount * Cardinality(Calling(h)')
            <= DepositAmount * Cardinality(Calling(h))
    BY <1>3, TimesMonotone, RetryAssumption, PurseIsNat
  <1>5. /\ DepositAmount * Cardinality(Calling(h)') \in Nat
        /\ DepositAmount * Cardinality(Calling(h)) \in Nat
        /\ WithdrawAmount * paid[h] \in Nat
        /\ Purse * Cardinality(BudgetsOf(h)) \in Nat
        /\ DepositAmount * calls[h] \in Nat
    <2>1. Cardinality(BudgetsOf(h)) \in Nat
      BY HostCounts
    <2>2. QED
      BY <1>2, <1>3, <2>1, TimesNext, RetryAssumption, PurseIsNat
  <1>6. budgets' = budgets /\ paid' = paid /\ calls' = calls
        /\ BudgetsOf(h)' = BudgetsOf(h)
    BY DEF shared, BudgetsOf
  <1>7. Covered(h, f[Len(budgets)])'
    BY <1>1, <1>2, <1>4, <1>5, <1>6, PurseIsNat DEF Covered
  <1>8. QED
    BY <1>1, <1>6, <1>7

(* A call brings the deposit that it may make.                             *)
LEMMA CallKeepsCover ==
  ASSUME TypeOK, RetriesAreCovered, NEW r \in Requests, NEW g \in Hosts,
         NEW c \in BOOLEAN, ~InCall(r), Call(r, g, c)
  PROVE  RetriesAreCovered'
  <1> SUFFICES ASSUME NEW h \in Hosts
               PROVE  \E f : Tallies(f, budgets', h)
                             /\ Covered(h, f[Len(budgets)])'
    BY DEF RetriesAreCovered
  <1>1. PICK f : Tallies(f, budgets, h) /\ Covered(h, f[Len(budgets)])
    BY DEF RetriesAreCovered
  <1>2. /\ f[Len(budgets)] \in Nat
        /\ paid[h] \in Nat /\ calls[h] \in Nat
    <2>1. Len(budgets) \in Nat
      BY LenProperties DEF TypeOK
    <2>2. QED
      BY SMTT(30), <1>1, <2>1 DEF Tallies, TypeOK
  <1>3. /\ IsFiniteSet(Calling(h)) /\ Cardinality(Calling(h)) \in Nat
        /\ Cardinality(BudgetsOf(h)) \in Nat
    BY HostCounts
  <1>4. budgets' = budgets /\ paid' = paid
        /\ BudgetsOf(h)' = BudgetsOf(h)
        /\ calls' = [calls EXCEPT ![g] = calls[g] + 1]
    BY DEF Call, BudgetsOf
  <1>5. Calling(h)' = IF h = g THEN Calling(h) \cup {r} ELSE Calling(h)
    BY DEF Call, Calling, InCall, TypeOK
  <1>6. r \notin Calling(h)
    BY DEF Calling
  <1>7. /\ WithdrawAmount * paid[h] \in Nat
        /\ Purse * Cardinality(BudgetsOf(h)) \in Nat
    BY <1>2, <1>3, TimesNext, RetryAssumption, PurseIsNat
  <1>8. Covered(h, f[Len(budgets)])'
    <2>1. CASE h = g
      <3>1. /\ Cardinality(Calling(h)') = Cardinality(Calling(h)) + 1
            /\ calls'[h] = calls[h] + 1
        <4>1. Cardinality(Calling(h) \cup {r}) = Cardinality(Calling(h)) + 1
          BY <1>3, <1>6, FS_AddElement
        <4>2. Calling(h)' = Calling(h) \cup {r}
          BY <1>5, <2>1
        <4>3. calls'[h] = calls[h] + 1
          BY <1>4, <2>1 DEF TypeOK
        <4>4. QED
          BY <4>1, <4>2, <4>3
      <3>2. /\ DepositAmount * Cardinality(Calling(h)')
                 = DepositAmount * Cardinality(Calling(h)) + DepositAmount
            /\ DepositAmount * calls'[h]
                 = DepositAmount * calls[h] + DepositAmount
            /\ DepositAmount * Cardinality(Calling(h)) \in Nat
            /\ DepositAmount * calls[h] \in Nat
        BY <1>2, <1>3, <3>1, TimesNext, RetryAssumption, PurseIsNat
      <3>3. f[Len(budgets)] + WithdrawAmount * paid[h]
                 + (DepositAmount * Cardinality(Calling(h)) + DepositAmount)
              <= Purse * Cardinality(BudgetsOf(h))
                 + (DepositAmount * calls[h] + DepositAmount)
        BY <1>1, <1>2, <1>7, <3>2, Rebalanced, RetryAssumption,
           PurseIsNat DEF Covered
      <3>4. QED
        BY <1>4, <3>2, <3>3 DEF Covered
    <2>2. CASE h # g
      <3>1. calls'[h] = calls[h]
        BY <1>4, <2>2 DEF TypeOK
      <3>2. QED
        BY <1>1, <1>4, <1>5, <2>2, <3>1 DEF Covered
    <2>3. QED
      BY <2>1, <2>2
  <1>9. QED
    BY <1>1, <1>4, <1>8

(* A new budget brings its reserve.                                        *)
LEMMA LookUpKeepsCover ==
  ASSUME IInv, RetriesAreCovered, NEW r \in Requests, LookUpBudget(r)
  PROVE  RetriesAreCovered'
  <1> SUFFICES ASSUME NEW h \in Hosts
               PROVE  \E f : Tallies(f, budgets', h)
                             /\ Covered(h, f[Len(budgets)])'
    BY DEF RetriesAreCovered
  <1>1. PICK f : Tallies(f, budgets, h) /\ Covered(h, f[Len(budgets)])
    BY DEF RetriesAreCovered
  <1>0. TypeOK
    BY DEF IInv
  <1>2. /\ budgets \in Seq(Funded) /\ Len(budgets) \in Nat
        /\ f[Len(budgets)] \in Nat
        /\ paid[h] \in Nat /\ calls[h] \in Nat /\ host[r] \in Hosts
    <2>1. budgets \in Seq(Funded) /\ Len(budgets) \in Nat
      BY BudgetsAreFunded, LenProperties
    <2>2. QED
      BY <1>0, <1>1, <2>1 DEF Tallies, TypeOK
  <1>3. paid' = paid /\ calls' = calls /\ Calling(h)' = Calling(h)
    BY <1>0 DEF LookUpBudget, perCall, Calling, InCall, TypeOK
  <1>4. CASE budgets' = budgets
    <2>1. BudgetsOf(h)' = BudgetsOf(h)
      BY <1>4 DEF BudgetsOf
    <2>2. QED
      BY <1>1, <1>3, <1>4, <2>1 DEF Covered
  <1>5. CASE budgets' = Append(budgets, [host |-> host[r], tokens |-> Reserve])
    <2>1. PICK e : /\ Tallies(e, budgets', h)
                   /\ e[Len(budgets')] = f[Len(budgets)]
                                 + (IF host[r] = h THEN Purse ELSE 0)
      BY <1>1, <1>2, <1>5, TallyAppended
    <2>2. /\ Len(budgets') = Len(budgets) + 1 /\ budgets' \in Seq(Funded)
          /\ \A i \in 1..Len(budgets) : budgets'[i] = budgets[i]
          /\ budgets'[Len(budgets) + 1].host = host[r]
      BY <1>2, <1>5, FundedAppended
    <2>3. /\ DOMAIN budgets = 1..Len(budgets)
          /\ DOMAIN budgets' = 1..(Len(budgets) + 1)
      BY <1>2, <2>2, LenProperties
    <2>4. /\ BudgetsOf(h)' = IF host[r] = h
                             THEN BudgetsOf(h) \cup {Len(budgets) + 1}
                             ELSE BudgetsOf(h)
          /\ Len(budgets) + 1 \notin BudgetsOf(h)
      <3>1. \A i \in 1..(Len(budgets) + 1) :
                i \in 1..Len(budgets) \/ i = Len(budgets) + 1
        BY <1>2
      <3>2. 1..Len(budgets) \subseteq 1..(Len(budgets) + 1)
            /\ Len(budgets) + 1 \notin 1..Len(budgets)
            /\ Len(budgets) + 1 \in 1..(Len(budgets) + 1)
        BY <1>2
      <3>3. QED
        BY <2>2, <2>3, <3>1, <3>2 DEF BudgetsOf
    <2>5. /\ IsFiniteSet(BudgetsOf(h)) /\ Cardinality(BudgetsOf(h)) \in Nat
          /\ Cardinality(Calling(h)) \in Nat
      BY <1>0, HostCounts
    <2>6. /\ WithdrawAmount * paid[h] \in Nat
          /\ DepositAmount * Cardinality(Calling(h)) \in Nat
          /\ DepositAmount * calls[h] \in Nat
      BY <1>2, <2>5, TimesNext, RetryAssumption
    <2>7. Covered(h, e[Len(budgets)])'
      <3>1. CASE host[r] = h
        <4>1. Cardinality(BudgetsOf(h)') = Cardinality(BudgetsOf(h)) + 1
          BY <2>4, <2>5, <3>1, FS_AddElement
        <4>2. /\ Purse * Cardinality(BudgetsOf(h)')
                   = Purse * Cardinality(BudgetsOf(h)) + Purse
              /\ Purse * Cardinality(BudgetsOf(h)) \in Nat
          BY <2>5, <4>1, TimesNext, RetryAssumption, PurseIsNat
        <4>3. (f[Len(budgets)] + Purse) + WithdrawAmount * paid[h]
                   + DepositAmount * Cardinality(Calling(h))
                <= (Purse * Cardinality(BudgetsOf(h)) + Purse)
                   + DepositAmount * calls[h]
          BY <1>1, <1>2, <2>6, <4>2, Rebalanced, RetryAssumption,
           PurseIsNat DEF Covered
        <4>4. e[Len(budgets')] = f[Len(budgets)] + Purse
          BY <2>1, <3>1
        <4>5. QED
          BY <1>3, <4>2, <4>3, <4>4 DEF Covered
      <3>2. CASE host[r] # h
        <4>1. e[Len(budgets')] = f[Len(budgets)]
          BY <1>2, <2>1, <3>2
        <4>2. QED
          BY <1>1, <1>3, <2>4, <3>2, <4>1 DEF Covered
      <3>3. QED
        BY <3>1, <3>2
    <2>8. QED
      BY <2>1, <2>7
  <1>6. QED
    BY <1>4, <1>5 DEF LookUpBudget, GetBudget

(* A deposit is paid for by the call that ends with it, a withdrawal by    *)
(* what was left.                                                          *)
LEMMA UseKeepsCover ==
  ASSUME IInv, RetriesAreCovered, NEW r \in Requests,
         Deposit(r) \/ Withdraw(r)
  PROVE  RetriesAreCovered'
  <1> SUFFICES ASSUME NEW h \in Hosts
               PROVE  \E f : Tallies(f, budgets', h)
                             /\ Covered(h, f[Len(budgets)])'
    BY DEF RetriesAreCovered
  <1> DEFINE b == arc[r]
             old == Left(budgets[b])
  <1>1. PICK f : Tallies(f, budgets, h) /\ Covered(h, f[Len(budgets)])
    BY DEF RetriesAreCovered
  <1>2. TypeOK
    BY DEF IInv
  <1>3. /\ budgets \in Seq(Funded) /\ Len(budgets) \in Nat
        /\ f[Len(budgets)] \in Nat
        /\ paid[h] \in Nat /\ calls[h] \in Nat /\ host[r] \in Hosts
    <2>1. budgets \in Seq(Funded) /\ Len(budgets) \in Nat
      BY BudgetsAreFunded, LenProperties
    <2>2. QED
      BY <1>1, <1>2, <2>1 DEF Tallies, TypeOK
  <1>4. /\ b \in 1..Len(budgets) /\ budgets[b].host = host[r]
        /\ budgets[b].tokens \in Int /\ old = budgets[b].tokens + Overdraft
        /\ old \in Nat /\ Overdraft \in Nat
    <2>1. b \in 1..Len(budgets) /\ budgets[b].host = host[r]
      BY InUse DEF Deposit, Withdraw
    <2>2. budgets[b] \in Funded
      BY <1>3, <2>1, ElementOfSeq
    <2>3. QED
      BY <2>1, <2>2, OverdraftCounts DEF Funded, Budget, Left
  <1>5. BudgetsOf(h)' = BudgetsOf(h)
    <2>1. /\ budgets' \in Seq(Budget) /\ Len(budgets') = Len(budgets)
          /\ \A j \in 1..Len(budgets) : budgets'[j].host = budgets[j].host
      BY BudgetUsed
    <2>2. DOMAIN budgets = 1..Len(budgets) /\ DOMAIN budgets' = 1..Len(budgets)
      BY <1>3, <2>1, LenProperties
    <2>3. QED
      BY <2>1, <2>2 DEF BudgetsOf
  <1>6. /\ IsFiniteSet(Calling(h)) /\ Cardinality(Calling(h)) \in Nat
        /\ Cardinality(BudgetsOf(h)) \in Nat
    BY <1>2, HostCounts
  <1>7. /\ Purse * Cardinality(BudgetsOf(h)) \in Nat
        /\ DepositAmount * calls[h] \in Nat
        /\ DepositAmount * Cardinality(Calling(h)) \in Nat
        /\ WithdrawAmount * paid[h] \in Nat
    BY SMTT(30), <1>3, <1>6, RetryAssumption, PurseIsNat
  <1>8. CASE Deposit(r)
    <2>a. PICK u \in Int : u = budgets[b].tokens + DepositAmount
      BY <1>4, RetryAssumption
    <2>b. /\ budgets' = [budgets EXCEPT ![b].tokens = u]
          /\ paid' = paid /\ calls' = calls
      BY <1>8, <2>a DEF Deposit
    <2>c. u + Overdraft = old + DepositAmount /\ u + Overdraft \in Nat
      <3> HIDE DEF old, b
      <3>1. QED
        BY <1>4, <2>a, RetryAssumption
    <2>1. /\ budgets' = [budgets EXCEPT ![b].tokens = u]
          /\ paid' = paid /\ calls' = calls
          /\ u + Overdraft = old + DepositAmount /\ u + Overdraft \in Nat
      BY <2>b, <2>c
    <2>2. Calling(h)' = Calling(h) \ {r}
          /\ (host[r] = h => r \in Calling(h))
          /\ (host[r] # h => r \notin Calling(h))
      BY <1>2, <1>8 DEF Deposit, perCall, Calling, InCall, TypeOK
    <2>3. PICK e : /\ Tallies(e, budgets', h)
                   /\ budgets[b].host = h =>
                        /\ e[Len(budgets')] = (f[Len(budgets)] - old)
                                              + (old + DepositAmount)
                        /\ old <= f[Len(budgets)]
                   /\ budgets[b].host # h =>
                        e[Len(budgets')] = f[Len(budgets)]
      <3>1. budgets' = Refilled(budgets, b, u)
        BY <2>1 DEF Refilled
      <3>2. PICK i \in 1..Len(budgets) : i = b
        BY <1>4
      <3>3. \E e : Retallied(f, e, budgets, i, u, h)
        BY <1>1, <1>3, <2>1, TallyRefilled
      <3>4. QED
        BY <2>1, <3>1, <3>2, <3>3 DEF Retallied
    <2>4. Covered(h, e[Len(budgets)])'
      <3>1. CASE host[r] = h
        <4>1. e[Len(budgets')] = f[Len(budgets)] + DepositAmount
          <5> HIDE DEF old
          <5>1. QED
            BY <1>3, <1>4, <2>3, <3>1, RetryAssumption
        <4>2. /\ Cardinality(Calling(h)') = Cardinality(Calling(h)) - 1
              /\ Cardinality(Calling(h)') \in Nat
          <5>1. IsFiniteSet(Calling(h) \ {r})
                /\ Cardinality(Calling(h) \ {r}) = Cardinality(Calling(h)) - 1
            BY <1>6, <2>2, <3>1, FS_RemoveElement
          <5>2. QED
            BY <2>2, <5>1, FS_CardinalityType
        <4>3. DepositAmount * Cardinality(Calling(h))
                = DepositAmount * Cardinality(Calling(h)') + DepositAmount
              /\ DepositAmount * Cardinality(Calling(h)') \in Nat
          <5>1. Cardinality(Calling(h)) = Cardinality(Calling(h)') + 1
            BY <1>6, <4>2
          <5>2. QED
            BY <4>2, <5>1, TimesNext, RetryAssumption, PurseIsNat
        <4>4. QED
          BY SMTT(30), <1>1, <1>3, <1>5, <1>7, <2>1, <4>1, <4>3,
             RetryAssumption, PurseIsNat DEF Covered
      <3>2. CASE host[r] # h
        <4>1. e[Len(budgets')] = f[Len(budgets)] /\ Calling(h)' = Calling(h)
          BY <1>4, <2>2, <2>3, <3>2
        <4>2. QED
          BY <1>1, <1>5, <2>1, <4>1 DEF Covered
      <3>3. QED
        BY <3>1, <3>2
    <2>5. QED
      BY <2>3, <2>4
  <1>9. CASE Withdraw(r)
    <2>a. PICK u \in Int : u = budgets[b].tokens - WithdrawAmount
      BY <1>4, RetryAssumption
    <2>b. /\ budgets' = [budgets EXCEPT ![b].tokens = u]
          /\ paid' = [paid EXCEPT ![host[r]] = paid[host[r]] + 1]
          /\ calls' = calls
      BY <1>9, <2>a DEF Withdraw
    <2>c. budgets'[b].tokens = u /\ b \in DOMAIN budgets'
      <3>1. budgets[b] \in Budget /\ DOMAIN budgets = 1..Len(budgets)
        BY <1>3, <1>4, ElementOfSeq, LenProperties DEF Funded
      <3>2. QED
        BY <1>4, <2>b, <3>1 DEF Budget
    <2>d. u + Overdraft \in Nat
      <3>0. PICK i \in DOMAIN budgets' : i = b
        BY <2>c
      <3>1. WithdrawAmount * Cardinality(Granted(i)') <= u + Overdraft
        <4>1. OverdraftIsBounded' /\ Overdraft' = Overdraft
          BY <1>9, UseKeepsRoom DEF Overdraft
        <4>2. WithdrawAmount * Cardinality(Granted(i)')
                  <= budgets'[i].tokens + Overdraft
          BY <4>1 DEF OverdraftIsBounded
        <4>3. QED
          BY <2>c, <3>0, <4>2
      <3>2. WithdrawAmount * Cardinality(Granted(i)') \in Nat
        <4>1. Granted(i)' \subseteq Requests
          BY DEF Granted
        <4>2. Cardinality(Granted(i)') \in Nat
          BY <4>1, FS_Subset, FS_CardinalityType, RetryAssumption
        <4>3. QED
          BY <4>2, TimesNext, RetryAssumption
      <3>3. QED
        BY <1>4, <3>1, <3>2
    <2>1. u + Overdraft = old - WithdrawAmount
      <3> HIDE DEF old, b
      <3>1. QED
        BY <1>4, <2>a, RetryAssumption
    <2>2. Calling(h)' = Calling(h)
      BY <1>2, <1>9 DEF Withdraw, CountRetry, perCall, Calling, InCall, TypeOK
    <2>3. PICK e : /\ Tallies(e, budgets', h)
                   /\ budgets[b].host = h =>
                        /\ e[Len(budgets')] = (f[Len(budgets)] - old)
                                              + (old - WithdrawAmount)
                        /\ old <= f[Len(budgets)]
                   /\ budgets[b].host # h =>
                        e[Len(budgets')] = f[Len(budgets)]
      <3>1. budgets' = Refilled(budgets, b, u)
        BY <2>b DEF Refilled
      <3>2. PICK i \in 1..Len(budgets) : i = b
        BY <1>4
      <3>3. \E e : Retallied(f, e, budgets, i, u, h)
        BY <1>1, <1>3, <2>d, TallyRefilled
      <3>4. QED
        BY <2>1, <3>1, <3>2, <3>3 DEF Retallied
    <2>4. Covered(h, e[Len(budgets)])'
      <3>1. CASE host[r] = h
        <4>1. e[Len(budgets')] = f[Len(budgets)] - WithdrawAmount
          <5> HIDE DEF old
          <5>1. QED
            BY <1>3, <1>4, <2>3, <3>1, RetryAssumption
        <4>2. paid'[h] = paid[h] + 1
          BY <1>2, <2>b, <3>1 DEF TypeOK
        <4>3. WithdrawAmount * paid'[h]
                = WithdrawAmount * paid[h] + WithdrawAmount
          BY <1>3, <4>2, TimesNext, RetryAssumption, PurseIsNat
        <4>4. QED
          BY SMTT(30), <1>1, <1>3, <1>5, <1>7, <2>b, <2>2, <4>1, <4>3,
             RetryAssumption, PurseIsNat DEF Covered
      <3>2. CASE host[r] # h
        <4>1. e[Len(budgets')] = f[Len(budgets)] /\ paid'[h] = paid[h]
          BY <1>2, <1>4, <2>b, <2>3, <3>2 DEF TypeOK
        <4>2. QED
          BY <1>1, <1>5, <2>b, <2>2, <4>1 DEF Covered
      <3>3. QED
        BY <3>1, <3>2
    <2>5. QED
      BY <2>3, <2>4
  <1>10. QED
    BY <1>8, <1>9

(* No step spends what is not there.                                       *)
LEMMA CoverPreserved ==
  IInv /\ RetriesAreCovered /\ [Next]_vars => RetriesAreCovered'
  <1> SUFFICES ASSUME IInv, RetriesAreCovered, [Next]_vars
               PROVE  RetriesAreCovered'
    OBVIOUS
  <1>1. TypeOK
    BY DEF IInv
  <1>2. ASSUME NEW r \in Requests, Send(r) \/ Redirect(r)
        PROVE  RetriesAreCovered'
    <2>1. ~InCall(r)
      BY <1>2 DEF Send, Redirect, InCall
    <2>2. \E h \in Hosts, c \in BOOLEAN : Call(r, h, c)
      BY <1>1, <1>2 DEF Send, Redirect, TypeOK
    <2>3. QED
      BY <1>1, <2>1, <2>2, CallKeepsCover
  <1>3. ASSUME NEW r \in Requests,
               \/ Attempted(r) \/ Accept(r) \/ GiveUp(r)
               \/ RetryUnbudgeted(r) \/ CheckBudget(r) \/ OverBudget(r)
               \/ Resend(r) \/ Drop(r)
        PROVE  RetriesAreCovered'
    <2>1. UNCHANGED shared /\ host' = host
      BY <1>3 DEF Attempted, Accept, GiveUp, RetryUnbudgeted, CheckBudget,
                  OverBudget, Resend, Drop, perCall
    <2>2. \A q \in Requests : InCall(q)' => InCall(q)
      BY <1>1, <1>3 DEF Attempted, Accept, GiveUp, RetryUnbudgeted, CountRetry,
                        CheckBudget, OverBudget, Resend, Drop, InCall, TypeOK
    <2>3. \A h \in Hosts : Calling(h)' \subseteq Calling(h)
      BY <2>1, <2>2 DEF Calling
    <2>4. QED
      BY <1>1, <2>1, <2>3, QuietKeepsCover
  <1>4. CASE UNCHANGED vars
    <2>1. UNCHANGED shared /\ \A h \in Hosts : Calling(h)' = Calling(h)
      BY <1>4 DEF vars, shared, Calling, InCall
    <2>2. QED
      BY <1>1, <2>1, QuietKeepsCover
  <1>5. QED
    BY <1>1, <1>2, <1>3, <1>4, LookUpKeepsCover, UseKeepsCover
    DEF Next, Step, Quiescent

LEMMA TimesDifference ==
  ASSUME NEW t \in Nat, NEW a \in Nat, NEW b \in Nat
  PROVE  t * (a - b) = t * a - t * b
  OBVIOUS

(* The retries that a host's budgets granted never cost more than the      *)
(* reserves, the overdrafts and the deposits of the calls to it that have  *)
(* ended, for any requests, hosts, reserve and ratio, in any order of the  *)
(* lookups, deposits, resets of the map, and of the comparison and the     *)
(* subtraction of each withdrawal (TpsBudget, Budgets::get).               *)
THEOREM LoadIsBounded == Spec => []AmplificationBound
  <1>1. IInv /\ RetriesAreCovered => AmplificationBound
    <2> SUFFICES ASSUME IInv, RetriesAreCovered, NEW h \in Hosts
                 PROVE  WithdrawAmount * paid[h]
                          <= Purse * Cardinality(BudgetsOf(h))
                             + DepositAmount
                                 * (calls[h] - Cardinality(Calling(h)))
      BY DEF AmplificationBound, Purse
    <2>1. PICK f : Tallies(f, budgets, h) /\ Covered(h, f[Len(budgets)])
      BY DEF RetriesAreCovered
    <2>2. TypeOK
      BY DEF IInv
    <2>3. /\ f[Len(budgets)] \in Nat
          /\ paid[h] \in Nat /\ calls[h] \in Nat
          /\ Cardinality(BudgetsOf(h)) \in Nat
          /\ Cardinality(Calling(h)) \in Nat
      <3>1. Len(budgets) \in Nat
        BY <2>2, LenProperties DEF TypeOK
      <3>2. QED
        BY <2>1, <2>2, <3>1, HostCounts DEF Tallies, TypeOK
    <2>4. /\ DepositAmount * Cardinality(Calling(h)) \in Nat
          /\ WithdrawAmount * paid[h] \in Nat
          /\ Purse * Cardinality(BudgetsOf(h)) \in Nat
          /\ DepositAmount * calls[h] \in Nat
      BY <2>3, TimesNext, RetryAssumption, PurseIsNat
    <2>5. DepositAmount * (calls[h] - Cardinality(Calling(h)))
              = DepositAmount * calls[h]
                - DepositAmount * Cardinality(Calling(h))
      BY <2>3, TimesDifference, RetryAssumption
    <2>6. QED
      BY <2>1, <2>3, <2>4, <2>5 DEF Covered
  <1>2. QED
    BY <1>1, RetryInvariant, InitiallyCovered, CoverPreserved, PTL DEF Spec
=============================================================================
