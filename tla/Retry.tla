-------------------------------- MODULE Retry --------------------------------
(***************************************************************************)
(* Retries: src/retry.rs, driven by tower's Retry service (external) for   *)
(* every call that FollowRedirect (external) makes, one per hop.           *)
(*                                                                         *)
(* Requests run concurrently and share the Arc'd map of per-host budgets;  *)
(* Budgets::get, deposit and the two halves of withdraw, which compares    *)
(* and then subtracts, are separate atomic steps.                          *)
(* Delays are abstracted to whether the request lives long enough; module  *)
(* Deadlines has the clock.  The budgets' rolling window (10 s) is taken   *)
(* to be longer than the behaviour.                                        *)
(***************************************************************************)
EXTENDS Integers, Sequences, FiniteSets

CONSTANTS Requests,       \* requests the caller sends
          Hosts,          \* authorities
          MaxRetries,     \* max_retries_per_request
          MaxHosts,       \* MAX_HOSTS
          Reserve,        \* tokens a new budget starts with
          DepositAmount,  \* tokens TpsBudget adds per deposit
          WithdrawAmount, \* tokens TpsBudget takes per retry
          RetryTransient, \* retry_transient_transport_errors
          MaxHops         \* bound: redirects followed per request

ASSUME RetryAssumption ==
    /\ MaxRetries \in Nat /\ MaxHosts \in Nat \ {0} /\ Reserve \in Nat
    /\ DepositAmount \in Nat /\ WithdrawAmount \in Nat \ {0}
    /\ RetryTransient \in BOOLEAN /\ MaxHops \in Nat
    /\ IsFiniteSet(Requests) /\ Requests # {}

(* What an attempt comes to, as the policy tells results apart: a response *)
(* or error the classifier accepts, one it calls retryable, and a failure  *)
(* the protocol says was not processed (is_retryable_error).               *)
Results == {"success", "retryable", "nack"}

VARIABLES hasBudget,  \* the client's policy has a budget
          pc,         \* where each request's tower ResponseFuture is
          host,       \* the authority each request goes to
          replayable, \* in scope, and its body can be cloned
          held,       \* tower holds a clone to resend
          total,      \* total_retry_cnt of this call's Policy
          app,        \* application_retry_cnt of this call's Policy
          result,     \* what the last attempt came to
          arc,        \* the Arc<TpsBudget> that Budgets::get returned, or 0
          hosts,      \* Budgets.hosts: the index in budgets of a host's, or 0
          budgets,    \* every TpsBudget made, in order
          hops,       \* history: redirects followed per request
          retries,    \* history: attempts resent per request, over all hops
          calls,      \* history: Retry calls made to each host
          paid        \* history: budgeted retries granted to each host

vars == <<hasBudget, pc, host, replayable, held, total, app, result, arc,
          hosts, budgets, hops, retries, calls, paid>>

(* What changes only from one call to the next, if at all.                 *)
perCall == <<hasBudget, host, replayable, hops>>
shared == <<hosts, budgets, calls, paid>>

PCs == {"new", "called", "judged", "depositing", "withdrawing", "granted",
        "sleeping", "over", "dropped"}

TypeOK ==
    /\ hasBudget \in BOOLEAN
    /\ pc \in [Requests -> PCs]
    /\ host \in [Requests -> Hosts]
    /\ replayable \in [Requests -> BOOLEAN]
    /\ held \in [Requests -> BOOLEAN]
    /\ total \in [Requests -> 0..MaxRetries]
    /\ app \in [Requests -> 0..MaxRetries]
    /\ result \in [Requests -> Results]
    /\ arc \in [Requests -> 0..Len(budgets)]
    /\ hosts \in [Hosts -> 0..Len(budgets)]
    /\ budgets \in Seq([host : Hosts, tokens : Int])
    /\ hops \in [Requests -> 0..MaxHops]
    /\ retries \in [Requests -> Nat]
    /\ calls \in [Hosts -> Nat]
    /\ paid \in [Hosts -> Nat]

Init ==
    /\ hasBudget \in BOOLEAN
    /\ pc = [r \in Requests |-> "new"]
    /\ host \in [Requests -> Hosts]
    /\ replayable \in [Requests -> BOOLEAN]
    /\ held = [r \in Requests |-> FALSE]
    /\ total = [r \in Requests |-> 0]
    /\ app = [r \in Requests |-> 0]
    /\ result = [r \in Requests |-> "success"]
    /\ arc = [r \in Requests |-> 0]
    /\ hosts = [h \in Hosts |-> 0]
    /\ budgets = << >>
    /\ hops = [r \in Requests |-> 0]
    /\ retries = [r \in Requests |-> 0]
    /\ calls = [h \in Hosts |-> 0]
    /\ paid = [h \in Hosts |-> 0]

-----------------------------------------------------------------------------
(* Policy::clone_request with n retries made.                              *)
Clones(canReplay, n) == canReplay /\ n < MaxRetries

(* Retry::call: clone the request first, with a fresh copy of the policy.  *)
Call(r, h, canReplay) ==
    /\ pc' = [pc EXCEPT ![r] = "called"]
    /\ host' = [host EXCEPT ![r] = h]
    /\ replayable' = [replayable EXCEPT ![r] = canReplay]
    /\ held' = [held EXCEPT ![r] = Clones(canReplay, 0)]
    /\ total' = [total EXCEPT ![r] = 0]
    /\ app' = [app EXCEPT ![r] = 0]
    /\ calls' = [calls EXCEPT ![h] = @ + 1]
    /\ UNCHANGED <<hasBudget, result, arc, hosts, budgets, retries, paid>>

Send(r) ==
    /\ pc[r] = "new"
    /\ Call(r, host[r], replayable[r])
    /\ UNCHANGED hops

(* The attempt ends.  Without a clone tower returns the result unjudged.   *)
Attempted(r) ==
    /\ pc[r] = "called"
    /\ \E res \in Results : result' = [result EXCEPT ![r] = res]
    /\ pc' = [pc EXCEPT ![r] = IF held[r] THEN "judged" ELSE "over"]
    /\ UNCHANGED <<perCall, held, total, app, arc, retries, shared>>

(* Policy::retry_kind with a classifier that may also retry on errors.     *)
Kind(r) ==
    CASE result[r] = "nack" /\ RetryTransient -> "TransientTransport"
      [] result[r] = "retryable"              -> "Application"
      [] OTHER                                -> "None"

(* Policy::retry, nothing to retry and no budget to deposit into.          *)
Accept(r) ==
    /\ pc[r] = "judged"
    /\ Kind(r) = "None"
    /\ ~hasBudget
    /\ pc' = [pc EXCEPT ![r] = "over"]
    /\ UNCHANGED <<perCall, held, total, app, result, arc, retries, shared>>

(* Policy::retry returns None for a retryable result: the limit is         *)
(* reached, or the delay would outlive the request.                        *)
GiveUp(r) ==
    /\ pc[r] = "judged"
    /\ Kind(r) # "None"
    /\ total[r] < MaxRetries => Kind(r) = "Application"
    /\ pc' = [pc EXCEPT ![r] = "over"]
    /\ UNCHANGED <<perCall, held, total, app, result, arc, retries, shared>>

(* Defect: each kind of retry has a count, but only one has a limit.       *)
CountRetryByKind(r, kind) ==
    /\ total' = [total EXCEPT ![r] = IF kind = "Application" THEN @ + 1 ELSE @]
    /\ app' = [app EXCEPT ![r] = IF kind = "Application" THEN @ + 1 ELSE @]
    /\ pc' = [pc EXCEPT ![r] = "sleeping"]

(* Policy::retry says yes: count the retry and wait for the Delay.         *)
CountRetry(r, kind) ==
    /\ total' = [total EXCEPT ![r] = @ + 1]
    /\ app' = [app EXCEPT ![r] = IF kind = "Application" THEN @ + 1 ELSE @]
    /\ pc' = [pc EXCEPT ![r] = "sleeping"]

(* A transient transport failure, or any retry when there is no budget,    *)
(* is granted at once.                                                     *)
RetryUnbudgeted(r) ==
    /\ pc[r] = "judged"
    /\ Kind(r) # "None"
    /\ Kind(r) = "Application" => ~hasBudget
    /\ total[r] < MaxRetries
    /\ CountRetry(r, Kind(r))
    /\ UNCHANGED <<perCall, held, result, arc, retries, shared>>

Tracked == {h \in Hosts : hosts[h] # 0}

(* Defect: a reset gives the slots of the budgets it forgets to others     *)
(* while requests still use them.                                          *)
GetBudgetInSlot(r, h) ==
    LET found == hosts[h] # 0
        full == ~found /\ Cardinality(Tracked) >= MaxHosts
        b == IF found THEN hosts[h] ELSE IF full THEN 1 ELSE Len(budgets) + 1
        new == [host |-> h, tokens |-> Reserve]
        kept == IF full THEN [g \in Hosts |-> 0] ELSE hosts
    IN /\ budgets' = IF found THEN budgets
                     ELSE Append(IF full THEN << >> ELSE budgets, new)
       /\ hosts' = [kept EXCEPT ![h] = b]
       /\ arc' = [arc EXCEPT ![r] = b]

(* Budgets::get for host h: the host's budget if there is one; else a new  *)
(* one, after forgetting every host if there are too many.                 *)
GetBudget(r, h) ==
    IF hosts[h] # 0
    THEN /\ arc' = [arc EXCEPT ![r] = hosts[h]]
         /\ UNCHANGED <<hosts, budgets>>
    ELSE LET b == Len(budgets) + 1
             kept == IF Cardinality(Tracked) >= MaxHosts
                     THEN [g \in Hosts |-> 0] ELSE hosts
         IN /\ budgets' = Append(budgets, [host |-> h, tokens |-> Reserve])
            /\ hosts' = [kept EXCEPT ![h] = b]
            /\ arc' = [arc EXCEPT ![r] = b]

(* Policy::retry gets the host's budget, to deposit for a result that is   *)
(* not retried or to withdraw for one that may be; the map's mutex is      *)
(* released before the budget is used.                                     *)
LookUpBudget(r) ==
    /\ pc[r] = "judged"
    /\ hasBudget
    /\ Kind(r) # "TransientTransport"
    /\ Kind(r) = "Application" => total[r] < MaxRetries
    /\ GetBudget(r, host[r])
    /\ pc' = [pc EXCEPT ![r] = IF Kind(r) = "None" THEN "depositing"
                                                  ELSE "withdrawing"]
    /\ UNCHANGED <<perCall, held, total, app, result, retries, calls, paid>>

(* TpsBudget::deposit.                                                     *)
Deposit(r) ==
    /\ pc[r] = "depositing"
    /\ budgets' = [budgets EXCEPT ![arc[r]].tokens = @ + DepositAmount]
    /\ arc' = [arc EXCEPT ![r] = 0]
    /\ pc' = [pc EXCEPT ![r] = "over"]
    /\ UNCHANGED <<perCall, held, total, app, result, retries, hosts, calls,
                   paid>>

(* TpsBudget::withdraw first sums its atomics and compares: the retry is   *)
(* granted when the tokens suffice,                                        *)
CheckBudget(r) ==
    /\ pc[r] = "withdrawing"
    /\ budgets[arc[r]].tokens >= WithdrawAmount
    /\ pc' = [pc EXCEPT ![r] = "granted"]
    /\ UNCHANGED <<perCall, held, total, app, result, arc, retries, shared>>

(* ... and paid for by a fetch_add later, whatever is left by then.        *)
Withdraw(r) ==
    /\ pc[r] = "granted"
    /\ budgets' = [budgets EXCEPT ![arc[r]].tokens = @ - WithdrawAmount]
    /\ arc' = [arc EXCEPT ![r] = 0]
    /\ paid' = [paid EXCEPT ![host[r]] = @ + 1]
    /\ CountRetry(r, "Application")
    /\ UNCHANGED <<perCall, held, result, retries, hosts, calls>>

(* Defect: what withdraw answers is ignored.                               *)
OverBudgetIgnored(r) ==
    /\ pc[r] = "withdrawing"
    /\ budgets[arc[r]].tokens < WithdrawAmount
    /\ arc' = [arc EXCEPT ![r] = 0]
    /\ paid' = [paid EXCEPT ![host[r]] = @ + 1]
    /\ CountRetry(r, "Application")
    /\ UNCHANGED <<perCall, held, result, retries, hosts, budgets, calls>>

(* Defect: the request waits for the budget to fill up.                    *)
OverBudgetWaits(r) ==
    /\ pc[r] = "withdrawing"
    /\ budgets[arc[r]].tokens < WithdrawAmount
    /\ UNCHANGED vars

(* When they do not suffice, the result is returned as it is.              *)
OverBudget(r) ==
    /\ pc[r] = "withdrawing"
    /\ budgets[arc[r]].tokens < WithdrawAmount
    /\ arc' = [arc EXCEPT ![r] = 0]
    /\ pc' = [pc EXCEPT ![r] = "over"]
    /\ UNCHANGED <<perCall, held, total, app, result, retries, shared>>

(* The delay is over: tower asks for the next clone, then resends the one  *)
(* it held.                                                                *)
Resend(r) ==
    /\ pc[r] = "sleeping"
    /\ held' = [held EXCEPT ![r] = Clones(replayable[r], total[r])]
    /\ retries' = [retries EXCEPT ![r] = @ + 1]
    /\ pc' = [pc EXCEPT ![r] = "called"]
    /\ UNCHANGED <<perCall, total, app, result, arc, shared>>

(* FollowRedirect follows an accepted response that is a redirect: a new   *)
(* call of the stack below it, perhaps to another host or without a body.  *)
Redirect(r) ==
    /\ pc[r] = "over"
    /\ result[r] = "success"
    /\ hops[r] < MaxHops
    /\ \E h \in Hosts, canReplay \in BOOLEAN : Call(r, h, canReplay)
    /\ hops' = [hops EXCEPT ![r] = @ + 1]

(* The caller's total or read timeout drops the future at an await.        *)
Drop(r) ==
    /\ pc[r] \in {"called", "sleeping"}
    /\ pc' = [pc EXCEPT ![r] = "dropped"]
    /\ UNCHANGED <<perCall, held, total, app, result, arc, retries, shared>>

Step(r) ==
    \/ Attempted(r)
    \/ Accept(r)
    \/ GiveUp(r)
    \/ RetryUnbudgeted(r)
    \/ LookUpBudget(r)
    \/ Deposit(r)
    \/ CheckBudget(r)
    \/ Withdraw(r)
    \/ OverBudget(r)
    \/ Resend(r)

(* Every call is over and nobody follows a redirect any more.              *)
Quiescent ==
    /\ \A r \in Requests : pc[r] \in {"over", "dropped"}
    /\ UNCHANGED vars

Next ==
    \/ \E r \in Requests : Send(r) \/ Step(r) \/ Redirect(r) \/ Drop(r)
    \/ Quiescent

Spec == Init /\ [][Next]_vars

(* The runtime polls a future whose attempt or delay has ended, and every  *)
(* attempt ends.                                                           *)
Fairness == \A r \in Requests : WF_vars(Step(r))

FairSpec == Spec /\ Fairness

-----------------------------------------------------------------------------
(* Properties.                                                             *)

InCall(r) == pc[r] \notin {"new", "over", "dropped"}

(* Where a request holds the Arc of a budget.                              *)
UsesBudget == {"depositing", "withdrawing", "granted"}

(* The policy's two checks agree: tower only holds a clone, and the policy *)
(* is only asked about a result, while another retry is allowed.  So the   *)
(* answer to the last allowed attempt is returned unjudged: it is neither  *)
(* retried nor deposited.                                                  *)
LastAttemptIsUnjudged ==
    \A r \in Requests :
        pc[r] \in UsesBudget \cup {"judged"} => total[r] < MaxRetries

(* "All retry kinds share this limit": within one call no mix of retries   *)
(* makes more than MaxRetries, every one of them was of one kind, and a    *)
(* request out of scope or with a streaming body is never sent again.      *)
SharedLimit ==
    \A r \in Requests :
        /\ total[r] <= IF replayable[r] THEN MaxRetries ELSE 0
        /\ app[r] <= total[r]
        /\ hops[r] = 0 => retries[r] \in {total[r], total[r] - 1}

(* However requests to many hosts interleave, the map never tracks more    *)
(* than MAX_HOSTS, and tracks each under its own budget.                   *)
HostsBounded ==
    /\ Cardinality(Tracked) <= MaxHosts
    /\ \A h \in Tracked : budgets[hosts[h]].host = h

(* "One failing host can't spend the retry allowance of the others": the   *)
(* budget a request is about to use is its own host's, even if the map was *)
(* reset, or its host got a new budget, since it looked.                   *)
BudgetIsOwnHosts ==
    \A r \in Requests :
        pc[r] \in UsesBudget => arc[r] # 0 /\ budgets[arc[r]].host = host[r]

BudgetsOf(h) == {b \in DOMAIN budgets : budgets[b].host = h}

(* What a budget can be overdrawn by: as many withdrawals as there are     *)
(* other requests, each of which compared before the others subtracted.    *)
Overdraft == WithdrawAmount * (Cardinality(Requests) - 1)

(* The calls to a host that may still make a deposit.                      *)
Calling(h) == {r \in Requests : InCall(r) /\ host[r] = h}

(* The load retries add to a host is bounded by a share of the calls to it *)
(* that have ended, whichever requests those were, and by what each of its *)
(* budgets has in reserve and may be overdrawn by, whatever comes between  *)
(* the comparisons and the subtractions.  More than one budget counts only *)
(* if the map was reset.                                                   *)
AmplificationBound ==
    \A h \in Hosts :
        WithdrawAmount * paid[h]
            <= (Reserve + Overdraft) * Cardinality(BudgetsOf(h))
               + DepositAmount * (calls[h] - Cardinality(Calling(h)))

(* A host the map tracks never gets a second budget: only a reset of the   *)
(* map for want of room gives one away.                                    *)
TrackedHostKeepsBudget ==
    [][\A h \in Tracked : BudgetsOf(h)' = BudgetsOf(h)]_vars

(* A call ends however often its attempts fail.                            *)
EveryCallEnds ==
    \A r \in Requests : pc[r] = "called" ~> ~InCall(r)

-----------------------------------------------------------------------------
(* The inductive invariant behind the safety properties.                   *)

(* What the counts and the clone that is held say, by where a call is.     *)
CountsOf(r) ==
    /\ held[r] => replayable[r]
    /\ held[r] /\ pc[r] \notin {"sleeping", "dropped"} =>
          total[r] < MaxRetries
    /\ pc[r] \in UsesBudget \cup {"judged"} => held[r]
    /\ pc[r] = "sleeping" => replayable[r] /\ total[r] > 0
    /\ ~replayable[r] => total[r] = 0
    /\ app[r] <= total[r]
    /\ pc[r] = "new" => ~held[r] /\ total[r] = 0 /\ retries[r] = 0
    /\ hops[r] = 0 =>
          CASE pc[r] = "sleeping" -> retries[r] = total[r] - 1
            [] pc[r] = "dropped"  -> retries[r] \in {total[r], total[r] - 1}
            [] OTHER              -> retries[r] = total[r]

(* The requests that passed the comparison of budget b and will take from  *)
(* it; there is always room for them, so no budget is overdrawn by more    *)
(* than a withdrawal of every other request.                               *)
Granted(b) == {r \in Requests : pc[r] = "granted" /\ arc[r] = b}

OverdraftIsBounded ==
    \A b \in DOMAIN budgets :
        WithdrawAmount * Cardinality(Granted(b))
            <= budgets[b].tokens + Overdraft

CountsByPc == \A r \in Requests : CountsOf(r)

IInv ==
    /\ TypeOK
    /\ CountsByPc
    /\ IsFiniteSet(Tracked)
    /\ HostsBounded
    /\ BudgetIsOwnHosts
    /\ OverdraftIsBounded
=============================================================================
