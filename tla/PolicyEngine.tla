---------------------------- MODULE PolicyEngine ----------------------------
(***************************************************************************)
(* The decisions of runner/src/automation/policy-engine.mjs as operators   *)
(* over an operator configuration (runner/src/config/state-schema.mjs).    *)
(*                                                                         *)
(* Kept: the pause fields and the kill switch, the rolling 24 hour budget  *)
(* and the daily number of cycles over the ledgers, the digest that binds  *)
(* a reservation to the policy it was made under, its expiry, and manual   *)
(* approvals.  cycleLedger and spendLedger always grow together, by one    *)
(* entry each, and are one ledger here; paused and executionPaused, which  *)
(* every command sets together, are one flag.  The caps on one cycle's     *)
(* cost, on custody and on packs compare one input with one bound and      *)
(* appear as refusals of the caller.                                       *)
(***************************************************************************)
EXTENDS Integers, Sequences, FiniteSets, Functions

CONSTANTS
    Cycle,
    Cost(_),     \* releaseCostMicroUsd of a cycle
    Policies,    \* policyMaterial: [budget, cycles, approvals]
    Window       \* POLICY_WINDOW_MS

\* max24HourBudgetMicroUsd, maxCyclesPerDay and manualApprovalCycles.
Policy == [budget : Nat, cycles : Nat, approvals : Nat]

ASSUME PolicyAssumption ==
    /\ Policies \subseteq Policy
    /\ \A c \in Cycle : Cost(c) \in Nat
    /\ Window \in Nat \ {0}

\* A digest is as good as what it digests.
Digest == [cycle : Cycle, policy : Policies]

Entry == [cycle : Cycle, digest : Digest, at : Int]

Configuration ==
    [paused : BOOLEAN, killSwitch : BOOLEAN, policy : Policies,
     ledger : Seq(Entry), approved : SUBSET Digest]

DeriveDigest(conf, c) == [cycle |-> c, policy |-> conf.policy]

\* Entries of the ledger in the trailing window at time t.  An entry of the
\* future does not count.
WithinTrailingWindow(conf, t) ==
    {i \in DOMAIN conf.ledger :
        LET at == conf.ledger[i].at IN t >= at /\ t - at < Window}

\* releaseCostMicroUsd of the entries, by their place.
Costs(conf) == [i \in DOMAIN conf.ledger |-> Cost(conf.ledger[i].cycle)]

SpendInWindow(conf, t) == SumFunctionOnSet(Costs(conf), WithinTrailingWindow(conf, t))

\* The place of cycle c in the ledger, as a set of at most one index.
Existing(conf, c) == {i \in DOMAIN conf.ledger : conf.ledger[i].cycle = c}

\* Place of c among the cycles opened so far, or the next one.
Ordinal(conf, c) ==
    IF Existing(conf, c) = {} THEN Len(conf.ledger) + 1
                              ELSE CHOOSE i \in Existing(conf, c) : TRUE

ApprovalMissing(conf, c) ==
    /\ Ordinal(conf, c) <= conf.policy.approvals
    /\ DeriveDigest(conf, c) \notin conf.approved

Halted(conf) == conf.killSwitch \/ conf.paused

\* The entry of c was made under the policy in force.
DigestMatches(conf, c) ==
    \A i \in Existing(conf, c) : conf.ledger[i].digest = DeriveDigest(conf, c)

Unexpired(conf, c, t) == Existing(conf, c) \subseteq WithinTrailingWindow(conf, t)

\* Boundary cycle-start.
CycleStartAllowed(conf, t) ==
    /\ ~Halted(conf)
    /\ Cardinality(WithinTrailingWindow(conf, t)) < conf.policy.cycles

\* Boundary claim-process.  A retry of a reserved cycle adds no spend.
ClaimAllowed(conf, c, t) ==
    /\ ~Halted(conf)
    /\ Existing(conf, c) = {} =>
          Cardinality(WithinTrailingWindow(conf, t)) < conf.policy.cycles
    /\ DigestMatches(conf, c)
    /\ Unexpired(conf, c, t)
    /\ SpendInWindow(conf, t) + (IF Existing(conf, c) = {} THEN Cost(c) ELSE 0)
          <= conf.policy.budget
    /\ ~ApprovalMissing(conf, c)

\* Execution boundary of the claim: the cycle must have been admitted.
ClaimExecutionAllowed(conf, c, t) ==
    /\ ClaimAllowed(conf, c, t)
    /\ Existing(conf, c) # {}

\* Boundary purchase.
PurchaseAllowed(conf, c, t) ==
    /\ ~Halted(conf)
    /\ Existing(conf, c) # {}
    /\ DigestMatches(conf, c)
    /\ Unexpired(conf, c, t)

\* Execution boundary of the other stages: no expiry.
ExistingExecutionAllowed(conf, c) ==
    /\ ~Halted(conf)
    /\ Existing(conf, c) # {}
    /\ DigestMatches(conf, c)
    /\ ~ApprovalMissing(conf, c)

\* Fault: a ledger is accepted in any order.
AnyOrder(ledger) == TRUE

\* assertOperatorConfiguration refuses a ledger that is not ordered by time.
Ordered(ledger) == \A i \in 1..(Len(ledger) - 1) : ledger[i].at <= ledger[i + 1].at

\* Fault: a retry reserves again.
ReserveAgain(conf, c, t) ==
    [conf EXCEPT !.ledger =
        Append(@, [cycle |-> c, digest |-> DeriveDigest(conf, c), at |-> t])]

\* reservationConfiguration
Reserve(conf, c, t) ==
    IF Existing(conf, c) # {} THEN conf
    ELSE [conf EXCEPT !.ledger =
             Append(@, [cycle |-> c, digest |-> DeriveDigest(conf, c), at |-> t])]

\* The commands of operator/control.mjs, as patches of the configuration.
Commands ==
    [type : {"pause", "resume", "kill"}]
      \cup [type : {"update-configuration"}, policy : Policies]
      \cup [type : {"manual-approval"}, digest : Digest]

Apply(conf, command) ==
    CASE command.type = "pause" -> [conf EXCEPT !.paused = TRUE]
      [] command.type = "resume" -> [conf EXCEPT !.paused = FALSE]
      [] command.type = "kill" -> [conf EXCEPT !.paused = TRUE, !.killSwitch = TRUE]
      [] command.type = "update-configuration" -> [conf EXCEPT !.policy = command.policy]
      [] command.type = "manual-approval" -> [conf EXCEPT !.approved = @ \cup {command.digest}]
=============================================================================
