----------------------------- MODULE PolicySetup -----------------------------
(***************************************************************************)
(* How a policy module comes into force.  Three scripts each propose one   *)
(* MultiSend batch to the Safe: setup-policy-module.mjs enables the first  *)
(* module, setup-policy-module-v2.mjs replaces it by V2 and configures     *)
(* that, and patch-policy-module-v2-addresses.mjs corrects the addresses   *)
(* V2 was configured with.  The owners execute what was proposed, in the   *)
(* order of the nonces, whenever they have signed.                         *)
(*                                                                         *)
(* A step of a script is the code between two awaits; a batch runs call by *)
(* call, and nothing else happens meanwhile.  V2 is PolicyEnforcedModule;  *)
(* what setup-policy-module.mjs configures in the first module is left out.*)
(* The two tokens and the two pools are told apart as targets only.        *)
(***************************************************************************)
EXTENDS PolicyEnforcedModule, Sequences, FiniteSetsExt

CONSTANTS
  V1, V2, Other,    \* Safe modules: the first, the second, anything else
  UsdcOld, PoolOld, UsdcNew, PoolNew, MultiSend,     \* targets
  approve, supply, withdraw,                         \* selectors of USDC and pools
  MaxNonce,         \* bound: transactions of the Safe
  MaxRuns,          \* bound: proposals posted
  MaxFaults         \* bound: reads of the queue that fail

ASSUME SetupAssumption ==
  /\ {UsdcOld, PoolOld, UsdcNew, PoolNew, MultiSend} \subseteq Targets
  /\ {approve, supply, withdraw} \subseteq Selectors
  /\ {UsdcOld, PoolOld} \cap {UsdcNew, PoolNew} = {}
  /\ V1 # V2 /\ Other \notin {V1, V2}
  /\ MaxNonce \in Nat

Scripts == {"setup", "setupV2", "patch"}

VARIABLES
  modules,     \* the Safe's enabled modules, the latest first
  safeNonce,   \* its nonce
  queue,       \* proposals of the Transaction Service: [nonce, by, calls]
  script,      \* script[s]: [at, seen, from, nonce, careless]
  batch,       \* the batch being executed: [calls, by, undo]
  runs, faults,
  done,        \* scripts whose batches took effect, in order (history)
  unseen       \* V2 was proposed without a disableModule (history)

safeVars  == <<modules, safeNonce, queue>>
setupVars == <<safeVars, script, batch, runs, faults, done, unseen>>

Idling  == [at |-> "idle", seen |-> <<>>, from |-> 0, nonce |-> 0, careless |-> FALSE]
NoBatch == [calls |-> <<>>, by |-> "none", undo |-> <<>>]
Running == batch # NoBatch

SetupInit ==
  /\ Init
  /\ modules = <<>> /\ safeNonce = 0 /\ queue = {}
  /\ script = [s \in Scripts |-> Idling]
  /\ batch = NoBatch /\ runs = 0 /\ faults = 0 /\ done = <<>> /\ unseen = FALSE

-----------------------------------------------------------------------------
(* The calls of the batches: <<operation, argument, argument>>             *)

Prev(seen, m) ==
  LET i == CHOOSE k \in DOMAIN seen : seen[k] = m
  IN  IF i = 1 THEN "sentinel" ELSE seen[i - 1]

IsIn(seen, m) == \E k \in DOMAIN seen : seen[k] = m

Disable(seen) == IF IsIn(seen, V1) THEN <<<<"disable", Prev(seen, V1), V1>>>> ELSE <<>>

SetupCalls == <<<<"enable", V1, 0>>>>

SetupV2Calls(seen) ==
  Disable(seen) \o
  <<<<"enable", V2, 0>>, <<"setUsdcToken", Usdc, 0>>, <<"setPolicy", 0, 0>>,
    <<"add", UsdcOld, 0>>, <<"add", PoolOld, 0>>, <<"add", MultiSend, 0>>,
    <<"select", UsdcOld, approve>>, <<"select", PoolOld, supply>>, <<"select", PoolOld, withdraw>>>>

PatchWithoutSelectors ==                                         \* mutant
  <<<<"remove", UsdcOld, 0>>, <<"remove", PoolOld, 0>>, <<"setUsdcToken", Usdc, 0>>,
    <<"add", UsdcNew, 0>>, <<"add", PoolNew, 0>>, <<"select", UsdcNew, approve>>>>

PatchCalls ==
  <<<<"remove", UsdcOld, 0>>, <<"remove", PoolOld, 0>>, <<"setUsdcToken", Usdc, 0>>,
    <<"add", UsdcNew, 0>>, <<"add", PoolNew, 0>>,
    <<"select", UsdcNew, approve>>, <<"select", PoolNew, supply>>, <<"select", PoolNew, withdraw>>>>

CallsOf(s, seen) ==
  CASE s = "setup" -> SetupCalls
    [] s = "setupV2" -> SetupV2Calls(seen)
    [] s = "patch" -> PatchCalls

-----------------------------------------------------------------------------
(* The scripts *)

Script == UNCHANGED <<vars, safeVars, batch, done>>

(* The Safe's modules and nonce, as the service knows them.                *)
ReadSafe(s) ==
  /\ script[s].at = "idle" /\ runs < MaxRuns
  /\ runs' = runs + 1
  /\ script' = [script EXCEPT ![s] =
       [Idling EXCEPT !.at = "read", !.seen = modules, !.from = safeNonce]]
  /\ Script /\ UNCHANGED <<faults, unseen>>

CountedNonce(from, pending) == from + Cardinality(pending)       \* mutant

(* The nonce after the last pending proposal.                              *)
NextNonce(from, pending) ==
  IF pending = {} THEN from ELSE Max({p.nonce : p \in pending}) + 1

(* What is proposed and not executed, from the nonce read on.              *)
Pending(s) == {p \in queue : p.nonce >= script[s].from}

(* An answer without results, an error for one, counts as an empty queue.  *)
ReadQueue(s) ==
  /\ script[s].at = "read"
  /\ \/ /\ script' = [script EXCEPT ![s].at = "post",
                                   ![s].nonce = NextNonce(script[s].from, Pending(s))]
        /\ UNCHANGED faults
     \/ /\ faults < MaxFaults /\ faults' = faults + 1
        /\ script' = [script EXCEPT ![s].at = "post", ![s].nonce = script[s].from,
                                   ![s].careless = TRUE]
  /\ Script /\ UNCHANGED <<runs, unseen>>

Proposal(s) ==
  [nonce |-> script[s].nonce, by |-> s, calls |-> CallsOf(s, script[s].seen),
   careless |-> script[s].careless]

(* The service refuses a nonce that is used up; the script just ends.      *)
Refused(s) == Proposal(s).nonce < safeNonce

(* Signed and posted.  For the properties: another script that has read    *)
(* the queue missed this proposal.                                         *)
Post(s) ==
  /\ script[s].at = "post"
  /\ IF Refused(s)
     THEN UNCHANGED <<queue, unseen>>
     ELSE /\ queue' = queue \cup {Proposal(s)}
          /\ unseen' = (unseen \/ (s = "setupV2" /\ ~IsIn(script[s].seen, V1)))
  /\ script' = [t \in Scripts |->
       IF t = s THEN Idling ELSE [script[t] EXCEPT !.careless = @ \/ script[t].at = "post"]]
  /\ UNCHANGED <<vars, modules, safeNonce, batch, runs, faults, done>>

(* --dry-run computes the hash of the same proposal and ends.              *)
DryRun(s) ==
  /\ script[s].at = "post"
  /\ script' = [script EXCEPT ![s] = Idling]
  /\ Script /\ UNCHANGED <<runs, faults, unseen>>

(* The owners may propose their own transactions: another module, or the   *)
(* revocation of a selector.                                               *)
OwnersPropose(nonce, call) ==
  /\ runs < MaxRuns /\ runs' = runs + 1
  /\ nonce >= safeNonce
  /\ queue' = queue \cup {[nonce |-> nonce, by |-> "owners", calls |-> <<call>>,
                         careless |-> TRUE]}
  /\ UNCHANGED <<vars, modules, safeNonce, script, batch, faults, done, unseen>>

-----------------------------------------------------------------------------
(* The Safe: a batch of calls, all or nothing                              *)

BeginBatch(p) ==
  /\ ~Running /\ p \in queue /\ p.nonce = safeNonce /\ safeNonce < MaxNonce
  /\ batch' = [calls |-> p.calls, by |-> p.by, undo |-> modules]
  /\ UNCHANGED <<vars, safeVars, script, runs, faults, done, unseen>>

(* disableModule: what followed the module follows its predecessor.        *)
Unlinked(ms, m) ==
  LET i == CHOOSE k \in DOMAIN ms : ms[k] = m
  IN  [k \in 1 .. Len(ms) - 1 |-> IF k < i THEN ms[k] ELSE ms[k + 1]]

ModuleManager(call) ==
  \/ /\ call[1] = "enable" /\ ~IsIn(modules, call[2])
     /\ modules' = <<call[2]>> \o modules
  \/ /\ call[1] = "disable" /\ IsIn(modules, call[3]) /\ Prev(modules, call[3]) = call[2]
     /\ modules' = Unlinked(modules, call[3])

OnModule(call) ==
  \/ call[1] = "setUsdcToken" /\ SetUsdcToken(call[2])
  \/ call[1] = "setPolicy" /\ SetPolicy(1, 1, 1)
  \/ call[1] = "add" /\ AddApprovedTarget(call[2])
  \/ call[1] = "remove" /\ RemoveApprovedTarget(call[2])
  \/ call[1] = "select" /\ ApproveSelector(call[2], call[3])
  \/ call[1] = "revoke" /\ RevokeSelector(call[2], call[3])

(* enableModule reverts for a module that is enabled, and disableModule    *)
(* for one that does not follow the other.                                 *)
Fails(call) ==
  \/ call[1] = "enable" /\ IsIn(modules, call[2])
  \/ call[1] = "disable" /\ ~(IsIn(modules, call[3]) /\ Prev(modules, call[3]) = call[2])

RunCall ==
  /\ Running /\ batch.calls # <<>> /\ ~Fails(Head(batch.calls))
  /\ \/ ModuleManager(Head(batch.calls)) /\ UNCHANGED vars
     \/ OnModule(Head(batch.calls)) /\ UNCHANGED modules
  /\ batch' = [batch EXCEPT !.calls = Tail(@)]
  /\ UNCHANGED <<safeNonce, queue, script, runs, faults, done, unseen>>

SkipFailed ==                                                    \* mutant
  /\ batch' = [batch EXCEPT !.calls = Tail(@)]
  /\ UNCHANGED <<vars, modules>>

(* A call that fails undoes the batch, and the nonce with it.  Every batch *)
(* calls the module manager first, and nothing else in it can fail.        *)
Undo ==
  /\ batch' = NoBatch
  /\ modules' = batch.undo /\ UNCHANGED vars

FailCall ==
  /\ Running /\ batch.calls # <<>> /\ Fails(Head(batch.calls))
  /\ Undo
  /\ UNCHANGED <<safeNonce, queue, script, runs, faults, done, unseen>>

CommitBatch ==
  /\ Running /\ batch.calls = <<>>
  /\ batch' = NoBatch
  /\ safeNonce' = safeNonce + 1
  /\ queue' = {p \in queue : p.nonce > safeNonce}
  /\ done' = Append(done, batch.by)
  /\ UNCHANGED <<vars, modules, script, runs, faults, unseen>>

SetupNext ==
  \/ \E s \in Scripts : ~Running /\ (ReadSafe(s) \/ ReadQueue(s) \/ Post(s) \/ DryRun(s))
  \/ \E n \in 0 .. MaxNonce - 1, call \in {<<"enable", Other, 0>>, <<"revoke", PoolNew, supply>>} :
       ~Running /\ OwnersPropose(n, call)
  \/ \E p \in queue : BeginBatch(p)
  \/ RunCall \/ FailCall \/ CommitBatch

SetupSpec == SetupInit /\ [][SetupNext]_<<vars, setupVars>>

-----------------------------------------------------------------------------
(* Properties *)

(* Whatever the scripts and the owners execute in whatever order, V2 lets  *)
(* the executor call, directly or in a batch encodeMultiSend built, only   *)
(* approve of USDC and supply and withdraw of a pool: no target is ever    *)
(* open to every function between two transactions.  Calls without a       *)
(* selector and those to MultiSend itself are the exceptions the contract  *)
(* makes; a delegatecall with other data is outside of this promise.       *)
Confined ==
  (~Running /\ IsIn(modules, V2)) =>
    \A tx \in Encoded : Executable(tx, 0) =>
      \A c \in tx.calls :
        \/ c.to = MultiSend \/ c.sel = NoSelector
        \/ c.to \in {UsdcOld, UsdcNew} /\ c.sel = approve
        \/ c.to \in {PoolOld, PoolNew} /\ c.sel \in {supply, withdraw}

(* The first module stays enabled beside V2 only if it was not enabled yet *)
(* when setup-policy-module-v2.mjs looked, or is enabled again later:      *)
(* "Skipping disableModule" is decided when proposing, not when executing. *)
V1Replaced ==
  (~Running /\ IsIn(modules, V1) /\ IsIn(modules, V2)) =>
    \/ unseen
    \/ \E j, k \in DOMAIN done : j < k /\ done[j] = "setupV2" /\ done[k] = "setup"

(* Once the addresses are patched after a setup, no later proposal brings  *)
(* the wrong ones back: a setup proposed twice reverts as a whole at       *)
(* enableModule, the calls before it included.                             *)
PatchSticks ==
  \A j, k \in DOMAIN done :
    (~Running /\ j < k /\ done[j] = "setupV2" /\ done[k] = "patch")
      => {UsdcOld, PoolOld} \cap approvedTargets = {}

(* Two batches of the scripts compete for a nonce, so that only one can    *)
(* ever take effect, only if one of them was posted without an answer      *)
(* about the queue or while the other was on its way; a transaction that   *)
(* is executed between the two reads of a script does no harm.             *)
NoncesDiffer ==
  \A p, q \in queue :
    (p # q /\ p.nonce = q.nonce) => p.careless \/ q.careless

(* What a script replaced stays replaced.                                  *)
ReplacementsStick == V1Replaced /\ PatchSticks
=============================================================================
