---------------------------- MODULE IntentPlanning ----------------------------
(***************************************************************************)
(* From an intent typed by a user to stored strategy candidates: the       *)
(* intent routes with their inline planner, the client that asks one       *)
(* language model after another, the organisation's policy, and the screen *)
(* that polls for the result.  The planner service does the same for the   *)
(* jobs of a queue; the one place that fills it, a rebalance a user asked  *)
(* for, is never reached, so the planner here is the route's.              *)
(*                                                                         *)
(* One wallet and its organisation.  A step is the code between two        *)
(* awaits.  What a model answers is an input: a subset of the templates,   *)
(* possibly one of them twice.                                             *)
(***************************************************************************)
EXTENDS Integers, FiniteSets

CONSTANTS
  Intents,       \* requests to /parse, with the intent each makes
  Watched,       \* those whose page stays open
  Templates,     \* subset of DOMAIN protocol
  Policies,      \* values of the organisation's approvedProtocols
  Providers,     \* configured language models: 0 .. n - 1 in their order
  MaxPolls,      \* polls of the screen before it gives up: 30 in the code
  MaxChanges,    \* bound: changes of the policy
  MaxFaults      \* bound: failed database calls, publications and crashes

(* STRATEGY_TEMPLATES: each is one supply node. *)
protocol == [conservativeStableLending |-> "morpho-blue",
             aaveUsdcLending           |-> "aave-v3",
             aaveWethLending           |-> "aave-v3"]

ASSUME ConstantsAssumption ==
  /\ IsFiniteSet(Intents) /\ Watched \subseteq Intents
  /\ Templates \subseteq DOMAIN protocol /\ Templates # {}
  /\ Policies # {} /\ \A P \in Policies : P \subseteq {"aave-v3", "morpho-blue", "uniswap-v3"}
  /\ IsFiniteSet(Providers) /\ Providers = 0 .. Cardinality(Providers) - 1
  /\ MaxPolls \in Nat /\ MaxChanges \in Nat /\ MaxFaults \in Nat

VARIABLES
  \* the database
  org,          \* the organisation: "none", "bare" (no wallet yet) or "complete"
  policy,       \* its approvedProtocols; empty allows every protocol
  intent,       \* intents.status
  candidates,   \* templates stored for an intent
  \* the processes
  request,      \* where each /parse request is
  run,          \* the planner's run for an intent
  activeIndex,  \* the provider that answered the planner last
  screen,       \* the user's GeneratingScreen: where it is, and its polls
  \* history
  inForce,      \* policies in force from the start of a run until it read one
  changes, faults,
  lost          \* intents whose run ended without a verdict

vars == <<org, policy, intent, candidates, request, run, activeIndex, screen,
          inForce, changes, faults, lost>>

Fault   == faults < MaxFaults /\ faults' = faults + 1
NoFault == UNCHANGED faults

NoRun == [at |-> "none", policy |-> {}, attempt |-> 0, asked |-> 0, tried |-> {},
          disturbed |-> FALSE, picks |-> {}, twice |-> FALSE]

Init ==
  /\ org \in {"none", "complete"} /\ policy \in Policies
  /\ intent = [i \in Intents |-> "none"]
  /\ candidates = [i \in Intents |-> {}]
  /\ request = [i \in Intents |-> "none"]
  /\ run = [i \in Intents |-> NoRun]
  /\ activeIndex = 0
  /\ screen = [i \in Watched |-> [at |-> "closed", polls |-> 0]]
  /\ inForce = [i \in Intents |-> {}]
  /\ changes = 0 /\ faults = 0 /\ lost = {}

-----------------------------------------------------------------------------
(* POST /parse *)

RequestTo(i, at) == request' = [request EXCEPT ![i] = at]
Parsing == UNCHANGED <<policy, candidates, activeIndex, inForce, changes, lost>>

(* parseIntentWithLLM always answers: a model within eight seconds, or the *)
(* rules of parseIntentRuleBased.  What it answers is in the rankings only. *)
Understand(i) ==
  /\ request[i] = "none"
  /\ RequestTo(i, "parsed") /\ NoFault
  /\ UNCHANGED <<org, intent, run, screen>> /\ Parsing

(* Then the organisation named in the body must exist, and the one of the  *)
(* wallet is looked up when none is named.                                 *)
ParseIntent(i) ==
  /\ request[i] = "parsed"
  /\ \E named \in BOOLEAN :
       RequestTo(i, IF org # "none" THEN "intent" ELSE IF named THEN "refused" ELSE "org")
  /\ NoFault
  /\ UNCHANGED <<org, intent, run, screen>> /\ Parsing

(* The organisation may have been created since it was looked up. *)
CreateOrg(i) ==
  /\ request[i] = "org"
  /\ \/ org = "none" /\ org' = "bare" /\ RequestTo(i, "wallet") /\ NoFault
     \/ org # "none" /\ UNCHANGED org /\ RequestTo(i, "refused") /\ NoFault
     \/ Fault /\ UNCHANGED org /\ RequestTo(i, "refused")
  /\ UNCHANGED <<intent, run, screen>> /\ Parsing

AddTreasuryWallet(i) ==
  /\ request[i] = "wallet"
  /\ \/ org' = "complete" /\ RequestTo(i, "intent") /\ NoFault
     \/ Fault /\ UNCHANGED org /\ RequestTo(i, "refused")
  /\ UNCHANGED <<intent, run, screen>> /\ Parsing

(* The row, the planner's run, which nobody awaits, and the 202 with which *)
(* the page opens the GeneratingScreen.                                    *)
CreateIntent(i) ==
  /\ request[i] = "intent"
  /\ \/ /\ intent' = [intent EXCEPT ![i] = "received"]
        /\ run' = [run EXCEPT ![i].at = "begin"]
        /\ screen' = IF i \in Watched THEN [screen EXCEPT ![i].at = "polling"] ELSE screen
        /\ RequestTo(i, "answered") /\ NoFault
     \/ Fault /\ RequestTo(i, "refused") /\ UNCHANGED <<intent, run, screen>>
  /\ UNCHANGED org /\ Parsing

-----------------------------------------------------------------------------
(* runPlannerInline, whose planner all the runs share *)

Goto(i, at) == run' = [run EXCEPT ![i].at = at]
After(i, at) == run' = [run EXCEPT ![i] = [NoRun EXCEPT !.at = at]]
Throw(i)    == Fault /\ After(i, "failing")
Planning    == UNCHANGED <<org, policy, request, screen, changes>>

Begin(i) ==
  /\ run[i].at = "begin"
  /\ \/ /\ intent' = [intent EXCEPT ![i] = "planning"]
        /\ inForce' = [inForce EXCEPT ![i] = @ \cup {policy}]
        /\ Goto(i, "org") /\ NoFault
     \/ Throw(i) /\ UNCHANGED <<intent, inForce>>
  /\ UNCHANGED <<candidates, activeIndex>> /\ Planning /\ UNCHANGED lost

(* The organisation's risk parameters as they are now. *)
ReadOrg(i) ==
  /\ run[i].at = "org"
  /\ \/ /\ run' = [run EXCEPT ![i] = [@ EXCEPT !.at = "generate", !.policy = policy]]
        /\ NoFault
     \/ Throw(i)
  /\ UNCHANGED <<intent, candidates, activeIndex, inForce>> /\ Planning /\ UNCHANGED lost

Unfiltered(i, picks) == picks                                    \* mutant

(* Templates only supply, so the risk engine never blocks one of them; the *)
(* policy does.                                                            *)
Valid(i, picks) == {t \in picks : run[i].policy # {} => protocol[t] \in run[i].policy}

SameProviderAgain(attempt) == activeIndex                        \* mutant

(* LLMClient.complete counts its attempts from the provider that answered  *)
(* last, which it reads anew, just before each call.                       *)
Target(attempt) == (activeIndex + attempt) % Cardinality(Providers)

(* selectDeterministic ranks all the templates. *)
SelectDeterministic(i) ==
  [run[i] EXCEPT !.at = "store", !.picks = Valid(i, Templates), !.policy = {}, !.asked = 0]

(* generateCandidates: rates and market data that cannot be read are       *)
(* replaced, so only the models' answers matter.                           *)
Generate(i) ==
  /\ run[i].at = "generate"
  /\ run' = [run EXCEPT ![i] =
       IF Providers = {} THEN SelectDeterministic(i)
       ELSE [@ EXCEPT !.at = "asked", !.asked = Target(0)]]
  /\ NoFault
  /\ UNCHANGED <<intent, candidates, activeIndex, inForce>> /\ Planning /\ UNCHANGED lost

(* The provider that was asked becomes the active one, also for the calls  *)
(* of other runs that wait for theirs.  The answer is scored and filtered; *)
(* a key of it that is no template is skipped.                             *)
Answer(i) ==
  \E picks \in SUBSET Templates, twice \in BOOLEAN :
    /\ twice => Valid(i, picks) # {}
    /\ activeIndex' = run[i].asked
    /\ run' = [k \in Intents |->
         IF k = i THEN [NoRun EXCEPT !.at = "store", !.picks = Valid(i, picks), !.twice = twice]
         ELSE IF run[k].at = "asked" /\ activeIndex # run[i].asked
              THEN [run[k] EXCEPT !.disturbed = TRUE]
         ELSE run[k]]

(* The provider fails, or its answer does not validate: the next attempt,  *)
(* if there is one left, is another call without an await in between.      *)
NoAnswer(i) ==
  LET next == run[i].attempt + 1
      failed == [run[i] EXCEPT !.attempt = next, !.tried = @ \cup {run[i].asked}]
  IN  /\ run' = [run EXCEPT ![i] =
           IF next < Cardinality(Providers) THEN [failed EXCEPT !.asked = Target(next)]
           ELSE [SelectDeterministic(i) EXCEPT !.attempt = failed.attempt, !.tried = failed.tried]]
      /\ UNCHANGED activeIndex

AskProviders(i) ==
  /\ run[i].at = "asked"
  /\ Answer(i) \/ NoAnswer(i)
  /\ NoFault
  /\ UNCHANGED <<intent, candidates, inForce>> /\ Planning /\ UNCHANGED lost

(* storeCandidates: the id of a candidate is made of its intent, template  *)
(* and time, so a template picked twice may break the key.                 *)
StoreCandidates(i) ==
  /\ run[i].at = "store"
  /\ \/ /\ candidates' = [candidates EXCEPT ![i] = @ \cup run[i].picks]
        /\ run' = [run EXCEPT ![i] = [NoRun EXCEPT !.at = "finish", !.picks = run[i].picks]]
        /\ NoFault
     \/ /\ run[i].twice
        /\ After(i, "failing") /\ NoFault /\ UNCHANGED candidates
     \/ run[i].picks # {} /\ Throw(i) /\ UNCHANGED candidates
  /\ UNCHANGED <<intent, activeIndex, inForce>> /\ Planning /\ UNCHANGED lost

Finish(i) ==
  /\ run[i].at = "finish"
  /\ \/ /\ intent' = [intent EXCEPT ![i] = IF run[i].picks # {} THEN "ready" ELSE "failed"]
        /\ run' = [run EXCEPT ![i] = NoRun] /\ NoFault
     \/ Throw(i) /\ UNCHANGED intent
  /\ UNCHANGED <<candidates, activeIndex, inForce>> /\ Planning /\ UNCHANGED lost

LeaveIntent(i) ==                                                \* mutant
  /\ run[i].at = "failing"
  /\ run' = [run EXCEPT ![i] = NoRun] /\ NoFault
  /\ UNCHANGED <<intent, candidates, activeIndex, inForce>> /\ Planning /\ UNCHANGED lost

(* "Mark failed": the catch of the route, which ignores an error of its    *)
(* own.                                                                    *)
MarkFailed(i) ==
  /\ run[i].at = "failing"
  /\ \/ intent' = [intent EXCEPT ![i] = "failed"] /\ NoFault /\ UNCHANGED lost
     \/ Fault /\ lost' = lost \cup {i} /\ UNCHANGED intent
  /\ run' = [run EXCEPT ![i] = NoRun]
  /\ UNCHANGED <<candidates, activeIndex, inForce>> /\ Planning

(* runPlannerInline, which the route starts and does not wait for. *)
RunPlannerInline(i) ==
  \/ Begin(i) \/ ReadOrg(i) \/ Generate(i) \/ AskProviders(i)
  \/ StoreCandidates(i) \/ Finish(i) \/ MarkFailed(i)

-----------------------------------------------------------------------------
(* GeneratingScreen: reads the status, and the candidates of a ready       *)
(* intent.  An intent that failed raises an error inside the try whose     *)
(* catch continues polling, so it changes nothing here.                    *)

Screen(i, at) == screen' = [screen EXCEPT ![i].at = at]
Watching == UNCHANGED <<org, policy, candidates, request, run, activeIndex, inForce,
                        changes, faults, lost>>

(* A request that fails, and an intent that is not ready, cost a poll. *)
Poll(i) ==
  /\ screen[i].at = "polling" /\ screen[i].polls < MaxPolls
  /\ \/ intent[i] = "ready" /\ Screen(i, "fetching")
     \/ screen' = [screen EXCEPT ![i].polls = @ + 1]
  /\ UNCHANGED intent /\ Watching

(* The route answers with candidates only while the intent is ready or     *)
(* selected.                                                               *)
FetchCandidates(i) ==
  /\ screen[i].at = "fetching"
  /\ \/ /\ intent[i] \in {"ready", "selected"} /\ candidates[i] # {}
        /\ Screen(i, "shown")
     \/ screen' = [screen EXCEPT ![i] = [at |-> "polling", polls |-> @.polls + 1]]
  /\ UNCHANGED intent /\ Watching

TimeOut(i) ==
  /\ screen[i].at = "polling" /\ screen[i].polls = MaxPolls
  /\ Screen(i, "timedOut")
  /\ UNCHANGED intent /\ Watching

ScreenStep(i) == Poll(i) \/ FetchCandidates(i) \/ TimeOut(i)

(* POST /strategy/deploy of a candidate the screen shows; the rest of it   *)
(* is in PositionLifecycle.                                                *)
SelectCandidate(i) ==
  /\ screen[i].at = "shown" /\ intent[i] # "selected"
  /\ intent' = [intent EXCEPT ![i] = "selected"]
  /\ UNCHANGED screen /\ Watching

-----------------------------------------------------------------------------
(* PUT /orgs/:id/risk-params *)
ChangePolicy ==
  /\ changes < MaxChanges /\ changes' = changes + 1
  /\ policy' \in Policies \ {policy}
  /\ inForce' = [i \in Intents |->
       IF run[i].at = "org" THEN inForce[i] \cup {policy'} ELSE inForce[i]]
  /\ UNCHANGED <<org, intent, candidates, request, run, activeIndex, screen, faults, lost>>

(* The requests and the runs are in the backend's memory. *)
BackendRestarts ==
  LET cut == {i \in Intents : run[i].at # "none"}
  IN  /\ Fault
      /\ request' = [i \in Intents |->
           IF request[i] \in {"parsed", "org", "wallet", "intent"} THEN "refused" ELSE request[i]]
      /\ run' = [i \in Intents |-> NoRun]
      /\ lost' = lost \cup cut /\ activeIndex' = 0
      /\ UNCHANGED <<org, policy, intent, candidates, screen, inForce, changes>>

RequestStep(i) == Understand(i) \/ ParseIntent(i) \/ CreateOrg(i) \/ AddTreasuryWallet(i) \/ CreateIntent(i)

Next ==
  \/ \E i \in Intents : RequestStep(i) \/ RunPlannerInline(i)
  \/ \E i \in Watched : ScreenStep(i) \/ SelectCandidate(i)
  \/ ChangePolicy \/ BackendRestarts

Spec == Init /\ [][Next]_vars

(* Promises settle, the models' requests end and the screen keeps polling. *)
FairSpec == /\ Spec /\ \A i \in Intents : WF_vars(RunPlannerInline(i))
            /\ \A i \in Watched : WF_vars(ScreenStep(i))

-----------------------------------------------------------------------------
Runs ==
  [at : {"none", "begin", "org", "generate", "asked", "store", "finish", "failing"},
   policy : Policies \cup {{}}, attempt : 0 .. Cardinality(Providers),
   asked : Providers \cup {0}, tried : SUBSET Providers, disturbed : BOOLEAN,
   picks : SUBSET Templates, twice : BOOLEAN]

(* Every variable stays within the values the code gives it. *)
TypeOK ==
  /\ org \in {"none", "bare", "complete"} /\ policy \in Policies
  /\ intent \in [Intents -> {"none", "received", "planning", "ready", "failed", "selected"}]
  /\ candidates \in [Intents -> SUBSET Templates]
  /\ request \in [Intents -> {"none", "parsed", "org", "wallet", "intent", "answered", "refused"}]
  /\ run \in [Intents -> Runs]
  /\ activeIndex \in Providers \cup {0}
  /\ screen \in [Watched -> [at : {"closed", "polling", "fetching", "shown", "timedOut"},
                             polls : 0 .. MaxPolls]]
  /\ inForce \in [Intents -> SUBSET Policies]
  /\ changes \in 0 .. MaxChanges /\ faults \in 0 .. MaxFaults /\ lost \subseteq Intents

(* An intent that says its strategies are ready has one to show, through    *)
(* failures and crashes between the two writes.                             *)
ReadyHasCandidates ==
  \A i \in Intents : intent[i] \in {"ready", "selected"} => candidates[i] # {}

(* The candidates stored for an intent are all allowed by one policy that   *)
(* was in force between the start of its planning and its reading of the    *)
(* organisation, whatever the models proposed and however the policy        *)
(* changed; it need not be the policy of the moment they are stored.        *)
CandidatesApproved ==
  \A i \in Intents : candidates[i] # {} =>
    \E P \in inForce[i] : \A t \in candidates[i] : P # {} => protocol[t] \in P

(* Only a failure leaves an organisation without the treasury wallet that   *)
(* finds it again: createOrg is followed by addTreasuryWallet.              *)
WalletWithOrg ==
  org = "bare" => faults > 0 \/ \E i \in Intents : request[i] = "wallet"

(* The client falls back to the templates only after every configured       *)
(* provider was asked, unless the answer to another run's call moved the    *)
(* active provider while this run's calls went on: it may then ask one      *)
(* provider twice and another one never.                                    *)
GivingUpTriedAll ==
  \A i \in Intents :
    run[i].at = "store" /\ run[i].attempt > 0 /\ run[i].attempt = Cardinality(Providers)
      => run[i].tried = Providers \/ run[i].disturbed

(* Every intent the backend accepted gets a verdict, unless the process     *)
(* that planned it died, or could not write the verdict either.             *)
IntentsEnd ==
  \A i \in Intents :
    intent[i] \in {"received", "planning"}
      ~> intent[i] \in {"ready", "failed", "selected"} \/ i \in lost

(* What a reader of the database finds of a planned intent is sound.       *)
PlansSound ==
  /\ TypeOK
  /\ ReadyHasCandidates
  /\ CandidatesApproved

(* What is found half done, or done without a model, is explained by a     *)
(* failure or by another call in between.                                  *)
HalfDoneExplained == WalletWithOrg /\ GivingUpTriedAll
=============================================================================
