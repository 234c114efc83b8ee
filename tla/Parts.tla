-------------------------------- MODULE Parts -------------------------------
(***************************************************************************)
(* Small parts of the system that share nothing with each other, each with *)
(* variables of its own; and the properties of each, under one name.       *)
(***************************************************************************)
EXTENDS Integers

-----------------------------------------------------------------------------
(* ModuleVersions *)
CONSTANTS Versions, Broken, MaxImports, MaxParamEdits

VARIABLES zips, versionRows, importer, params, oldParams, cached, render, embed, lock,
          imports, edits, staleCache

versions == <<zips, versionRows, importer, params, oldParams, cached, render, embed, lock,
              imports, edits, staleCache>>

Version == INSTANCE ModuleVersions
  WITH rows <- versionRows, past <- oldParams, raced <- staleCache, MaxEdits <- MaxParamEdits

(* Params that are rendered or cached fit the step's, and their version.   *)
ParamsFitTheirVersion == Version!RenderedParamsFit /\ Version!CachedParamsAreOfTheParams

-----------------------------------------------------------------------------
(* ModuleProcess *)
CONSTANTS Lengths, Limit, PipeSize, NWaits, MaxExcess

(* Sizes are numbers, and a pipe keeps something. *)
ASSUME ProcessNumbers == /\ Lengths \subseteq Nat /\ Limit \in [{"out", "log"} -> Nat]
                         /\ PipeSize \in Nat /\ PipeSize > 0

VARIABLES length, sense, child, hung, wrote, pipe, reader, process

processes == <<length, sense, child, hung, wrote, pipe, reader, process>>

Process == INSTANCE ModuleProcess WITH call <- process

(* A result is one whole message of a child that ended well, and no child  *)
(* is killed for what its reader did not read.                             *)
ChildrenAreHeardOut == Process!ResultsAreWholeMessages /\ Process!OnlyHungChildrenAreKilled

-----------------------------------------------------------------------------
(* Uploads *)
CONSTANTS Size, ByProgram, MaxRows, MaxBytes, MaxFileChanges, MaxDeaths

VARIABLES state, tokens, token, fileRows, files, param, oldFiles, status, hook, changes, faults,
          chosen, newest, raced

uploads == <<state, tokens, token, fileRows, files, param, oldFiles, status, hook, changes, faults,
             chosen, newest, raced>>

Upload == INSTANCE Uploads
  WITH rows <- fileRows, past <- oldFiles, MaxChanges <- MaxFileChanges, MaxFaults <- MaxDeaths

(* The step's file is there. *)
ChosenFileExists == Upload!ChosenFileExists

-----------------------------------------------------------------------------
(* BrokerConnection *)
CONSTANTS Queues, Publishers, Target, Attempts, MaxOutages

VARIABLES monitor, attempt, connected, open, isClosed, declared, publisher, broker, closer,
          outages, lost

connections == <<monitor, attempt, connected, open, isClosed, declared, publisher, broker,
                 closer, outages, lost>>

Connection == INSTANCE BrokerConnection WITH faults <- outages, MaxFaults <- MaxOutages

(* Nothing is missing after a reconnection. *)
ReconnectsAreWhole == Connection!ReconnectsAreWhole

-----------------------------------------------------------------------------
(* Subscriptions *)
CONSTANTS Checkouts, ActivePlans, LastStage, MaxFailures

(* No checkout is nobody's; a subscription is something before it ends.    *)
ASSUME SubscriptionNumbers == 0 \notin Checkouts /\ LastStage \in Nat /\ LastStage > 1

VARIABLES customer, customers, payLock, checkout, subscription, events, handlers,
          payRow, told, late, failures

subscriptions == <<customer, customers, payLock, checkout, subscription, events, handlers,
                   payRow, told, late, failures>>

Payment == INSTANCE Subscriptions
  WITH lock <- payLock, row <- payRow, faults <- failures, MaxFaults <- MaxFailures

(* What Stripe says comes true. *)
SubscriptionsFollowStripe == Payment!SubscriptionsFollowStripe

-----------------------------------------------------------------------------
(* Secrets *)
CONSTANTS Params, Kinds, MaxLogins, MaxSecretChanges

(* What parameters may be. *)
ASSUME KindsOfParams == Kinds \subseteq [Params -> {"twitter", "google", "string", "none"}]

VARIABLES fields, configured, live, secrets, windows, session, finishing, fetching, upgraded,
          crossed, misplaced, otherChanges

secretVars == <<fields, configured, live, secrets, windows, session, finishing, fetching,
                upgraded, crossed, misplaced, otherChanges>>

Vault == INSTANCE Secrets
  WITH spec <- fields, changes <- otherChanges, MaxChanges <- MaxSecretChanges

(* Each secret is where it belongs. *)
SecretsFitTheirParams == Vault!SecretsFitTheirParams

-----------------------------------------------------------------------------
(* WorkflowCopies *)
CONSTANTS Requests, MaxKeys, MaxWorkflows, MaxVisits, MaxCrashes

VARIABLES original, cookie, sessions, nKeys, copies, requests, cron, twice, crashes, visits

visitorVars == <<original, cookie, sessions, nKeys, copies, requests, cron, twice, crashes, visits>>

Copy == INSTANCE WorkflowCopies
  WITH workflows <- copies, raced <- twice, changes <- visits, MaxChanges <- MaxVisits

(* Each opens one's own. *)
VisitorsGetTheirCopy == Copy!VisitorsGetTheirCopy
=============================================================================
