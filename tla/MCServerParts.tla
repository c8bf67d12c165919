---------------------------- MODULE MCServerParts ----------------------------
(* One run for the parts of the server whose state is disjoint and which call  *)
(* each other in no handler that changes state: the disjoint sum of their      *)
(* state machines. A behaviour is one of a single part, chosen at the start;   *)
(* the others rest in their initial states. Each part behaves as in a run of   *)
(* its own, since no action of it reads a variable of another.                 *)
EXTENDS IngestGate, ToolCorrelation, OneTimeCodes, DeviceTokens, Migration,
        Reporting, PriceSnapshots, PriceRefresh, TLC

\* A price that depends on the volume and on the hour, and a flat one.
TestOffers == {[low |-> 1, high |-> 3, night |-> 2], [low |-> 2, high |-> 2, night |-> 2]}

\* Windows written west and east of UTC.
TestZones == {-1, 1}

\* One response of every class, of which one has no latency.
TestResponses == {<<NoStatus, 2>>, <<404, NoLatency>>, <<429, 2>>, <<500, 2>>}

\* The threads of refreshes are alike.
PartSymmetry == Permutations(Refreshers)

VARIABLE part

partsVars == <<part, gateVars, toolVars, codeVars, authVars, migrationVars,
               reportVars, priceVars, refreshVars>>

\* The buffers of different agents meet in no record: each is a part.
Parts == {"gate", "codes", "auth", "migration", "reporting", "prices", "refresh"} \cup Keys

PartsInit ==
  /\ part \in Parts
  /\ GateInit /\ ToolInit /\ CodesInit /\ AuthInit /\ ReportingInit
  /\ PriceInit /\ RefreshInit /\ MigrationInit
  /\ part # "migration" => columns = {} /\ conversions.ts = 0 /\ filled = {} /\ usageOf = {}

OfGate == part = "gate" /\
  UNCHANGED <<part, toolVars, codeVars, authVars, migrationVars, reportVars, priceVars, refreshVars>>
OfTools(k) == part = k /\
  UNCHANGED <<part, gateVars, codeVars, authVars, migrationVars, reportVars, priceVars, refreshVars>>
OfCodes == part = "codes" /\
  UNCHANGED <<part, gateVars, toolVars, authVars, migrationVars, reportVars, priceVars, refreshVars>>
OfAuth == part = "auth" /\
  UNCHANGED <<part, gateVars, toolVars, codeVars, migrationVars, reportVars, priceVars, refreshVars>>
OfMigration == part = "migration" /\
  UNCHANGED <<part, gateVars, toolVars, codeVars, authVars, reportVars, priceVars, refreshVars>>
OfReporting == part = "reporting" /\
  UNCHANGED <<part, gateVars, toolVars, codeVars, authVars, migrationVars, priceVars, refreshVars>>
OfPrices == part = "prices" /\
  UNCHANGED <<part, gateVars, toolVars, codeVars, authVars, migrationVars, reportVars, refreshVars>>
OfRefresh == part = "refresh" /\
  UNCHANGED <<part, gateVars, toolVars, codeVars, authVars, migrationVars, reportVars, priceVars>>

\* The next-state relations of the parts, action by action.
GatePart ==
  \/ \E c \in Calls :
       \/ \E token \in Tokens \cup {NoToken} : OfGate /\ Arrive(c, token)
       \/ OfGate /\ StartLookup(c)
       \/ \E isOwner \in BOOLEAN : OfGate /\ OwnerOrRefuse(c, isOwner)
       \/ OfGate /\ RefuseCached(c)
       \/ OfGate /\ ReadToken(c)
       \/ OfGate /\ RefuseInvalid(c)
       \/ OfGate /\ AdmitOrLimit(c)
       \/ OfGate /\ TimeOut(c)
  \/ \E token \in Tokens :
       \/ OfGate /\ Mint(token)
       \/ OfGate /\ Revoke(token)
  \/ OfGate /\ Elapse

ToolPart ==
  \E k \in Keys :
    \/ OfTools(k) /\ UserPrompt(k)
    \/ OfTools(k) /\ CodexEvent(k)
    \/ \E t \in Tools :
         \/ \E at \in MomentsOf(k) : OfTools(k) /\ ToolDecision(k, t, at)
         \/ OfTools(k) /\ ToolResult(k, t)
         \/ OfTools(k) /\ ToolTime(k, t)
    \/ \E known \in BOOLEAN :
         \/ \E cut \in 1 .. MaxMoments + 1 : OfTools(k) /\ ApiRequest(k, cut, known)
         \/ OfTools(k) /\ CodexCompleted(k, known)
         \/ OfTools(k) /\ MessageCompleted(k, known)
    \/ OfTools(k) /\ UsageNotRecorded(k)
    \/ OfTools(k) /\ EvictTools(k)
    \/ OfTools(k) /\ EvictUsage(k)
    \/ OfTools(k) /\ EvictState(k)
    \/ OfTools(k) /\ CollectorRestart

CodesPart ==
  \/ \E p \in CodeUsers :
       \/ \E code \in Codes : OfCodes /\ BeginStore(p, code)
       \/ \E code \in Codes : OfCodes /\ BeginPop(p, code)
       \/ OfCodes /\ LockFile(p)
       \/ OfCodes /\ LoadForStore(p)
       \/ OfCodes /\ LoadForPop(p)
       \/ OfCodes /\ TruncateFile(p)
       \/ OfCodes /\ WriteFile(p)
       \/ OfCodes /\ UnlockFile(p)
       \/ OfCodes /\ DieInStore(p)
  \/ OfCodes /\ CodesElapse

AuthPart ==
  \/ \E a \in AuthThreads :
       \/ \E m \in Machines : OfAuth /\ LoadDevice(a, m)
       \/ OfAuth /\ RetryRotation(a)
       \/ OfAuth /\ RotatePair(a)
       \/ OfAuth /\ ListBrowsers(a)
       \/ \E token \in 1 .. MaxTokens : OfAuth /\ RetireBrowser(a, token)
       \/ OfAuth /\ MintBrowser(a)
       \/ OfAuth /\ FailLogin(a)
  \/ \E m \in Machines : OfAuth /\ RevokeDevice(m)
  \/ \E m \in Machines : \E token \in pairs[m] : OfAuth /\ RevokePairToken(m, token)
  \/ \E token \in browsers : OfAuth /\ Logout(token)

MigrationPart ==
  \/ \E m \in Migrators :
       \/ OfMigration /\ StartMigration(m)
       \/ OfMigration /\ AddQueueColumns(m)
       \/ OfMigration /\ AddUsageColumns(m)
       \/ OfMigration /\ AddStatusColumns(m)
       \/ OfMigration /\ BackfillStatus(m)
       \/ OfMigration /\ BackfillDaily(m)
       \/ OfMigration /\ AddEvaluationColumns(m)
       \/ OfMigration /\ AddCacheColumn(m)
       \/ OfMigration /\ BackfillCache(m)
       \/ OfMigration /\ CheckSessions(m)
       \/ OfMigration /\ DeleteSessions(m)
       \/ OfMigration /\ ReadUsage(m)
       \/ OfMigration /\ InsertSessions(m)
       \/ OfMigration /\ CheckUsage(m)
       \/ OfMigration /\ CreateUsageNew(m)
       \/ OfMigration /\ CopyUsage(m)
       \/ OfMigration /\ AddToolCalls(m)
       \/ OfMigration /\ AddSnapshots(m)
       \/ OfMigration /\ AddTenancy(m)
       \/ OfMigration /\ CheckDailyUnique(m)
       \/ OfMigration /\ CreateDailyNew(m)
       \/ OfMigration /\ MergeDaily(m)
       \/ OfMigration /\ DieInMigration(m)
  \/ \E s \in Sessions :
       \/ OfMigration /\ RecordUsageRow(s)
       \/ OfMigration /\ RollUpSession(s)
       \/ OfMigration /\ EvaluateSession(s)

ReportPart == \E row \in UsageReport : OfReporting /\ ReportUsage(row)

PricePart ==
  \E t \in Pricers :
    \/ \E row \in PricedRows, offer \in Offers \cup {NoOffer}, tokens \in InputTokens,
          hour \in Hours : OfPrices /\ ResolveNew(t, row, tokens, hour, offer)
    \/ \E row \in PricedRows, offer \in Offers \cup {NoOffer} :
         OfPrices /\ LoadPriced(t, row, offer)
    \/ \E row \in PricedRows : OfPrices /\ ListEstimated(t, row)
    \/ OfPrices /\ EnsureSnapshot(t)
    \/ OfPrices /\ MissSnapshot(t)
    \/ OfPrices /\ InsertPriced(t)
    \/ OfPrices /\ CommitPriced(t)
    \/ OfPrices /\ FailPricing(t)

RefreshPart ==
  \/ \E t \in Refreshers :
       \/ OfRefresh /\ LoadConfig(t)
       \/ OfRefresh /\ FailLoad(t)
       \/ OfRefresh /\ FetchFromCache(t)
       \/ OfRefresh /\ FetchFromNet(t)
       \/ OfRefresh /\ TruncateCache(t)
       \/ \E body \in {Prices, Absent, NotMapping}, written \in BOOLEAN :
            OfRefresh /\ SaveCache(t, body, written)
       \/ OfRefresh /\ FetchFails(t)
       \/ OfRefresh /\ FetchRaises(t)
       \/ \E openrouter \in BOOLEAN : OfRefresh /\ SwapMaps(t, openrouter)
       \/ OfRefresh /\ FetchLive(t)
       \/ OfRefresh /\ WritePatch(t)
       \/ OfRefresh /\ NotifyProxy(t)
       \/ \E p \in ServerProcs : OfRefresh /\ Reboot(p, t)
  \/ OfRefresh /\ OpenForWrite
  \/ OfRefresh /\ WriteEvaluator
  \/ OfRefresh /\ LoseNotice
  \/ OfRefresh /\ CacheExpires
  \/ OfRefresh /\ AnswerQuery

PartsNext ==
  \/ GatePart \/ ToolPart \/ CodesPart \/ AuthPart \/ MigrationPart
  \/ ReportPart \/ PricePart \/ RefreshPart

PartsSpec == PartsInit /\ [][PartsNext]_partsVars

\* The type invariant of each part; the other parts are at rest.
PartsTypeOK ==
  /\ part = "gate" => GateTypeOK
  /\ part \in Keys => ToolTypeOK
  /\ part = "codes" => CodesTypeOK
  /\ part = "auth" => AuthTypeOK
  /\ part = "migration" => MigrationTypeOK
  /\ part = "reporting" => ReportingTypeOK
  /\ part = "prices" => PriceTypeOK
  /\ part = "refresh" => RefreshTypeOK

===============================================================================
