----------------------------- MODULE PriceRefresh -----------------------------
(* Configuration and prices in force (config/app.py, pricing/sources,          *)
(* pricing/maps.py, the PATCH handlers of api.py and the refresh of proxy.py). *)
(*                                                                             *)
(* Each server process keeps the configuration and the price maps in memory. A *)
(* refresh reads config.yaml, fetches the price sources through caches on disk *)
(* that all processes share, and swaps the result in under a lock that covers  *)
(* nothing before it. The API rewrites the file and tells the proxy; the       *)
(* collector refreshes at boot only. A price query of the API fetches too, and *)
(* swaps nothing. The configurations here all leave LiteLLM enabled.           *)
EXTENDS Naturals, FiniteSets

CONSTANTS
  Api, Proxy,             \* the server processes that refresh at run time
  BootOnly,               \* those that refresh at boot only: the collector
  Refreshers,             \* threads in which a refresh or a price query runs
  NotRefreshing,          \* a thread without a refresh
  MaxPatches              \* bound on the patches, for model checking

ServerProcs == {Api, Proxy} \cup BootOnly

\* A refresh on its way: the patches it read, whether it found prices or its fetch
\* raised, whether it is to tell the proxy, and whether a later one overtook it. A live
\* one is the fetch of a price query.
RefreshStates ==
  [proc : ServerProcs, step : {"load", "fetch", "save", "swap"}, config : 0 .. MaxPatches,
   found : BOOLEAN, raised : BOOLEAN, tells : BOOLEAN, passed : BOOLEAN, live : BOOLEAN]

ASSUME RefreshAssumption ==
  Api # Proxy /\ MaxPatches \in Nat \ {0} /\ NotRefreshing \notin RefreshStates

\* A file that was opened for writing reads as no configuration at all.
Empty == 0
Absent == "absent"      \* no prices: no map or file, or one cut short or without any
Prices == "prices"
Stale == "stale"        \* a file with prices that is older than the time to live
NotMapping == "not a mapping"
Unloaded == "unloaded"

VARIABLES
  configFile,     \* the patches config.yaml holds, and whether it is whole
  litellmCache,   \* pricing/litellm.json: Absent, Stale or (fresh) Prices
  remoteCosts,    \* _remote_costs of each process
  inForce,        \* CONFIG and the price maps of each process
  refreshes,      \* what each thread is doing
  notices,        \* refresh requests on their way to the proxy
  hadPrices,      \* ghost: processes a refresh of which has loaded LiteLLM's prices,
                  \* since boot and since LiteLLM last published none
  interrupted,    \* ghost: those that put maps in force after a fetch that raised
  untold,         \* ghost: processes that no one told of the last change
  behind          \* ghost: what of a process an overtaken refresh put in force

refreshVars == <<configFile, litellmCache, remoteCosts, inForce, refreshes,
                 notices, hadPrices, interrupted, untold, behind>>

InForceParts == {"config", "prices"}

NotBooted == [config |-> Empty, priced |-> FALSE]

RefreshInit ==
  /\ configFile = [patches |-> 1, whole |-> TRUE]
  /\ litellmCache = Absent
  /\ remoteCosts = [p \in ServerProcs |-> Unloaded]
  /\ inForce = [p \in ServerProcs |-> [config |-> 1, priced |-> FALSE]]
  /\ refreshes = [t \in Refreshers |-> NotRefreshing]
  /\ notices = FALSE
  /\ hadPrices = {} /\ interrupted = {} /\ untold = {} /\ behind = {}

Refresh(p, tells) ==
  [proc |-> p, step |-> "load", config |-> Empty, found |-> FALSE, raised |-> FALSE,
   tells |-> tells, passed |-> FALSE, live |-> FALSE]
Refreshing(p) == {t \in Refreshers : refreshes[t] # NotRefreshing /\ refreshes[t].proc = p}
Swapping(p) == {t \in Refreshing(p) : ~refreshes[t].live}
RefreshAt(t, step) == refreshes[t] # NotRefreshing /\ refreshes[t].step = step
Started(t, p, tells) == [refreshes EXCEPT ![t] = Refresh(p, tells)]

(* ---- a refresh: refresh_runtime_config ----------------------------------------- *)

\* A step of a refresh overtakes the others of its process that have taken it.
Passed(t, steps, rs) == [u \in Refreshers |->
  IF u \in Swapping(refreshes[t].proc) \ {t} /\ rs[u].step \in steps
    THEN [rs[u] EXCEPT !.passed = TRUE] ELSE rs[u]]

\* A fetch ends: with a map of prices, or by an exception, which fetch_sources takes for
\* a source without entries. A price query answers with what it fetched.
Ended(t, found, raised) ==
  refreshes' = IF refreshes[t].live
    THEN [refreshes EXCEPT ![t] = NotRefreshing]
    ELSE Passed(t, {"swap"}, [refreshes EXCEPT ![t] =
           [@ EXCEPT !.step = "swap", !.found = found, !.raised = raised]])

\* fetch_remote_pricing returns; what a price query loads is not put in force.
Fetched(t, costs) ==
  /\ remoteCosts' = [remoteCosts EXCEPT ![refreshes[t].proc] = costs]
  /\ hadPrices' = IF costs = Prices /\ ~refreshes[t].live
                    THEN hadPrices \cup {refreshes[t].proc} ELSE hadPrices
  /\ Ended(t, costs = Prices, FALSE)

Raised(t) == Ended(t, FALSE, TRUE) /\ UNCHANGED <<remoteCosts, hadPrices>>

LoadConfig(t) ==
  /\ RefreshAt(t, "load")
  /\ refreshes' = Passed(t, {"fetch", "save", "swap"},
       [refreshes EXCEPT ![t] = [@ EXCEPT !.step = "fetch",
       !.config = IF configFile.whole THEN configFile.patches ELSE Empty]])
  /\ untold' = IF configFile.whole THEN untold \ {refreshes[t].proc} ELSE untold
  /\ UNCHANGED <<configFile, litellmCache, remoteCosts, inForce, notices, hadPrices,
                 interrupted, behind>>

\* A file cut short in the middle of a mapping does not parse.
FailLoad(t) ==
  /\ RefreshAt(t, "load") /\ ~configFile.whole
  /\ refreshes' = [refreshes EXCEPT ![t] = NotRefreshing]
  /\ UNCHANGED <<configFile, litellmCache, remoteCosts, inForce, notices, hadPrices,
                 interrupted, untold, behind>>

\* _remote_lock: one fetch at a time in a process.
Unlocked(p) == \A u \in Refreshing(p) : refreshes[u].step # "save"

Fetching(t) == RefreshAt(t, "fetch") /\ Unlocked(refreshes[t].proc)

FetchFromCache(t) ==
  /\ Fetching(t) /\ litellmCache = Prices
  /\ Fetched(t, Prices)
  /\ UNCHANGED <<configFile, litellmCache, inForce, notices, interrupted, untold, behind>>

\* A cache that is stale, or fresh and without prices, is fetched again.
Refetching(t) == Fetching(t) /\ litellmCache # Prices

FetchFromNet(t) ==
  /\ Refetching(t)
  /\ refreshes' = [refreshes EXCEPT ![t] = [@ EXCEPT !.step = "save"]]
  /\ UNCHANGED <<configFile, litellmCache, remoteCosts, inForce, notices, hadPrices,
                 interrupted, untold, behind>>

\* Writing what was downloaded truncates the file first.
TruncateCache(t) ==
  /\ RefreshAt(t, "save") /\ litellmCache # Absent
  /\ litellmCache' = Absent
  /\ UNCHANGED <<configFile, remoteCosts, inForce, refreshes, notices, hadPrices,
                 interrupted, untold, behind>>

\* It is written, or not, and then parsed: prices, a mapping without any, which
\* replaces what the process had, or no mapping, which raises.
SaveCache(t, body, written) ==
  /\ RefreshAt(t, "save")
  /\ litellmCache' = IF ~written THEN litellmCache
                     ELSE IF body = Prices THEN Prices ELSE Absent
  /\ \/ body = Prices /\ Fetched(t, Prices)
     \/ /\ body = Absent /\ Ended(t, FALSE, FALSE)
        /\ remoteCosts' = [remoteCosts EXCEPT ![refreshes[t].proc] = Absent]
        /\ hadPrices' = hadPrices \ {refreshes[t].proc}
     \/ body = NotMapping /\ Raised(t)
  /\ UNCHANGED <<configFile, inForce, notices, interrupted, untold, behind>>

Fallback(p) ==
  IF remoteCosts[p] # Unloaded THEN remoteCosts[p]
  ELSE IF litellmCache # Absent THEN Prices ELSE Absent

\* Mutant: a failed fetch always falls back to the cache.
FetchFailsToCache(t) ==
  /\ Refetching(t)
  /\ Fetched(t, IF litellmCache # Absent THEN Prices ELSE Absent)
  /\ UNCHANGED <<configFile, litellmCache, inForce, notices, interrupted, untold, behind>>

\* fetch_json gave up and said so: the process keeps the prices it has; only one that
\* never loaded any looks in the stale cache.
FetchFails(t) ==
  /\ Refetching(t)
  /\ Fetched(t, Fallback(refreshes[t].proc))
  /\ UNCHANGED <<configFile, litellmCache, inForce, notices, interrupted, untold, behind>>

\* A download cut short or not in UTF-8 raises what fetch_json does not catch.
FetchRaises(t) ==
  /\ Refetching(t) /\ Raised(t)
  /\ UNCHANGED <<configFile, litellmCache, inForce, notices, interrupted, untold, behind>>

\* The sources are layered and the maps swapped; OpenRouter, with neither a lock nor
\* a memory of its own, may add prices or not.
SwapMaps(t, openrouter) ==
  LET p == refreshes[t].proc
  IN  /\ RefreshAt(t, "swap")
      /\ inForce' = [inForce EXCEPT ![p] =
           [config |-> refreshes[t].config,
            priced |-> refreshes[t].found \/ openrouter]]
      /\ refreshes' = [refreshes EXCEPT ![t] = NotRefreshing]
      /\ notices' = (notices \/ refreshes[t].tells)
      /\ interrupted' = IF refreshes[t].raised /\ p \in hadPrices
                         THEN interrupted \cup {p} ELSE interrupted \ {p}
      /\ behind' = IF refreshes[t].passed THEN behind \cup ({p} \X InForceParts)
                   ELSE behind \ ({p} \X InForceParts)
      /\ UNCHANGED <<configFile, litellmCache, remoteCosts, hadPrices, untold>>

\* _resolve_live_cost_maps: the API fetches for a price query, through the same cache,
\* network and memory, and swaps nothing. It may download, as a refresh does, ...
FetchLive(t) ==
  /\ refreshes[t] = NotRefreshing /\ Unlocked(Api) /\ litellmCache # Prices
  /\ refreshes' = [refreshes EXCEPT ![t] =
       [Refresh(Api, FALSE) EXCEPT !.step = "save", !.live = TRUE]]
  /\ UNCHANGED <<configFile, litellmCache, remoteCosts, inForce, notices, hadPrices,
                 interrupted, untold, behind>>

\* ... or find a fresh cache, or no network.
AnswerQuery ==
  /\ Unlocked(Api)
  /\ remoteCosts' = [remoteCosts EXCEPT ![Api] =
       IF litellmCache = Prices THEN Prices ELSE Fallback(Api)]
  /\ UNCHANGED <<configFile, litellmCache, inForce, refreshes, notices, hadPrices,
                 interrupted, untold, behind>>

(* ---- the API changes the file ------------------------------------------------- *)

\* patch_config and update_evaluation_config write in the event loop, which
\* serves nothing else meanwhile; threads of other refreshes read on.
OpenForWrite ==
  /\ configFile.whole /\ configFile.patches < MaxPatches
  /\ configFile' = [configFile EXCEPT !.whole = FALSE]
  /\ UNCHANGED <<litellmCache, remoteCosts, inForce, refreshes, notices, hadPrices,
                 interrupted, untold, behind>>

Written == [patches |-> configFile.patches + 1, whole |-> TRUE]

\* patch_config starts a refresh, which tells the proxy when it is done.
WritePatch(t) ==
  /\ ~configFile.whole /\ refreshes[t] = NotRefreshing
  /\ configFile' = Written
  /\ refreshes' = Started(t, Api, TRUE)
  /\ UNCHANGED <<litellmCache, remoteCosts, inForce, notices, hadPrices,
                 interrupted, untold, behind>>

\* set_evaluation_evaluator reloads CONFIG alone, at once, and tells no one.
WriteEvaluator ==
  /\ ~configFile.whole
  /\ configFile' = Written
  /\ inForce' = [inForce EXCEPT ![Api].config = configFile.patches + 1]
  /\ refreshes' = [t \in Refreshers |->
       IF t \in Swapping(Api) /\ refreshes[t].step # "load"
         THEN [refreshes[t] EXCEPT !.passed = TRUE] ELSE refreshes[t]]
  /\ behind' = behind \ {<<Api, "config">>}
  /\ untold' = untold \cup {Proxy}
  /\ UNCHANGED <<litellmCache, remoteCosts, notices, hadPrices, interrupted>>

\* _notify_proxy_refresh, and refresh_config of the proxy.
NotifyProxy(t) ==
  /\ notices /\ refreshes[t] = NotRefreshing
  /\ notices' = FALSE
  /\ refreshes' = Started(t, Proxy, FALSE)
  /\ UNCHANGED <<configFile, litellmCache, remoteCosts, inForce, hadPrices,
                 interrupted, untold, behind>>

LoseNotice ==
  /\ notices
  /\ notices' = FALSE
  /\ untold' = untold \cup {Proxy}
  /\ UNCHANGED <<configFile, litellmCache, remoteCosts, inForce, refreshes, hadPrices,
                 interrupted, behind>>

(* ---- processes and time -------------------------------------------------------- *)

\* A process dies, and with it what its threads did and the API's notices; at boot
\* it refreshes before it serves.
Reboot(p, t) ==
  /\ \A u \in Refreshers \ Refreshing(p) : u # t \/ refreshes[u] = NotRefreshing
  /\ refreshes' = [u \in Refreshers |->
       IF u = t THEN Refresh(p, FALSE)
       ELSE IF u \in Refreshing(p) THEN NotRefreshing ELSE refreshes[u]]
  /\ remoteCosts' = [remoteCosts EXCEPT ![p] = Unloaded]
  /\ inForce' = [inForce EXCEPT ![p] = NotBooted]
  /\ notices' = (notices /\ p # Api)
  /\ hadPrices' = hadPrices \ {p} /\ interrupted' = interrupted \ {p}
  /\ untold' = IF p = Api /\ (notices \/ \E u \in Refreshing(Api) : refreshes[u].tells)
               THEN untold \cup {Proxy} ELSE untold
  /\ behind' = behind \ ({p} \X InForceParts)
  /\ UNCHANGED <<configFile, litellmCache>>

CacheExpires ==
  /\ litellmCache = Prices
  /\ litellmCache' = Stale
  /\ UNCHANGED <<configFile, remoteCosts, inForce, refreshes, notices, hadPrices,
                 interrupted, untold, behind>>

RefreshNext ==
  \/ \E t \in Refreshers :
       \/ LoadConfig(t) \/ FailLoad(t) \/ FetchFromCache(t) \/ FetchFromNet(t)
       \/ TruncateCache(t)
       \/ \E body \in {Prices, Absent, NotMapping}, written \in BOOLEAN :
            SaveCache(t, body, written)
       \/ FetchFails(t) \/ FetchRaises(t)
       \/ \E openrouter \in BOOLEAN : SwapMaps(t, openrouter)
       \/ FetchLive(t) \/ WritePatch(t) \/ NotifyProxy(t)
       \/ \E p \in ServerProcs : Reboot(p, t)
  \/ OpenForWrite \/ WriteEvaluator \/ LoseNotice \/ CacheExpires \/ AnswerQuery

RefreshSpec == RefreshInit /\ [][RefreshNext]_refreshVars

(* ---- properties ------------------------------------------------------------------ *)

RefreshTypeOK ==
  /\ configFile \in [patches : 1 .. MaxPatches, whole : BOOLEAN]
  /\ litellmCache \in {Absent, Stale, Prices}
  /\ remoteCosts \in [ServerProcs -> {Unloaded, Absent, Prices}]
  /\ inForce \in [ServerProcs -> [config : 0 .. MaxPatches, priced : BOOLEAN]]
  /\ refreshes \in [Refreshers -> {NotRefreshing} \cup RefreshStates]
  /\ untold \cup hadPrices \cup interrupted \subseteq ServerProcs
  /\ behind \subseteq ServerProcs \X InForceParts /\ notices \in BOOLEAN

\* A change that is under way for a process.
Awaiting(p) ==
  \/ ~configFile.whole \/ Swapping(p) # {}
  \/ p = Proxy /\ (notices \/ \E t \in Refreshing(Api) : refreshes[t].tells)

\* Once the dust settles the API and the proxy run the configuration in the file,
\* unless a refresh was overtaken by a later one or the proxy was never told. A
\* process into which a refresh loaded LiteLLM's prices never forgets them, whatever
\* becomes of the cache file, the network, and other fetches; it prices with them
\* too, unless its last refresh was overtaken or its download raised: then until
\* the next one only, which needs no network for it (refresh_runtime_config,
\* fetch_sources, fetch_remote_pricing, patch_config).
RefreshTakesHold ==
  /\ \A p \in {Api, Proxy} :
       ~Awaiting(p) /\ p \notin untold /\ <<p, "config">> \notin behind =>
         inForce[p].config = configFile.patches
  /\ \A p \in hadPrices : remoteCosts[p] = Prices
  /\ \A p \in hadPrices :
       Swapping(p) = {} /\ p \notin interrupted /\ <<p, "prices">> \notin behind =>
         inForce[p].priced

===============================================================================
