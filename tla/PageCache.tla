----------------------------- MODULE PageCache -----------------------------
(***************************************************************************)
(* The page cache of ONE site on one node: requests that look up, render   *)
(* and store pages (PageCacheFilter), files that change, the watcher that  *)
(* expires their pages (RepositoryWatcher), expiry by prefix in a thread   *)
(* of its own, by element, by time and by eviction (CacheService), and the *)
(* reloads of the site (CoreService.shutdownSite, InitializerService).     *)
(*                                                                         *)
(* The cache outlives the generations of the site.  A reload clears it     *)
(* only if the property is set and the applications shut down; a watcher   *)
(* runs only if the property is set, and not between two generations.  And *)
(* nothing relates a page that is being rendered to the expiries and the   *)
(* clearing that happen meanwhile.                                         *)
(***************************************************************************)
EXTENDS Naturals, FiniteSets

CONSTANTS
  Pages,        \* paths; a prefix stands for the page under it
  Methods,      \* the cacheable HTTP methods in play
  Readers,      \* request threads
  Expirers,     \* threads that expire by prefix, one per call
  UseListener,  \* site property cacheUseEntryListener
  ByCreation,   \* site property cacheExpireElementsByCreation
  Clears,       \* the values of cacheClearOnShutdown
  Watches,      \* the values of cacheWatchRepository, with a directory to watch
  MayOverflow,  \* the watch service may overflow
  MaxChanges,   \* bound: changes of files
  MaxReloads    \* bound: reloads of the site

ASSUME PageCacheAssumption ==
  /\ Methods \subseteq {"GET", "HEAD"} /\ Methods # {} /\ Pages # {}
  /\ {MaxChanges, MaxReloads} \subseteq Nat
  /\ {UseListener, ByCreation, MayOverflow} \subseteq BOOLEAN
  /\ Clears \subseteq BOOLEAN /\ Watches \subseteq BOOLEAN

\* calculateKey, without the query.
Keys == Methods \X Pages

GetKeys == {k \in Keys : k[1] = "GET"}

\* The steps of a reload.  "up" and "waiting" are STARTED (a SUSPENDED site is
\* one that is up and gets no request); "failed" is a reload that has failed.
SiteSteps == {"up", "waiting", "closing", "announced", "removed", "down",
              "loading", "failed"}

VARIABLES
  content,    \* version of each file
  site,       \* step of the site
  generation, \* its current or last generation
  watching,   \* a watcher waits for events
  cache,      \* the entries, by key
  tracked,    \* CacheEntryListener.keys
  reader,     \* step and key of each request, and what it renders
  changed,    \* pages with a watch event that will be handled
  task,       \* what each expirer does
  lost,       \* history: pages changed unnoticed since their last expiry
  uncleared,  \* history: the generations that ended without clearing
  done        \* changes and reloads so far

siteVars == <<site, generation, watching, uncleared>>

vars == <<content, siteVars, cache, tracked, reader, changed, task, lost, done>>

\* History of a rendered page: an expiry or a clearing passed by when its file
\* was newer; the cache was cleared while the request was served.
Passed == {"outdated", "outlived"}

\* An entry: the version of the file and the generation it was rendered from,
\* and whether it was used since the time to live last ended.
Entries == [file : Nat, gen : Nat, late : SUBSET Passed, used : BOOLEAN]

NoEntry == [file |-> 0, gen |-> 0, late |-> {}, used |-> FALSE]

Cached == DOMAIN cache

PageTypeOK ==
  /\ content \in [Pages -> Nat]
  /\ site \in SiteSteps
  /\ generation \in Nat
  /\ watching \in BOOLEAN
  /\ Cached \subseteq Keys
  /\ cache \in [Cached -> Entries]
  /\ tracked \subseteq Keys
  /\ reader \in [Readers -> [step : {"idle", "missed", "admitted", "rendered"},
                             key : Keys, file : Nat, gen : Nat, late : SUBSET Passed]]
  /\ changed \subseteq Pages
  /\ task \in [Expirers -> [step : {"idle", "submitted", "removing"},
                            page : Pages, keys : SUBSET GetKeys]]
  /\ lost \subseteq Pages
  /\ uncleared \subseteq 0..generation
  /\ done \in [changes : 0..MaxChanges, reloads : 0..MaxReloads]

Init ==
  /\ content = [p \in Pages |-> 0]
  /\ site = "up"
  /\ generation = 0
  /\ watching \in Watches
  /\ cache = [k \in {} |-> NoEntry]
  /\ tracked = {}
  /\ reader = [r \in Readers |-> [step |-> "idle", key |-> CHOOSE k \in Keys : TRUE,
                                  file |-> 0, gen |-> 0, late |-> {}]]
  /\ changed = {}
  /\ task = [e \in Expirers |-> [step |-> "idle", page |-> CHOOSE p \in Pages : TRUE,
                                 keys |-> {}]]
  /\ lost = {}
  /\ uncleared = {}
  /\ done = [changes |-> 0, reloads |-> 0]

-----------------------------------------------------------------------------
(* The cache and its listener.                                             *)

Without(removed) == [k \in Cached \ removed |-> cache[k]]

\* onRemoved and onExpired are synchronous.
Remove(removed) ==
  /\ cache' = Without(removed)
  /\ tracked' = tracked \ (removed \cap Cached)

\* onCreated is called for a new key only; there is no onUpdated.
StoreTracked(k) ==
  IF UseListener /\ k \notin Cached THEN tracked \cup {k} ELSE tracked

Store(k, entry) ==
  /\ cache' = [l \in Cached \cup {k} |-> IF l = k THEN entry ELSE cache[l]]
  /\ tracked' = StoreTracked(k)

-----------------------------------------------------------------------------
(* Requests: PageCacheFilter.getCachedResponse and Controller.doGet.       *)

\* Whatever the site's state is.
Hit(r, k) ==
  /\ reader[r].step = "idle"
  /\ k \in Cached
  /\ cache' = [cache EXCEPT ![k].used = TRUE]
  /\ UNCHANGED <<content, siteVars, tracked, reader, changed, task, lost, done>>

Miss(r, k) ==
  /\ reader[r].step = "idle"
  /\ k \notin Cached
  /\ reader' = [reader EXCEPT ![r].step = "missed", ![r].key = k]
  /\ UNCHANGED <<content, siteVars, cache, tracked, changed, task, lost, done>>

Serves == site \in {"up", "waiting"}

\* performRequest, to a generation that is STARTED.
Admit(r) ==
  /\ reader[r].step = "missed"
  /\ Serves
  /\ reader' = [reader EXCEPT ![r].step = "admitted", ![r].gen = generation]
  /\ UNCHANGED <<content, siteVars, cache, tracked, changed, task, lost, done>>

\* What the chain renders now.
Render(r) ==
  /\ reader[r].step = "admitted"
  /\ reader' = [reader EXCEPT ![r].step = "rendered",
                              ![r].file = content[reader[r].key[2]]]
  /\ UNCHANGED <<content, siteVars, cache, tracked, changed, task, lost, done>>

Done(r) ==
  reader' = [reader EXCEPT ![r].step = "idle", ![r].file = 0, ![r].gen = 0,
                           ![r].late = {}]

\* put, whatever has been expired or cleared meanwhile.
Put(r) ==
  /\ reader[r].step = "rendered"
  /\ Store(reader[r].key, [file |-> reader[r].file, gen |-> reader[r].gen,
                           late |-> reader[r].late, used |-> TRUE])
  /\ Done(r)
  /\ UNCHANGED <<content, siteVars, changed, task, lost, done>>

\* A response that is not OK is not stored: an error, or the site is down.
NotOk(r) ==
  /\ reader[r].step = "rendered" \/ (reader[r].step = "missed" /\ ~Serves)
  /\ Done(r)
  /\ UNCHANGED <<content, siteVars, cache, tracked, changed, task, lost, done>>

Outdated(r) ==
  reader[r].step = "rendered" /\ reader[r].file < content[reader[r].key[2]]

Outlived(r) == reader[r].step \in {"admitted", "rendered"}

-----------------------------------------------------------------------------
(* Files, and the RepositoryWatcher.                                       *)

\* A file is written.  A watcher has an event for it, unless events overflow.
Change(p) ==
  /\ done.changes < MaxChanges
  /\ done' = [done EXCEPT !.changes = @ + 1]
  /\ content' = [content EXCEPT ![p] = @ + 1]
  /\ \/ /\ watching
        /\ changed' = changed \cup {p}
        /\ UNCHANGED lost
     \/ /\ ~watching \/ MayOverflow
        /\ lost' = lost \cup {p}
        /\ UNCHANGED changed
  /\ UNCHANGED <<siteVars, cache, tracked, reader, task>>

\* removeFromCache: expireCacheElementsByPrefix submits to a new thread.
WatchEvent(p, e) ==
  /\ p \in changed
  /\ task[e].step = "idle"
  /\ changed' = changed \ {p}
  /\ task' = [task EXCEPT ![e] = [step |-> "submitted", page |-> p, keys |-> {}]]
  /\ UNCHANGED <<content, siteVars, cache, tracked, reader, lost, done>>

\* Variants: the prefix stands for every method; it is not completed with one,
\* so that no key starts with it.
HasPathPrefix(k, p) == k[2] = p
HasBarePrefix(k, p) == FALSE

\* completePrefix = "GET" + prefix.
HasPrefix(k, p) == k[1] = "GET" /\ k[2] = p

KnownKeys == IF UseListener THEN tracked ELSE Cached

\* The keys to remove are a copy of the listener's, or of the cache's.
Collect(e) ==
  /\ task[e].step = "submitted"
  /\ LET page == task[e].page
         found == {k \in KnownKeys : HasPrefix(k, page)}
     IN /\ task' = [task EXCEPT ![e].step = "removing", ![e].keys = found]
        /\ lost' = lost \ {page}
        /\ reader' = [r \in Readers |->
             IF Outdated(r) /\ reader[r].key[2] = page
             THEN [reader[r] EXCEPT !.late = @ \cup {"outdated"}] ELSE reader[r]]
  /\ UNCHANGED <<content, siteVars, cache, tracked, changed, done>>

\* In parallel, so in any order.
RemoveKey(e, k) ==
  /\ task[e].step = "removing"
  /\ k \in task[e].keys
  /\ task' = [task EXCEPT ![e].keys = @ \ {k}]
  /\ Remove({k})
  /\ UNCHANGED <<content, siteVars, reader, changed, lost, done>>

EndTask(e) ==
  /\ task[e].step = "removing"
  /\ task[e].keys = {}
  /\ task' = [task EXCEPT ![e].step = "idle"]
  /\ UNCHANGED <<content, siteVars, cache, tracked, reader, changed, lost, done>>

-----------------------------------------------------------------------------
(* Elements that go: by the administrator, by time, by eviction.           *)

\* expireCacheElement.
ExpireElement(k) ==
  /\ k \in Cached
  /\ Remove({k})
  /\ UNCHANGED <<content, siteVars, reader, changed, task, lost, done>>

\* Variant: elements expire by access, whatever the property says.
OverByAccess(k) == ~cache[k].used

\* The expiry policy: from creation, or from the last access.
Over(k) == ByCreation \/ ~cache[k].used

TimeOut(k) ==
  /\ k \in Cached
  /\ Over(k)
  /\ Remove({k})
  /\ UNCHANGED <<content, siteVars, reader, changed, task, lost, done>>

\* A time to live without access goes by.
Tick(k) ==
  /\ k \in Cached
  /\ cache[k].used
  /\ cache' = [cache EXCEPT ![k].used = FALSE]
  /\ UNCHANGED <<content, siteVars, tracked, reader, changed, task, lost, done>>

\* EvictionPolicy.LRU: no listener hears of it.
Evict(k) ==
  /\ k \in Cached
  /\ cache' = Without({k})
  /\ UNCHANGED <<content, siteVars, tracked, reader, changed, task, lost, done>>

-----------------------------------------------------------------------------
(* Reloads of the site: shutDownSite, CoreService.shutdownSite, loadSite.  *)

SiteGoes(from, to) == site \in from /\ site' = to

\* The site threads are interrupted.  Of the events, a watcher still handles
\* the batch it has polled.  A generation that is not STARTED any more is not
\* shut down again.
ShutDownSite ==
  /\ done.reloads < MaxReloads
  /\ done' = [done EXCEPT !.reloads = @ + 1]
  /\ SiteGoes({"up"}, "waiting") \/ SiteGoes({"failed"}, "down")
  /\ watching' = FALSE
  /\ \E batch \in SUBSET changed :
       /\ changed' = batch
       /\ lost' = lost \cup (changed \ batch)
  /\ UNCHANGED <<content, generation, uncleared, cache, tracked, reader, task>>

\* setState(STOPPING): no request is admitted any more.
SetStopping ==
  /\ SiteGoes({"waiting"}, "closing")
  /\ UNCHANGED <<content, generation, watching, uncleared, cache, tracked, reader,
                 changed, task, lost, done>>

\* An application does not shut down: the generation stays STOPPING, and its
\* pages stay in the cache.
FailShutdown ==
  /\ SiteGoes({"closing"}, "failed")
  /\ uncleared' = uncleared \cup {generation}
  /\ UNCHANGED <<content, generation, watching, cache, tracked, reader, changed,
                 task, lost, done>>

\* The contexts are closed; clearCache, if the property says so.
CloseSite ==
  /\ \E clears \in Clears :
       /\ SiteGoes({"closing"}, IF clears THEN "announced" ELSE "down")
       /\ uncleared' = IF clears THEN uncleared ELSE uncleared \cup {generation}
  /\ UNCHANGED <<content, generation, watching, cache, tracked, reader, changed,
                 task, lost, done>>

\* Variant: what expiry by prefix would find.
FindableKeys == Cached \cap GetKeys

KeysToClear == Cached

\* removeAll.  Without a listener, the next call fails, and so does the reload.
RemoveAll ==
  /\ SiteGoes({"announced"}, IF UseListener THEN "removed" ELSE "failed")
  /\ Remove(KeysToClear)
  /\ lost' = {}
  /\ reader' = [r \in Readers |-> [reader[r] EXCEPT !.late =
        @ \cup (IF Outdated(r) THEN {"outdated"} ELSE {})
          \cup (IF Outlived(r) THEN {"outlived"} ELSE {})]]
  /\ UNCHANGED <<content, generation, watching, uncleared, changed, task, done>>

\* The listener is cleared in a step of its own.
ClearListener ==
  /\ SiteGoes({"removed"}, "down")
  /\ tracked' = {}
  /\ UNCHANGED <<content, generation, watching, uncleared, cache, reader, changed,
                 task, lost, done>>

\* startRepositoryWatcher, in the load that follows.
StartWatcher ==
  /\ SiteGoes({"down"}, "loading")
  /\ watching' \in Watches
  /\ UNCHANGED <<content, generation, uncleared, cache, tracked, reader, changed,
                 task, lost, done>>

SetStarted ==
  /\ SiteGoes({"loading"}, "up")
  /\ generation' = generation + 1
  /\ UNCHANGED <<content, watching, uncleared, cache, tracked, reader, changed, task,
                 lost, done>>

\* The catch block of getSiteLoader stops no thread.
FailLoad ==
  /\ SiteGoes({"down", "loading"}, "failed")
  /\ UNCHANGED <<content, generation, watching, uncleared, cache, tracked, reader,
                 changed, task, lost, done>>

-----------------------------------------------------------------------------

ReaderStep(r) ==
  \/ \E k \in Keys : Hit(r, k) \/ Miss(r, k)
  \/ Admit(r) \/ Render(r) \/ Put(r) \/ NotOk(r)

ExpirerStep(e) ==
  \/ \E p \in Pages : WatchEvent(p, e)
  \/ Collect(e) \/ EndTask(e)
  \/ \E k \in Keys : RemoveKey(e, k)

ReloadStep ==
  \/ ShutDownSite \/ SetStopping \/ FailShutdown \/ CloseSite
  \/ RemoveAll \/ ClearListener
  \/ StartWatcher \/ SetStarted \/ FailLoad

Next ==
  \/ \E p \in Pages : Change(p)
  \/ \E r \in Readers : ReaderStep(r)
  \/ \E e \in Expirers : ExpirerStep(e)
  \/ \E k \in Keys : ExpireElement(k) \/ TimeOut(k) \/ Tick(k) \/ Evict(k)
  \/ ReloadStep

Spec == Init /\ [][Next]_vars

\* Time goes by for every element; nothing else has to happen.
FairSpec == Spec /\ \A k \in Keys : WF_vars(TimeOut(k))

-----------------------------------------------------------------------------
(* What the cache promises.                                                *)

OldFile(k) == cache[k].file < content[k[2]]

OldGeneration(k) == cache[k].gen < generation

\* An expiry that has still to reach the key.
WillExpire(k) ==
  \/ k[2] \in changed
  \/ \E e \in Expirers :
       /\ task[e].page = k[2]
       /\ task[e].step = "submitted" \/ k \in task[e].keys

\* A page is older than its file only as long as its expiry is under way, or
\* because its request was overtaken by the expiry or the clearing, because no
\* watcher has noticed a change since (none runs, it was interrupted or its
\* events overflowed), or because its key is not tracked: no order of changes,
\* expiries, reloads and requests leaves one behind in any other way.
StaleExplained ==
  \A k \in Cached \cap GetKeys :
     OldFile(k) => \/ WillExpire(k)
                   \/ "outdated" \in cache[k].late
                   \/ k[2] \in lost
                   \/ UseListener /\ k \notin tracked

\* A page of an earlier generation is in the cache only because its request was
\* still served when the cache was cleared, or because that generation ended
\* without clearing it: its shutdown failed, or cacheClearOnShutdown is off.
OldPagesExplained ==
  \A k \in Cached :
     OldGeneration(k) => "outlived" \in cache[k].late \/ cache[k].gen \in uncleared

\* With expiry by creation, whatever was left behind times out: in the end
\* the cache holds what would be rendered now.
EventuallyFresh == <>[](\A k \in Cached : ~OldFile(k) /\ ~OldGeneration(k))

\* The listener keeps track of the cache's keys, except while it is cleared.
KeepsTrack == site # "removed" => Cached \subseteq tracked

=============================================================================
