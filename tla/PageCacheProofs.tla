-------------------------- MODULE PageCacheProofs --------------------------
(***************************************************************************)
(* Proofs about PageCache, for any number of pages, requests, expiries and *)
(* changes: its types, that a page older than its file is explained, and   *)
(* that a page of an earlier generation of the site is explained.          *)
(***************************************************************************)
EXTENDS PageCache, TLAPS

Readings == [step : {"idle", "missed", "admitted", "rendered"}, key : Keys,
             file : Nat, gen : Nat, late : SUBSET Passed]

Tasks == [step : {"idle", "submitted", "removing"}, page : Pages,
          keys : SUBSET GetKeys]

LEMMA KeysTyped ==
  /\ \A k \in Keys : k[1] \in Methods /\ k[2] \in Pages
  /\ GetKeys \subseteq Keys
BY DEF Keys, GetKeys

LEMMA PageInitTyped == Init => PageTypeOK
<1> SUFFICES ASSUME Init PROVE PageTypeOK
  OBVIOUS
<1>1. (CHOOSE k \in Keys : TRUE) \in Keys /\ (CHOOSE p \in Pages : TRUE) \in Pages
  <2>1. \E k : k \in Keys
    <3>1. PICK m \in Methods, p \in Pages : TRUE
      BY PageCacheAssumption
    <3>2. <<m, p>> \in Keys
      BY <3>1 DEF Keys
    <3> QED
      BY <3>2
  <2>2. \E p : p \in Pages
    BY PageCacheAssumption
  <2> QED
    BY <2>1, <2>2
<1>2. reader \in [Readers -> Readings] /\ task \in [Expirers -> Tasks]
  BY <1>1 DEF Init, Readings, Tasks
<1>3. done \in [changes : 0..MaxChanges, reloads : 0..MaxReloads]
  BY PageCacheAssumption DEF Init
<1>4. cache \in [Cached -> Entries] /\ Cached = {}
  BY DEF Init, Cached
<1>5. watching \in BOOLEAN
  BY PageCacheAssumption DEF Init
<1> QED
  BY <1>2, <1>3, <1>4, <1>5 DEF Init, PageTypeOK, SiteSteps, Readings, Tasks

\* What the operators on the cache leave is typed.
LEMMA RemoveTyped ==
  ASSUME PageTypeOK, NEW removed, Remove(removed)
  PROVE  /\ Cached' = Cached \ removed
         /\ cache' \in [Cached' -> Entries]
         /\ \A k \in Cached' : cache'[k] = cache[k]
         /\ tracked' \subseteq Keys /\ tracked' \subseteq tracked
BY DEF PageTypeOK, Remove, Without, Cached

LEMMA UseTyped ==
  ASSUME PageTypeOK, NEW k \in Cached, NEW b \in BOOLEAN, cache' = [cache EXCEPT ![k].used = b]
  PROVE  /\ Cached' = Cached
         /\ cache' \in [Cached' -> Entries]
         /\ \A l \in Cached : /\ cache'[l].file = cache[l].file
                              /\ cache'[l].gen = cache[l].gen
                              /\ cache'[l].late = cache[l].late
<1>1. cache \in [Cached -> Entries]
  BY DEF PageTypeOK
<1>2. cache' = [cache EXCEPT ![k] = [cache[k] EXCEPT !.used = b]]
  OBVIOUS
<1>3. [cache[k] EXCEPT !.used = b] \in Entries
  BY <1>1 DEF Entries
<1>4. Cached' = Cached
  BY <1>1, <1>2 DEF Cached
<1>5. cache' \in [Cached' -> Entries]
  BY <1>1, <1>2, <1>3, <1>4
<1>6. cache[k] \in Entries
  BY <1>1
<1>7. \A l \in Cached : cache'[l] = IF l = k THEN [cache[k] EXCEPT !.used = b] ELSE cache[l]
  BY <1>1, <1>2
<1> QED
  BY <1>4, <1>5, <1>6, <1>7 DEF Entries

LEMMA StoreTyped ==
  ASSUME PageTypeOK, NEW k \in Keys, NEW entry \in Entries, Store(k, entry)
  PROVE  /\ Cached' = Cached \cup {k}
         /\ cache' \in [Cached' -> Entries]
         /\ cache'[k] = entry
         /\ \A l \in Cached' : l # k => cache'[l] = cache[l]
         /\ tracked' \subseteq Keys
         /\ \A l \in Keys : l # k => (l \in tracked' <=> l \in tracked)
BY DEF PageTypeOK, Store, StoreTracked, Cached

\* A clearing passes by: every request that is served is marked, and nothing
\* else about it changes.
LEMMA ClearPassesBy ==
  ASSUME PageTypeOK, RemoveAll
  PROVE  /\ reader' \in [Readers -> Readings]
         /\ \A r \in Readers :
              /\ reader'[r].step = reader[r].step
              /\ reader'[r].key = reader[r].key
              /\ reader'[r].file = reader[r].file
              /\ reader'[r].gen = reader[r].gen
              /\ Outdated(r) => "outdated" \in reader'[r].late
              /\ Outlived(r) => "outlived" \in reader'[r].late
<1>1. \A r \in Readers : reader[r] \in Readings
  BY DEF PageTypeOK, Readings
<1> QED
  BY <1>1 DEF RemoveAll, Readings, Passed

\* An expiry passes by: only the requests that hold an older version of its
\* page are marked.
LEMMA ExpiryPassesBy ==
  ASSUME PageTypeOK, NEW e \in Expirers, Collect(e)
  PROVE  /\ reader' \in [Readers -> Readings]
         /\ \A r \in Readers :
              /\ reader'[r].step = reader[r].step
              /\ reader'[r].key = reader[r].key
              /\ reader'[r].file = reader[r].file
              /\ reader'[r].gen = reader[r].gen
              /\ reader[r].late \subseteq reader'[r].late
              /\ Outdated(r) /\ reader[r].key[2] = task[e].page
                   => "outdated" \in reader'[r].late
<1>1. \A r \in Readers : reader[r] \in Readings
  BY DEF PageTypeOK, Readings
<1> QED
  BY <1>1 DEF Collect, Readings, Passed

LEMMA PageNextTyped == PageTypeOK /\ [Next]_vars => PageTypeOK'
<1> SUFFICES ASSUME PageTypeOK, [Next]_vars PROVE PageTypeOK'
  OBVIOUS
<1>0. /\ reader \in [Readers -> Readings] /\ task \in [Expirers -> Tasks]
      /\ content \in [Pages -> Nat]
      /\ \A k \in Cached : cache[k] \in Entries
  BY DEF PageTypeOK, Readings, Tasks
<1>1. CASE UNCHANGED vars
  BY <1>1 DEF vars, siteVars, PageTypeOK, Cached
<1>2. ASSUME NEW p \in Pages, Change(p) PROVE PageTypeOK'
  BY <1>2, PageCacheAssumption DEF Change, siteVars, PageTypeOK, Cached
<1>3. ASSUME NEW r \in Readers, ReaderStep(r) PROVE PageTypeOK'
  <2>1. ASSUME NEW k \in Keys, Hit(r, k) PROVE PageTypeOK'
    <3>1. Cached' = Cached /\ cache' \in [Cached' -> Entries]
      BY <2>1, UseTyped DEF Hit
    <3> QED
      BY <2>1, <3>1 DEF Hit, siteVars, PageTypeOK
  <2>2. ASSUME NEW k \in Keys, Miss(r, k) PROVE PageTypeOK'
    <3>1. reader' \in [Readers -> Readings]
      BY <1>0, <2>2 DEF Miss, Readings
    <3> QED
      BY <2>2, <3>1 DEF Miss, siteVars, PageTypeOK, Readings, Cached
  <2>3. CASE Render(r)
    <3>1. reader' \in [Readers -> Readings]
      <4>1. content[reader[r].key[2]] \in Nat
        BY <1>0, KeysTyped DEF Readings
      <4> QED
        BY <1>0, <2>3, <4>1 DEF Render, Readings
    <3> QED
      BY <2>3, <3>1 DEF Render, siteVars, PageTypeOK, Readings, Cached
  <2>4. CASE Put(r) \/ NotOk(r)
    <3>1. /\ reader' \in [Readers -> Readings]
          /\ UNCHANGED <<content, siteVars, changed, lost, task, done>>
      BY <1>0, <2>4 DEF Put, NotOk, Done, Readings
    <3>2. CASE NotOk(r)
      BY <3>1, <3>2 DEF NotOk, siteVars, PageTypeOK, Readings, Cached
    <3>3. CASE Put(r)
      <4>1. [file |-> reader[r].file, gen |-> reader[r].gen,
               late |-> reader[r].late, used |-> TRUE] \in Entries
        BY <1>0 DEF Readings, Entries
      <4>2. reader[r].key \in Keys
        BY <1>0 DEF Readings
      <4>3. /\ Cached' \subseteq Keys /\ cache' \in [Cached' -> Entries]
            /\ tracked' \subseteq Keys
        BY <3>3, <4>1, <4>2, StoreTyped DEF Put, PageTypeOK
      <4> QED
        BY <3>1, <4>3 DEF siteVars, PageTypeOK, Readings
    <3> QED
      BY <2>4, <3>2, <3>3
  <2>5. CASE Admit(r)
    <3>1. reader' \in [Readers -> Readings]
      <4>1. generation \in Nat
        BY DEF PageTypeOK
      <4> QED
        BY <1>0, <2>5, <4>1 DEF Admit, Readings
    <3> QED
      BY <2>5, <3>1 DEF Admit, siteVars, PageTypeOK, Readings, Cached
  <2> QED
    BY <1>3, <2>1, <2>2, <2>3, <2>4, <2>5 DEF ReaderStep
<1>4. ASSUME NEW e \in Expirers, ExpirerStep(e) PROVE PageTypeOK'
  <2>1. ASSUME NEW p \in Pages, WatchEvent(p, e) PROVE PageTypeOK'
    <3>1. task' \in [Expirers -> Tasks]
      BY <1>0, <2>1 DEF WatchEvent, Tasks
    <3> QED
      BY <2>1, <3>1 DEF WatchEvent, siteVars, PageTypeOK, Tasks, Cached
  <2>2. CASE Collect(e)
    <3>1. KnownKeys \subseteq Keys
      BY DEF KnownKeys, PageTypeOK
    <3>2. {k \in KnownKeys : HasPrefix(k, task[e].page)} \in SUBSET GetKeys
      BY <3>1 DEF HasPrefix, GetKeys
    <3>3. task' \in [Expirers -> Tasks]
      BY <1>0, <2>2, <3>2 DEF Collect, Tasks
    <3>4. reader' \in [Readers -> Readings]
      BY <2>2, ExpiryPassesBy
    <3> QED
      BY <2>2, <3>3, <3>4 DEF Collect, siteVars, PageTypeOK, Tasks, Readings, Cached
  <2>3. CASE EndTask(e)
    <3>1. task' \in [Expirers -> Tasks]
      BY <1>0, <2>3 DEF EndTask, Tasks
    <3> QED
      BY <2>3, <3>1 DEF EndTask, siteVars, PageTypeOK, Tasks, Cached
  <2>4. ASSUME NEW k \in Keys, RemoveKey(e, k) PROVE PageTypeOK'
    <3>1. task' \in [Expirers -> Tasks]
      BY <1>0, <2>4 DEF RemoveKey, Tasks
    <3>2. /\ Cached' \subseteq Keys /\ cache' \in [Cached' -> Entries]
          /\ tracked' \subseteq Keys
      BY <2>4, RemoveTyped DEF RemoveKey, PageTypeOK
    <3> QED
      BY <2>4, <3>1, <3>2 DEF RemoveKey, siteVars, PageTypeOK, Tasks
  <2> QED
    BY <1>4, <2>1, <2>2, <2>3, <2>4 DEF ExpirerStep
<1>5. ASSUME NEW k \in Keys, ExpireElement(k) \/ TimeOut(k) PROVE PageTypeOK'
  <2>1. /\ Cached' \subseteq Keys /\ cache' \in [Cached' -> Entries]
        /\ tracked' \subseteq Keys
    BY <1>5, RemoveTyped DEF ExpireElement, TimeOut, PageTypeOK
  <2> QED
    BY <1>5, <2>1 DEF ExpireElement, TimeOut, siteVars, PageTypeOK
<1>6. ASSUME NEW k \in Keys, Tick(k) PROVE PageTypeOK'
  <2>1. Cached' = Cached /\ cache' \in [Cached' -> Entries]
    BY <1>6, UseTyped DEF Tick
  <2> QED
    BY <1>6, <2>1 DEF Tick, siteVars, PageTypeOK
<1>7. ASSUME NEW k \in Keys, Evict(k) PROVE PageTypeOK'
  BY <1>0, <1>7 DEF Evict, siteVars, Without, PageTypeOK, Cached
<1>8. CASE ShutDownSite
  <2>1. site' \in SiteSteps
    BY <1>8 DEF ShutDownSite, SiteGoes, SiteSteps
  <2>2. done' \in [changes : 0..MaxChanges, reloads : 0..MaxReloads]
    BY <1>8, PageCacheAssumption DEF ShutDownSite, PageTypeOK
  <2>3. changed' \subseteq Pages /\ lost' \subseteq Pages /\ watching' \in BOOLEAN
    BY <1>8 DEF ShutDownSite, PageTypeOK
  <2> QED
    BY <1>8, <2>1, <2>2, <2>3 DEF ShutDownSite, PageTypeOK, Cached
<1>9. CASE RemoveAll
  <2>1. /\ Cached' \subseteq Keys /\ cache' \in [Cached' -> Entries]
        /\ tracked' \subseteq Keys
    BY <1>9, RemoveTyped DEF RemoveAll, PageTypeOK
  <2>2. reader' \in [Readers -> Readings]
    BY <1>9, ClearPassesBy
  <2>3. site' \in SiteSteps
    BY <1>9 DEF RemoveAll, SiteGoes, SiteSteps
  <2> QED
    BY <1>9, <2>1, <2>2, <2>3 DEF RemoveAll, PageTypeOK, Readings
<1>10. CASE SetStopping \/ FailShutdown \/ CloseSite \/ ClearListener
            \/ StartWatcher \/ SetStarted \/ FailLoad
  <2>1. site' \in SiteSteps
    BY <1>10 DEF SetStopping, FailShutdown, CloseSite, ClearListener, StartWatcher,
       SetStarted, FailLoad, SiteGoes, SiteSteps
  <2>2. generation' \in {generation, generation + 1} /\ generation' \in Nat
    BY <1>10 DEF SetStopping, FailShutdown, CloseSite, ClearListener, StartWatcher,
       SetStarted, FailLoad, PageTypeOK
  <2>3. uncleared' \subseteq uncleared \cup {generation}
    BY <1>10 DEF SetStopping, FailShutdown, CloseSite, ClearListener, StartWatcher,
       SetStarted, FailLoad
  <2>4. uncleared' \subseteq 0..generation'
    BY <2>2, <2>3 DEF PageTypeOK
  <2>5. watching' \in BOOLEAN /\ tracked' \subseteq Keys
    BY <1>10, PageCacheAssumption DEF SetStopping, FailShutdown, CloseSite, ClearListener,
       StartWatcher, SetStarted, FailLoad, PageTypeOK
  <2>6. UNCHANGED <<content, cache, reader, changed, task, lost, done>>
    BY <1>10 DEF SetStopping, FailShutdown, CloseSite, ClearListener, StartWatcher,
       SetStarted, FailLoad
  <2> QED
    BY <2>1, <2>2, <2>4, <2>5, <2>6 DEF PageTypeOK, Cached
<1> QED
  BY <1>1, <1>2, <1>3, <1>4, <1>5, <1>6, <1>7, <1>8, <1>9, <1>10 DEF Next, ReloadStep

\* Every variable has its type.
THEOREM PageTyping == Spec => []PageTypeOK
BY PageInitTyped, PageNextTyped, PTL DEF Spec

-----------------------------------------------------------------------------
(* Why a page is older than its file.                                      *)

\* An expiry that a page rendered now would still meet in the cache, or that
\* will not come.
Announced(p) ==
  \/ p \in changed \/ p \in lost
  \/ \E e \in Expirers : task[e].page = p /\ task[e].step = "submitted"

\* A request that holds an older version was overtaken, or the expiry is still
\* to come, or will not.
RendersExplained ==
  \A r \in Readers :
     Outdated(r) /\ reader[r].key \in GetKeys =>
        "outdated" \in reader[r].late \/ Announced(reader[r].key[2])

\* What explains an old page without its request.
Pending(k) == WillExpire(k) \/ k[2] \in lost \/ (UseListener /\ k \notin tracked)

\* Only an expirer that removes has keys.
TasksClean == \A e \in Expirers : task[e].step # "removing" => task[e].keys = {}

StaleInv == PageTypeOK /\ TasksClean /\ RendersExplained /\ StaleExplained

LEMMA StaleInit == Init => StaleInv
BY PageInitTyped
DEF Init, StaleInv, TasksClean, RendersExplained, Outdated, StaleExplained, Cached

LEMMA StaleMeans ==
  StaleExplained <=> \A k \in Cached \cap GetKeys :
                        OldFile(k) => "outdated" \in cache[k].late \/ Pending(k)
BY DEF StaleExplained, Pending

\* A step that changes no page and only removes entries keeps the explanations,
\* if it keeps what explains an entry without its request.
LEMMA EntriesKept ==
  ASSUME StaleInv, content' = content, Cached' \subseteq Cached,
         \A k \in Cached' : cache'[k].file = cache[k].file /\ cache'[k].late = cache[k].late,
         \A k \in Cached' \cap GetKeys : Pending(k) => Pending(k)'
  PROVE  StaleExplained'
<1>1. \A k \in Cached' \cap GetKeys : OldFile(k)' => OldFile(k)
  BY DEF OldFile
<1>2. \A k \in Cached' \cap GetKeys :
         OldFile(k)' => "outdated" \in cache'[k].late \/ Pending(k)'
  BY <1>1, StaleMeans DEF StaleInv
<1> QED
  BY <1>2 DEF StaleExplained, Pending

\* A step that changes no page keeps what is said of the requests that stay as
\* they are, if it keeps the announcements.
LEMMA RendersKept ==
  ASSUME StaleInv, content' = content,
         \A r \in Readers :
            reader'[r].step = "rendered" =>
              /\ reader[r].step = "rendered" /\ reader'[r].key = reader[r].key
              /\ reader'[r].file = reader[r].file
              /\ \/ reader[r].late \subseteq reader'[r].late
                 \/ Outdated(r) => "outdated" \in reader'[r].late
              /\ \/ Announced(reader[r].key[2]) => Announced(reader[r].key[2])'
                 \/ Outdated(r) => "outdated" \in reader'[r].late
  PROVE  RendersExplained'
BY DEF StaleInv, RendersExplained, Outdated

\* Requests: a rendered page is of the version there is, and what is put was
\* explained before.
LEMMA StaleReader ==
  ASSUME StaleInv, NEW r \in Readers, ReaderStep(r)
  PROVE  RendersExplained' /\ StaleExplained'
<1>0. /\ reader \in [Readers -> Readings] /\ content \in [Pages -> Nat]
      /\ Cached \subseteq Keys
      /\ \A k \in Cached : cache[k] \in Entries
  BY DEF StaleInv, PageTypeOK, Readings
<1>1. UNCHANGED <<content, changed, lost, task>>
  BY DEF ReaderStep, Hit, Miss, Admit, Render, Put, NotOk
<1>2. \A p \in Pages : Announced(p) => Announced(p)'
  BY <1>1 DEF Announced
<1>3. \A k \in Keys : WillExpire(k) => WillExpire(k)'
  BY <1>1 DEF WillExpire
<1>4. \A q \in Readers : reader[q].key \in Keys /\ reader[q].key[2] \in Pages
  BY <1>0, KeysTyped DEF Readings
<1>5. ASSUME UNCHANGED tracked, Cached' = Cached,
             \A k \in Cached : cache'[k].file = cache[k].file /\ cache'[k].late = cache[k].late
      PROVE  StaleExplained'
  <2>1. \A k \in Cached' \cap GetKeys : Pending(k) => Pending(k)'
    BY <1>0, <1>1, <1>3, <1>5 DEF Pending
  <2> QED
    BY <1>1, <1>5, <2>1, EntriesKept
<1>6. ASSUME UNCHANGED <<cache, tracked>> PROVE StaleExplained'
  BY <1>5, <1>6 DEF Cached
<1>7. ASSUME NEW k \in Keys, Hit(r, k) PROVE RendersExplained' /\ StaleExplained'
  <2>1. RendersExplained'
    BY <1>2, <1>4, <1>7, RendersKept DEF Hit
  <2>2. /\ Cached' = Cached
        /\ \A l \in Cached : cache'[l].file = cache[l].file /\ cache'[l].late = cache[l].late
    BY <1>7, UseTyped DEF Hit, StaleInv
  <2> QED
    BY <1>5, <1>7, <2>1, <2>2 DEF Hit
<1>8. ASSUME \A q \in Readers : reader'[q].step = "rendered" => reader'[q] = reader[q]
      PROVE  RendersExplained'
  BY <1>1, <1>2, <1>4, <1>8, RendersKept
<1>9. ASSUME NEW k \in Keys, Miss(r, k) \/ Admit(r) \/ NotOk(r)
      PROVE  RendersExplained' /\ StaleExplained'
  <2>1. \A q \in Readers : reader'[q].step = "rendered" => reader'[q] = reader[q]
    BY <1>0, <1>9 DEF Miss, Admit, NotOk, Done, Readings
  <2> QED
    BY <1>6, <1>8, <1>9, <2>1 DEF Miss, Admit, NotOk
<1>10. CASE Render(r)
  <2>1. /\ \A q \in Readers : q # r => reader'[q] = reader[q]
        /\ reader'[r].key = reader[r].key
        /\ reader'[r].file = content[reader[r].key[2]]
    BY <1>0, <1>10 DEF Render, Readings
  <2>2. content[reader[r].key[2]] \in Nat
    BY <1>0, <1>4
  <2>3. ~Outdated(r)'
    BY <1>1, <2>1, <2>2 DEF Outdated
  <2>4. RendersExplained'
    <3> SUFFICES ASSUME NEW q \in Readers, Outdated(q)', reader'[q].key \in GetKeys
                 PROVE  ("outdated" \in reader[q].late \/ Announced(reader[q].key[2]))'
      BY DEF RendersExplained
    <3>1. q # r /\ reader'[q] = reader[q]
      BY <2>1, <2>3
    <3>2. "outdated" \in reader[q].late \/ Announced(reader[q].key[2])
      BY <1>1, <3>1 DEF StaleInv, RendersExplained, Outdated
    <3> QED
      BY <1>2, <1>4, <3>1, <3>2
  <2> QED
    BY <1>6, <1>10, <2>4 DEF Render
<1>11. CASE Put(r)
  <2> DEFINE key == reader[r].key
             entry == [file |-> reader[r].file, gen |-> reader[r].gen,
                       late |-> reader[r].late, used |-> TRUE]
  <2>1. entry \in Entries /\ reader[r].step = "rendered" /\ Store(key, entry)
    BY <1>0, <1>11 DEF Put, Readings, Entries
  <2>2. /\ Cached' = Cached \cup {key} /\ cache'[key] = entry
        /\ \A l \in Cached' : l # key => cache'[l] = cache[l]
        /\ \A l \in Keys : l # key => (l \in tracked' <=> l \in tracked)
    BY <1>4, <2>1, StoreTyped DEF StaleInv
  <2>3. RendersExplained'
    <3>1. \A q \in Readers : reader'[q].step = "rendered" => reader'[q] = reader[q]
      BY <1>0, <1>11 DEF Put, Done, Readings
    <3> QED
      BY <1>8, <3>1
  <2>4. ASSUME NEW k \in Cached' \cap GetKeys, OldFile(k)'
        PROVE  "outdated" \in cache'[k].late \/ Pending(k)'
    <3>1. CASE k = key
      <4>1. Outdated(r)
        BY <1>1, <2>1, <2>2, <2>4, <3>1 DEF OldFile, Outdated
      <4>2. "outdated" \in reader[r].late \/ Announced(key[2])
        BY <2>4, <3>1, <4>1 DEF StaleInv, RendersExplained
      <4>3. Announced(key[2]) => key[2] \in lost \/ WillExpire(key)
        BY DEF Announced, WillExpire
      <4> QED
        BY <1>1, <1>3, <1>4, <2>2, <3>1, <4>2, <4>3 DEF Pending
    <3>2. CASE k # key
      <4>1. k \in Cached /\ k \in Keys /\ cache'[k] = cache[k]
        BY <1>0, <2>2, <2>4, <3>2
      <4>2. OldFile(k)
        BY <1>1, <2>4, <4>1 DEF OldFile
      <4>3. "outdated" \in cache[k].late \/ Pending(k)
        BY <2>4, <4>1, <4>2, StaleMeans DEF StaleInv
      <4> QED
        BY <1>1, <1>3, <2>2, <3>2, <4>1, <4>3 DEF Pending
    <3> QED
      BY <3>1, <3>2
  <2>5. StaleExplained'
    BY <2>4 DEF StaleExplained, Pending
  <2> QED
    BY <2>3, <2>5
<1>12. \E k : k \in Keys
  BY <1>4
<1> QED
  BY <1>7, <1>9, <1>10, <1>11, <1>12 DEF ReaderStep

\* Expiry by prefix: who has rendered an older version is marked, and what is
\* cached of the page and known will be removed.
LEMMA StaleExpirer ==
  ASSUME StaleInv, NEW e \in Expirers, ExpirerStep(e)
  PROVE  RendersExplained' /\ StaleExplained'
<1>0. /\ reader \in [Readers -> Readings] /\ task \in [Expirers -> Tasks]
      /\ Cached \subseteq Keys
      /\ \A q \in Readers : reader[q].key \in Keys /\ reader[q].key[2] \in Pages
      /\ \A k \in Keys : k[2] \in Pages
  <2>1. reader \in [Readers -> Readings]
    BY DEF StaleInv, PageTypeOK, Readings
  <2> QED
    BY <2>1, KeysTyped DEF StaleInv, PageTypeOK, Readings, Tasks
<1>1. content' = content
  BY DEF ExpirerStep, WatchEvent, Collect, EndTask, RemoveKey
<1>2. ASSUME UNCHANGED <<cache, tracked>>,
             \A k \in Cached \cap GetKeys : Pending(k) => Pending(k)'
      PROVE  StaleExplained'
  <2>1. Cached' = Cached
    BY <1>2 DEF Cached
  <2> QED
    BY <1>1, <1>2, <2>1, EntriesKept
<1>3. ASSUME reader' = reader, \A p \in Pages : Announced(p) => Announced(p)'
      PROVE  RendersExplained'
  BY <1>0, <1>1, <1>3, RendersKept
<1>4. ASSUME NEW p \in Pages, WatchEvent(p, e) PROVE RendersExplained' /\ StaleExplained'
  <2>1. /\ task'[e] = [step |-> "submitted", page |-> p, keys |-> {}]
        /\ task[e].step = "idle" /\ changed' = changed \ {p}
        /\ \A f \in Expirers : f # e => task'[f] = task[f]
        /\ UNCHANGED <<cache, tracked, reader, lost>>
    BY <1>0, <1>4 DEF WatchEvent
  <2>2. \A q \in Pages : Announced(q) => Announced(q)'
    BY <2>1 DEF Announced
  <2>3. task[e].keys = {}
    BY <2>1 DEF StaleInv, TasksClean
  <2>4. \A k \in Cached : WillExpire(k) => WillExpire(k)'
    BY <1>0, <2>1, <2>3 DEF WillExpire
  <2> QED
    BY <1>2, <1>3, <2>1, <2>2, <2>4 DEF Pending
<1>5. CASE Collect(e)
  <2> DEFINE p == task[e].page
             found == {k \in KnownKeys : HasPrefix(k, p)}
  <2>1. /\ task[e].step = "submitted"
        /\ task'[e].step = "removing" /\ task'[e].keys = found /\ task'[e].page = p
        /\ \A f \in Expirers : f # e => task'[f] = task[f]
        /\ lost' = lost \ {p}
        /\ UNCHANGED <<cache, tracked, changed>>
    BY <1>0, <1>5 DEF Collect, Tasks
  <2>2. \A k \in Cached \cap GetKeys : k[2] = p => k \in found \/ (UseListener /\ k \notin tracked)
    BY DEF KnownKeys, HasPrefix, GetKeys
  <2>3. \A k \in Cached \cap GetKeys : k[2] = p => Pending(k)'
    BY <2>1, <2>2 DEF Pending, WillExpire
  <2>4. \A k \in Cached \cap GetKeys : k[2] # p /\ Pending(k) => Pending(k)'
    BY <2>1 DEF Pending, WillExpire
  <2>5. \A q \in Pages : q # p /\ Announced(q) => Announced(q)'
    BY <2>1 DEF Announced
  <2>6. \A r \in Readers :
              /\ reader'[r].step = reader[r].step /\ reader'[r].key = reader[r].key
              /\ reader'[r].file = reader[r].file
              /\ reader[r].late \subseteq reader'[r].late
              /\ Outdated(r) /\ reader[r].key[2] = p => "outdated" \in reader'[r].late
    BY <1>5, ExpiryPassesBy DEF StaleInv
  <2>7. RendersExplained'
    BY <1>0, <1>1, <2>5, <2>6, RendersKept
  <2> QED
    BY <1>2, <2>1, <2>3, <2>4, <2>7
<1>6. CASE EndTask(e)
  <2>1. /\ task[e].step = "removing" /\ task[e].keys = {}
        /\ \A f \in Expirers : f # e => task'[f] = task[f]
        /\ UNCHANGED <<cache, tracked, reader, changed, lost>>
    BY <1>0, <1>6 DEF EndTask
  <2>2. \A q \in Pages : Announced(q) => Announced(q)'
    BY <2>1 DEF Announced
  <2>3. \A k \in Cached : WillExpire(k) => WillExpire(k)'
    BY <2>1 DEF WillExpire
  <2> QED
    BY <1>2, <1>3, <2>1, <2>2, <2>3 DEF Pending
<1>7. ASSUME NEW l \in Keys, RemoveKey(e, l) PROVE RendersExplained' /\ StaleExplained'
  <2>1. /\ task[e].step = "removing" /\ task'[e].keys = task[e].keys \ {l}
        /\ task'[e].page = task[e].page
        /\ \A f \in Expirers : f # e => task'[f] = task[f]
        /\ UNCHANGED <<reader, changed, lost>>
    BY <1>0, <1>7 DEF RemoveKey, Tasks
  <2>2. \A q \in Pages : Announced(q) => Announced(q)'
    BY <2>1 DEF Announced
  <2>3. /\ Cached' = Cached \ {l} /\ tracked' \subseteq tracked
        /\ \A k \in Cached' : cache'[k] = cache[k]
    BY <1>7, RemoveTyped DEF RemoveKey, StaleInv
  <2>4. \A k \in Cached' : WillExpire(k) => WillExpire(k)'
    BY <2>1, <2>3 DEF WillExpire
  <2>5. \A k \in Cached' \cap GetKeys : Pending(k) => Pending(k)'
    BY <2>1, <2>3, <2>4 DEF Pending
  <2> QED
    BY <1>1, <1>3, <2>1, <2>2, <2>3, <2>5, EntriesKept
<1> QED
  BY <1>4, <1>5, <1>6, <1>7 DEF ExpirerStep

LEMMA TasksStayClean == StaleInv /\ [Next]_vars => TasksClean'
<1> SUFFICES ASSUME StaleInv, [Next]_vars PROVE TasksClean'
  OBVIOUS
<1>0. task \in [Expirers -> Tasks]
  BY DEF StaleInv, PageTypeOK, Tasks
<1>1. CASE task' = task
  BY <1>1 DEF StaleInv, TasksClean
<1>2. ASSUME NEW e \in Expirers, ExpirerStep(e) PROVE TasksClean'
  <2>1. \A f \in Expirers : f # e => task'[f] = task[f]
    BY <1>0, <1>2 DEF ExpirerStep, WatchEvent, Collect, EndTask, RemoveKey
  <2>2. task'[e].step # "removing" => task'[e].keys = {}
    <3>1. ASSUME NEW p \in Pages, WatchEvent(p, e) PROVE task'[e].keys = {}
      BY <1>0, <3>1 DEF WatchEvent
    <3>2. CASE Collect(e)
      BY <1>0, <3>2 DEF Collect, Tasks
    <3>3. CASE EndTask(e)
      BY <1>0, <3>3 DEF EndTask, Tasks
    <3>4. ASSUME NEW k \in Keys, RemoveKey(e, k) PROVE task'[e].step = "removing"
      BY <1>0, <3>4 DEF RemoveKey, Tasks
    <3> QED
      BY <1>2, <3>1, <3>2, <3>3, <3>4 DEF ExpirerStep
  <2> QED
    BY <2>1, <2>2 DEF StaleInv, TasksClean
<1>3. ReloadStep => task' = task
  BY DEF ReloadStep, ShutDownSite, SetStopping, FailShutdown, CloseSite, RemoveAll,
     ClearListener, StartWatcher, SetStarted, FailLoad
<1>4. \A r \in Readers : ReaderStep(r) => task' = task
  BY DEF ReaderStep, Hit, Miss, Admit, Render, Put, NotOk
<1>5. \A k \in Keys : ExpireElement(k) \/ TimeOut(k) \/ Tick(k) \/ Evict(k) => task' = task
  BY DEF ExpireElement, TimeOut, Tick, Evict
<1> QED
  BY <1>1, <1>2, <1>3, <1>4, <1>5 DEF Next, vars, Change

\* A file changes: its watch event is there, or the change is lost.
LEMMA StaleChange ==
  ASSUME StaleInv, NEW p \in Pages, Change(p)
  PROVE  RendersExplained' /\ StaleExplained'
<1>0. /\ content \in [Pages -> Nat] /\ Cached \subseteq Keys
      /\ \A q \in Readers : reader[q].key \in Keys /\ reader[q].key[2] \in Pages
      /\ \A k \in Keys : k[2] \in Pages
  <2>1. reader \in [Readers -> Readings]
    BY DEF StaleInv, PageTypeOK, Readings
  <2> QED
    BY <2>1, KeysTyped DEF StaleInv, PageTypeOK, Readings
<1>1. /\ \A q \in Pages : q # p => content'[q] = content[q]
      /\ UNCHANGED <<cache, tracked, reader, task>>
      /\ changed \subseteq changed' /\ lost \subseteq lost'
      /\ p \in changed' \/ p \in lost'
  BY <1>0 DEF Change
<1>2. /\ \A q \in Pages : Announced(q) => Announced(q)'
      /\ Announced(p)'
  BY <1>1 DEF Announced
<1>3. /\ \A k \in Keys : Pending(k) => Pending(k)'
      /\ \A k \in Keys : k[2] = p => Pending(k)'
  BY <1>1 DEF Pending, WillExpire
<1>4. RendersExplained'
  <2> SUFFICES ASSUME NEW q \in Readers, Outdated(q)', reader[q].key \in GetKeys
               PROVE  ("outdated" \in reader[q].late \/ Announced(reader[q].key[2]))'
    BY <1>1 DEF RendersExplained
  <2>1. CASE reader[q].key[2] = p
    BY <1>1, <1>2, <2>1
  <2>2. CASE reader[q].key[2] # p
    <3>1. Outdated(q)
      BY <1>0, <1>1, <2>2 DEF Outdated
    <3> QED
      BY <1>0, <1>1, <1>2, <3>1 DEF StaleInv, RendersExplained
  <2> QED
    BY <2>1, <2>2
<1>5. ASSUME NEW k \in Cached' \cap GetKeys, OldFile(k)'
      PROVE  "outdated" \in cache'[k].late \/ Pending(k)'
  <2>1. k \in Cached \cap GetKeys /\ k \in Keys
    BY <1>0, <1>1, <1>5 DEF Cached
  <2>2. CASE k[2] = p
    BY <1>3, <2>1, <2>2
  <2>3. CASE k[2] # p
    <3>1. OldFile(k)
      BY <1>0, <1>1, <1>5, <2>1, <2>3 DEF OldFile
    <3> QED
      BY <1>1, <1>3, <2>1, <3>1, StaleMeans DEF StaleInv
  <2> QED
    BY <2>2, <2>3
<1> QED
  BY <1>4, <1>5 DEF StaleExplained, Pending

\* Reloads: the events the watcher does not handle any more are lost, a clearing
\* empties the cache and marks the requests.
LEMMA StaleReload ==
  ASSUME StaleInv, ReloadStep
  PROVE  RendersExplained' /\ StaleExplained'
<1>0. /\ \A q \in Readers : reader[q].key[2] \in Pages
      /\ Cached \subseteq Keys
  <2>1. reader \in [Readers -> Readings]
    BY DEF StaleInv, PageTypeOK, Readings
  <2> QED
    BY <2>1, KeysTyped DEF StaleInv, PageTypeOK, Readings
<1>1. ASSUME UNCHANGED <<content, cache, reader>>,
             \A p \in Pages : Announced(p) => Announced(p)',
             \A k \in Keys : Pending(k) => Pending(k)'
      PROVE  RendersExplained' /\ StaleExplained'
  <2>1. RendersExplained'
    BY <1>0, <1>1, RendersKept
  <2>2. Cached' = Cached
    BY <1>1 DEF Cached
  <2> QED
    BY <1>0, <1>1, <2>1, <2>2, EntriesKept
<1>2. CASE ShutDownSite
  <2>1. /\ UNCHANGED <<content, cache, reader, tracked, task>>
        /\ lost \subseteq lost' /\ changed \subseteq changed' \cup lost'
    BY <1>2 DEF ShutDownSite
  <2>2. \A p \in Pages : Announced(p) => Announced(p)'
    BY <2>1 DEF Announced
  <2>3. \A k \in Keys : Pending(k) => Pending(k)'
    BY <2>1 DEF Pending, WillExpire
  <2> QED
    BY <1>1, <2>1, <2>2, <2>3
<1>3. CASE RemoveAll
  <2>1. Cached' = {}
    BY <1>3, RemoveTyped DEF RemoveAll, StaleInv, KeysToClear
  <2>2. content' = content
    BY <1>3 DEF RemoveAll
  <2>3. RendersExplained'
    BY <1>3, <2>2, ClearPassesBy, RendersKept DEF StaleInv
  <2> QED
    BY <2>1, <2>3 DEF StaleExplained
<1>4. CASE SetStopping \/ FailShutdown \/ CloseSite \/ ClearListener
           \/ StartWatcher \/ SetStarted \/ FailLoad
  <2>1. /\ UNCHANGED <<content, cache, reader, changed, task, lost>>
        /\ tracked' \subseteq tracked
    BY <1>4 DEF SetStopping, FailShutdown, CloseSite, ClearListener, StartWatcher,
       SetStarted, FailLoad
  <2>2. \A p \in Pages : Announced(p) => Announced(p)'
    BY <2>1 DEF Announced
  <2>3. \A k \in Keys : Pending(k) => Pending(k)'
    BY <2>1 DEF Pending, WillExpire
  <2> QED
    BY <1>1, <2>1, <2>2, <2>3
<1> QED
  BY <1>2, <1>3, <1>4 DEF ReloadStep

LEMMA StaleNext == StaleInv /\ [Next]_vars => StaleInv'
<1> SUFFICES ASSUME StaleInv, [Next]_vars PROVE RendersExplained' /\ StaleExplained'
  BY PageNextTyped, TasksStayClean DEF StaleInv
<1>0. /\ Cached \subseteq Keys
      /\ \A k \in Cached : cache[k] \in Entries
      /\ \A q \in Readers : reader[q].key[2] \in Pages
  <2>1. reader \in [Readers -> Readings]
    BY DEF StaleInv, PageTypeOK, Readings
  <2> QED
    BY <2>1, KeysTyped DEF StaleInv, PageTypeOK, Readings
<1>1. ASSUME UNCHANGED <<content, reader, changed, lost, task>>,
             Cached' \subseteq Cached, tracked' \subseteq tracked,
             \A k \in Cached' : cache'[k].file = cache[k].file /\ cache'[k].late = cache[k].late
      PROVE  RendersExplained' /\ StaleExplained'
  <2>1. \A q \in Pages : Announced(q) => Announced(q)'
    BY <1>1 DEF Announced
  <2>2. \A k \in Cached' : Pending(k) => Pending(k)'
    BY <1>1 DEF Pending, WillExpire
  <2>3. RendersExplained'
    BY <1>0, <1>1, <2>1, RendersKept
  <2> QED
    BY <1>1, <2>2, <2>3, EntriesKept
<1>2. CASE UNCHANGED vars
  BY <1>1, <1>2 DEF vars, Cached
<1>3. ASSUME NEW k \in Keys, ExpireElement(k) \/ TimeOut(k)
      PROVE  RendersExplained' /\ StaleExplained'
  <2>1. /\ Cached' = Cached \ {k} /\ tracked' \subseteq tracked
        /\ \A l \in Cached' : cache'[l] = cache[l]
    BY <1>3, RemoveTyped DEF ExpireElement, TimeOut, StaleInv
  <2> QED
    BY <1>1, <1>3, <2>1 DEF ExpireElement, TimeOut
<1>4. ASSUME NEW k \in Keys, Tick(k) PROVE RendersExplained' /\ StaleExplained'
  <2>1. /\ Cached' = Cached
        /\ \A l \in Cached' : cache'[l].file = cache[l].file /\ cache'[l].late = cache[l].late
    BY <1>0, <1>4, UseTyped DEF Tick, StaleInv
  <2> QED
    BY <1>1, <1>4, <2>1 DEF Tick
<1>5. ASSUME NEW k \in Keys, Evict(k) PROVE RendersExplained' /\ StaleExplained'
  <2>1. Cached' = Cached \ {k} /\ \A l \in Cached' : cache'[l] = cache[l]
    BY <1>0, <1>5 DEF Evict, Without, Cached
  <2> QED
    BY <1>1, <1>5, <2>1 DEF Evict
<1> QED
  BY <1>2, <1>3, <1>4, <1>5, StaleChange, StaleReader, StaleExpirer, StaleReload DEF Next

\* Files, watcher, expiry and reloads against requests: a page older than its
\* file is about to be expired, or one of the gaps of the code explains it.
THEOREM StaleIsExplained == Spec => []StaleExplained
<1>1. StaleInv => StaleExplained
  BY DEF StaleInv
<1> QED
  BY <1>1, StaleInit, StaleNext, PTL DEF Spec

-----------------------------------------------------------------------------
(* Why a page of an earlier generation is in the cache.                    *)

\* The last generation is shut down, and its clearing has been or will not come.
Ended == site \notin {"up", "waiting", "closing", "announced"}

\* What holds for an entry and for a request that is served.
GenerationExplained(h) ==
  /\ h.gen <= generation
  /\ h.gen < generation \/ Ended => "outlived" \in h.late \/ h.gen \in uncleared

GenerationInv ==
  /\ PageTypeOK
  /\ \A k \in Cached : GenerationExplained(cache[k])
  /\ \A r \in Readers : Outlived(r) => GenerationExplained(reader[r])

LEMMA GenerationInit == Init => GenerationInv
BY PageInitTyped DEF Init, GenerationInv, Outlived, Cached

\* What a step leaves as it is stays explained, if the site stays as it is.
LEMMA GenerationsKept ==
  ASSUME GenerationInv, UNCHANGED siteVars,
         \A k \in Cached' : \/ /\ k \in Cached /\ cache'[k].gen = cache[k].gen
                               /\ cache'[k].late = cache[k].late
                            \/ GenerationExplained(cache'[k]),
         \A r \in Readers : Outlived(r)' => \/ /\ Outlived(r) /\ reader'[r].gen = reader[r].gen
                                               /\ reader[r].late \subseteq reader'[r].late
                                            \/ GenerationExplained(reader'[r])
  PROVE  /\ \A k \in Cached' : GenerationExplained(cache[k])'
         /\ \A r \in Readers : Outlived(r)' => GenerationExplained(reader[r])'
<1>1. UNCHANGED <<site, generation, uncleared>>
  BY DEF siteVars
<1>2. \A k \in Cached : GenerationExplained(cache[k])
  BY DEF GenerationInv
<1>3. \A r \in Readers : Outlived(r) => GenerationExplained(reader[r])
  BY DEF GenerationInv
<1>4. ASSUME NEW k \in Cached' PROVE GenerationExplained(cache[k])'
  BY <1>1, <1>2 DEF GenerationExplained, Ended
<1>5. ASSUME NEW r \in Readers, Outlived(r)' PROVE GenerationExplained(reader[r])'
  BY <1>1, <1>3, <1>5 DEF GenerationExplained, Ended
<1> QED
  BY <1>4, <1>5

\* Requests: one that is admitted belongs to the generation that is up.
LEMMA GenerationReader ==
  ASSUME GenerationInv, NEW r \in Readers, ReaderStep(r)
  PROVE  /\ \A k \in Cached' : GenerationExplained(cache[k])'
         /\ \A q \in Readers : Outlived(q)' => GenerationExplained(reader[q])'
<1>0. /\ reader \in [Readers -> Readings] /\ generation \in Nat
      /\ \A k \in Cached : cache[k] \in Entries
  BY DEF GenerationInv, PageTypeOK, Readings
<1>1. UNCHANGED siteVars
  BY DEF ReaderStep, Hit, Miss, Admit, Render, Put, NotOk
<1>2. \A q \in Readers : q # r => reader'[q] = reader[q]
  BY <1>0 DEF ReaderStep, Hit, Miss, Admit, Render, Put, NotOk, Done
<1>3. Outlived(r)' => \/ /\ Outlived(r) /\ reader'[r].gen = reader[r].gen
                         /\ reader[r].late \subseteq reader'[r].late
                      \/ GenerationExplained(reader'[r])
  <2>1. CASE Admit(r)
    <3>1. reader'[r].gen = generation /\ ~Ended
      BY <1>0, <2>1 DEF Admit, Serves, Ended, Readings
    <3> QED
      BY <1>0, <3>1 DEF GenerationExplained
  <2>2. CASE Render(r)
    BY <1>0, <2>2 DEF Render, Outlived, Readings
  <2>3. CASE Put(r) \/ NotOk(r)
    BY <1>0, <2>3 DEF Put, NotOk, Done, Outlived, Readings
  <2>4. ASSUME NEW k \in Keys, Hit(r, k) \/ Miss(r, k)
        PROVE  ~Outlived(r)'
    BY <1>0, <2>4 DEF Hit, Miss, Outlived, Readings
  <2> QED
    BY <2>1, <2>2, <2>3, <2>4 DEF ReaderStep
<1>4. \A k \in Cached' : \/ /\ k \in Cached /\ cache'[k].gen = cache[k].gen
                            /\ cache'[k].late = cache[k].late
                         \/ GenerationExplained(cache'[k])
  <2>1. CASE cache' = cache
    BY <2>1 DEF Cached
  <2>2. ASSUME NEW k \in Keys, Hit(r, k)
        PROVE  \A l \in Cached' : /\ l \in Cached /\ cache'[l].gen = cache[l].gen
                                  /\ cache'[l].late = cache[l].late
    BY <2>2, UseTyped DEF Hit, GenerationInv
  <2>3. CASE Put(r)
    <3> DEFINE key == reader[r].key
               entry == [file |-> reader[r].file, gen |-> reader[r].gen,
                         late |-> reader[r].late, used |-> TRUE]
    <3>1. entry \in Entries /\ key \in Keys /\ Store(key, entry)
      BY <1>0, <2>3 DEF Put, Readings, Entries
    <3>2. /\ Cached' = Cached \cup {key} /\ cache'[key] = entry
          /\ \A l \in Cached' : l # key => cache'[l] = cache[l]
      BY <3>1, StoreTyped DEF GenerationInv
    <3>3. GenerationExplained(reader[r])
      BY <2>3 DEF Put, Outlived, GenerationInv
    <3>4. GenerationExplained(entry)
      BY <3>3 DEF GenerationExplained
    <3> QED
      BY <3>2, <3>4
  <2> QED
    BY <2>1, <2>2, <2>3 DEF ReaderStep, Miss, Admit, Render, NotOk
<1>5. \A q \in Readers : Outlived(q)' =>
         \/ /\ Outlived(q) /\ reader'[q].gen = reader[q].gen
            /\ reader[q].late \subseteq reader'[q].late
         \/ GenerationExplained(reader'[q])
  <2>1. \A q \in Readers : q # r /\ Outlived(q)' => Outlived(q)
    BY <1>2 DEF Outlived
  <2> QED
    BY <1>2, <1>3, <2>1
<1> QED
  BY <1>1, <1>4, <1>5, GenerationsKept

\* Reloads: a generation ends with a clearing, which marks the requests that
\* are still served, or it ends uncleared.
LEMMA GenerationReload ==
  ASSUME GenerationInv, ReloadStep
  PROVE  /\ \A k \in Cached' : GenerationExplained(cache[k])'
         /\ \A q \in Readers : Outlived(q)' => GenerationExplained(reader[q])'
<1>0. /\ generation \in Nat
      /\ \A k \in Cached : cache[k].gen \in Nat /\ GenerationExplained(cache[k])
      /\ \A q \in Readers : reader[q].gen \in Nat
      /\ \A q \in Readers : Outlived(q) => GenerationExplained(reader[q])
  BY DEF GenerationInv, PageTypeOK, Entries
<1>1. CASE RemoveAll
  <2>1. Cached' = {}
    BY <1>1, RemoveTyped DEF RemoveAll, GenerationInv, KeysToClear
  <2>2. \A q \in Readers : Outlived(q)' => "outlived" \in reader'[q].late
    BY <1>1, ClearPassesBy DEF GenerationInv, Outlived
  <2>3. \A q \in Readers : Outlived(q)' => reader'[q].gen <= generation'
    BY <1>0, <1>1, ClearPassesBy DEF GenerationInv, GenerationExplained, Outlived, RemoveAll
  <2> QED
    BY <2>1, <2>2, <2>3 DEF GenerationExplained
<1>2. ASSUME UNCHANGED <<cache, reader>>,
             \/ /\ Ended /\ generation' \in {generation, generation + 1}
                /\ uncleared' = uncleared
             \/ ~Ended' /\ generation' = generation /\ uncleared' = uncleared
             \/ generation' = generation /\ uncleared' = uncleared \cup {generation}
      PROVE  /\ \A k \in Cached' : GenerationExplained(cache[k])'
             /\ \A q \in Readers : Outlived(q)' => GenerationExplained(reader[q])'
  <2>1. ASSUME NEW h, h.gen \in Nat, GenerationExplained(h)
        PROVE  /\ h.gen <= generation'
               /\ h.gen < generation' \/ Ended' => "outlived" \in h.late \/ h.gen \in uncleared'
    BY <1>0, <1>2, <2>1 DEF GenerationExplained
  <2>2. \A k \in Cached' : GenerationExplained(cache[k])'
    BY <1>0, <1>2, <2>1 DEF GenerationExplained, Cached
  <2>3. \A q \in Readers : Outlived(q)' => GenerationExplained(reader[q])'
    BY <1>0, <1>2, <2>1 DEF GenerationExplained, Outlived
  <2> QED
    BY <2>2, <2>3
<1>3. CASE ShutDownSite
  <2>1. Ended \/ ~Ended'
    BY <1>3 DEF ShutDownSite, SiteGoes, Ended
  <2> QED
    BY <1>0, <1>2, <1>3, <2>1 DEF ShutDownSite
<1>4. CASE SetStopping
  BY <1>2, <1>4 DEF SetStopping, SiteGoes, Ended
<1>5. CASE FailShutdown
  BY <1>2, <1>5 DEF FailShutdown
<1>6. CASE CloseSite
  BY <1>2, <1>6 DEF CloseSite, SiteGoes, Ended
<1>7. CASE ClearListener \/ StartWatcher \/ SetStarted \/ FailLoad
  <2>1. Ended
    BY <1>7 DEF ClearListener, StartWatcher, SetStarted, FailLoad, SiteGoes, Ended
  <2> QED
    BY <1>2, <1>7, <2>1 DEF ClearListener, StartWatcher, SetStarted, FailLoad
<1> QED
  BY <1>1, <1>3, <1>4, <1>5, <1>6, <1>7 DEF ReloadStep

LEMMA GenerationNext == GenerationInv /\ [Next]_vars => GenerationInv'
<1> SUFFICES ASSUME GenerationInv, [Next]_vars
             PROVE  /\ \A k \in Cached' : GenerationExplained(cache[k])'
                    /\ \A r \in Readers : Outlived(r)' => GenerationExplained(reader[r])'
  BY PageNextTyped DEF GenerationInv
<1>1. ASSUME UNCHANGED <<siteVars, reader>>,
             \A k \in Cached' : /\ k \in Cached /\ cache'[k].gen = cache[k].gen
                                /\ cache'[k].late = cache[k].late
      PROVE  /\ \A k \in Cached' : GenerationExplained(cache[k])'
             /\ \A r \in Readers : Outlived(r)' => GenerationExplained(reader[r])'
  <2>1. \A r \in Readers : Outlived(r)' => Outlived(r)
    BY <1>1 DEF Outlived
  <2> QED
    BY <1>1, <2>1, GenerationsKept
<1>2. CASE UNCHANGED vars
  BY <1>1, <1>2 DEF vars, Cached
<1>3. ASSUME NEW p \in Pages, Change(p)
      PROVE  /\ \A k \in Cached' : GenerationExplained(cache[k])'
             /\ \A r \in Readers : Outlived(r)' => GenerationExplained(reader[r])'
  BY <1>1, <1>3 DEF Change, Cached
<1>4. ASSUME NEW e \in Expirers, ExpirerStep(e)
      PROVE  /\ \A k \in Cached' : GenerationExplained(cache[k])'
             /\ \A r \in Readers : Outlived(r)' => GenerationExplained(reader[r])'
  <2>1. ASSUME NEW p \in Pages, WatchEvent(p, e) \/ EndTask(e)
        PROVE  UNCHANGED <<siteVars, reader, cache>>
    BY <2>1 DEF WatchEvent, EndTask
  <2>2. CASE Collect(e)
    <3>1. UNCHANGED <<siteVars, cache>>
      BY <2>2 DEF Collect
    <3>2. \A r \in Readers : Outlived(r)' =>
             /\ Outlived(r) /\ reader'[r].gen = reader[r].gen
             /\ reader[r].late \subseteq reader'[r].late
      BY <2>2, ExpiryPassesBy DEF GenerationInv, Outlived
    <3> QED
      BY <3>1, <3>2, GenerationsKept DEF Cached
  <2>3. ASSUME NEW k \in Keys, RemoveKey(e, k)
        PROVE  /\ UNCHANGED <<siteVars, reader>>
               /\ \A l \in Cached' : l \in Cached /\ cache'[l] = cache[l]
    BY <2>3, RemoveTyped DEF RemoveKey, GenerationInv
  <2>4. \E p : p \in Pages
    BY PageCacheAssumption
  <2> QED
    BY <1>1, <1>4, <2>1, <2>2, <2>3, <2>4 DEF ExpirerStep, Cached
<1>5. ASSUME NEW k \in Keys, ExpireElement(k) \/ TimeOut(k) \/ Tick(k) \/ Evict(k)
      PROVE  /\ \A l \in Cached' : GenerationExplained(cache[l])'
             /\ \A r \in Readers : Outlived(r)' => GenerationExplained(reader[r])'
  <2>1. UNCHANGED <<siteVars, reader>>
    BY <1>5 DEF ExpireElement, TimeOut, Tick, Evict
  <2>2. CASE ExpireElement(k) \/ TimeOut(k)
    <3>1. \A l \in Cached' : l \in Cached /\ cache'[l] = cache[l]
      BY <2>2, RemoveTyped DEF ExpireElement, TimeOut, GenerationInv
    <3> QED
      BY <1>1, <2>1, <3>1
  <2>3. CASE Tick(k)
    <3>1. \A l \in Cached' : /\ l \in Cached /\ cache'[l].gen = cache[l].gen
                             /\ cache'[l].late = cache[l].late
      BY <2>3, UseTyped DEF Tick, GenerationInv
    <3> QED
      BY <1>1, <2>1, <3>1
  <2>4. CASE Evict(k)
    <3>1. \A l \in Cached' : l \in Cached /\ cache'[l] = cache[l]
      BY <2>4 DEF Evict, Without, Cached
    <3> QED
      BY <1>1, <2>1, <3>1
  <2> QED
    BY <1>5, <2>2, <2>3, <2>4
<1> QED
  BY <1>2, <1>3, <1>4, <1>5, GenerationReader, GenerationReload DEF Next

\* Reloads that fail or do not clear against requests that are still served: a
\* page of an earlier generation was put after a clearing, or its generation
\* ended without one.
THEOREM OldPagesAreExplained == Spec => []OldPagesExplained
<1>1. GenerationInv => OldPagesExplained
  BY DEF GenerationInv, GenerationExplained, OldPagesExplained, OldGeneration
<1> QED
  BY <1>1, GenerationInit, GenerationNext, PTL DEF Spec
=============================================================================
