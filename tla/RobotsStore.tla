----------------------------- MODULE RobotsStore -----------------------------
(***************************************************************************)
(* The rules of all domains: RobotsTxt (src/src/RobotsTxt.cpp), the LRU    *)
(* cache it keeps them in (src/include/LRUCacheCrawler.hpp) and the files  *)
(* it writes them to.  A worker of the crawler submits a robots.txt        *)
(* between lock and unlock of RobotsTxt (src/src/http.cpp:415).  GetRule   *)
(* has no caller but the tests, where no submission is under way.          *)
(***************************************************************************)
EXTENDS Naturals, Sequences, FiniteSets, SequencesExt

CONSTANTS
  Threads, Domains,
  Capacity,       \* CACHE_CAPACITY
  MaxSubmissions  \* a bound: how many robots.txt are submitted between two restarts

ASSUME StoreAssumption == Capacity \in Nat \ {0} /\ MaxSubmissions \in Nat

SerializedRulesPath == "SerializedRobotsRules"

VARIABLES
  cache,      \* Cache: domain -> its DomainRules, by the number of the submission;
              \* LRUQueueKeyPositions has the same domains
  queue,      \* LRUQueue: the least recently used domain first
  freed,      \* the DomainRules that were deleted
  files,      \* path -> the rules in the file
  submitted,  \* submission -> its domain
  thread      \* what a thread is doing: nothing, or saving rules

storeStateVars == <<cache, queue, freed, files, submitted, thread>>

Idle == [doing |-> "nothing"]

Locked == \E t \in Threads : thread[t].doing = "saving"
----------------------------------------------------------------------------
(* LRUCacheCrawler *)

\* Mutant: the domain keeps its earlier place as well.
KeepsThePlace(key) == {Append(queue, key)}

Position(key) == CHOOSE i \in DOMAIN queue : queue[i] = key

\* The orders the queue may have after a key was used.  A key that is cached and has no
\* place left (EvictLRU) leads to a list node that was freed: erase ends the process
\* (Restart), or the node is that of another domain by now, which loses its place.
ChangeToMostRecentlyUsed(key) ==
  IF key \in ToSet(queue) THEN {Append(RemoveAt(queue, Position(key)), key)}
  ELSE IF key \in DOMAIN cache THEN {Append(RemoveAt(queue, i), key) : i \in DOMAIN queue}
  ELSE {Append(queue, key)}

\* The rules of the least recently used domain are deleted and its place is removed.  The
\* two erase calls then read the key in the node that pop_front has freed: either it is
\* still there, or it is not and the domain stays in Cache and in LRUQueueKeyPositions.
EvictLRU(order, values) ==
  /\ queue' = Tail(order)
  /\ freed' = freed \union {values[Head(order)]}
  /\ \/ cache' = [d \in DOMAIN values \ {Head(order)} |-> values[d]]
     \/ cache' = values

\* put: the value it overwrites is not deleted.
CachePut(key, val) ==
  LET values == [d \in DOMAIN cache \union {key} |-> IF d = key THEN val ELSE cache[d]]
  IN  \E order \in ChangeToMostRecentlyUsed(key) :
        IF Cardinality(DOMAIN values) > Capacity
        THEN EvictLRU(order, values)
        ELSE queue' = order /\ cache' = values /\ UNCHANGED freed
----------------------------------------------------------------------------
\* SubmitRobotsTxt up to WriteRulesToDisc.  Mutant: without the lock.
SubmitUnlocked(t, d) ==
  /\ thread[t] = Idle
  /\ Len(submitted) < MaxSubmissions
  /\ CachePut(d, Len(submitted) + 1)
  /\ submitted' = Append(submitted, d)
  /\ thread' = [thread EXCEPT ![t] = [doing |-> "saving", rules |-> Len(submitted) + 1]]
  /\ UNCHANGED files

SubmitRobotsTxt(t, d) ==
  /\ thread[t] = Idle
  /\ ~Locked
  /\ Len(submitted) < MaxSubmissions
  /\ CachePut(d, Len(submitted) + 1)
  /\ submitted' = Append(submitted, d)
  /\ thread' = [thread EXCEPT ![t] = [doing |-> "saving", rules |-> Len(submitted) + 1]]
  /\ UNCHANGED files

\* If put has evicted these very rules, what is written is what their memory holds (0).
WriteRulesToDisc(t) ==
  /\ thread[t].doing = "saving"
  /\ LET rules == thread[t].rules
         path  == <<SerializedRulesPath, submitted[rules]>>
     IN  \E written \in IF rules \in freed THEN {rules, 0} ELSE {rules} :
           files' = [p \in DOMAIN files \union {path} |-> IF p = path THEN written ELSE files[p]]
  /\ thread' = [thread EXCEPT ![t] = Idle]
  /\ UNCHANGED <<cache, queue, freed, submitted>>

\* A file is looked for at the name of the domain: for a domain that is neither in the cache
\* nor there GetRule throws.  With a cached domain that has no place left it reads rules
\* that were deleted: that is the end of the process.
GetRule(d) ==
  /\ \A t \in Threads : thread[t] = Idle
  /\ d \in DOMAIN cache => d \in ToSet(queue)
  /\ IF d \in DOMAIN cache
     THEN queue' \in ChangeToMostRecentlyUsed(d) /\ UNCHANGED <<cache, freed>>
     ELSE IF <<d>> \in DOMAIN files
     THEN CachePut(d, files[<<d>>])
     ELSE UNCHANGED <<cache, queue, freed>>
  /\ UNCHANGED <<files, submitted, thread>>

\* What was in memory is gone; the submissions are counted anew.
Restart ==
  /\ cache' = <<>> /\ queue' = <<>> /\ freed' = {} /\ submitted' = <<>>
  /\ thread' = [t \in Threads |-> Idle]
  /\ files' = [path \in DOMAIN files |-> 0]

InitRobots ==
  /\ cache = <<>> /\ queue = <<>> /\ freed = {} /\ files = <<>> /\ submitted = <<>>
  /\ thread = [t \in Threads |-> Idle]

NextRobots ==
  \/ \E t \in Threads : WriteRulesToDisc(t) \/ \E d \in Domains : SubmitRobotsTxt(t, d)
  \/ \E d \in Domains : GetRule(d)
  \/ Restart

SpecRobots == InitRobots /\ [][NextRobots]_storeStateVars
----------------------------------------------------------------------------
\* No rules are deleted twice, whether the erase calls of EvictLRU find the key they read in
\* freed memory or not, and whoever loses a place by it (LRUCacheCrawler.hpp:45-58): what
\* is in the queue is there once, at most Capacity times, and leads to rules that live.
QueueIsOfLiveRules ==
  /\ \A i, j \in DOMAIN queue : queue[i] = queue[j] => i = j
  /\ \A d \in ToSet(queue) : d \in DOMAIN cache /\ cache[d] \notin freed
  /\ Len(queue) <= Capacity

\* The file of a domain in the queue has the rules of the cache, or is being written
\* (http.cpp:415-417, RobotsTxt.cpp:19): of two workers that hand in a robots.txt of the
\* same domain, the later one is in both places.
FileHasTheCachedRules ==
  \A d \in ToSet(queue) :
    LET path == <<SerializedRulesPath, d>>
    IN  \/ path \in DOMAIN files /\ files[path] = cache[d]
        \/ \E t \in Threads : thread[t] = [doing |-> "saving", rules |-> cache[d]]

\* RobotsTxt.h:44: "we will save and search for all robotstxt parsed rules files in the
\* current directory".  A domain whose rules were saved is in the cache, or its file is
\* where GetRule searches.
SavedRulesAreFound ==
  \A d \in Domains :
    <<SerializedRulesPath, d>> \in DOMAIN files => d \in DOMAIN cache \/ <<d>> \in DOMAIN files
=============================================================================
