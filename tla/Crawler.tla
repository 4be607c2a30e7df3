------------------------------ MODULE Crawler ------------------------------
(***************************************************************************)
(* The crawler: NUM_CRAWLER_THREADS worker threads run Crawler::stub       *)
(* (src/src/crawler.cpp), which takes URLs from the frontier, and call     *)
(* HTTPClient::SubmitURLSync (src/src/http.cpp), which fetches one URL and *)
(* puts what it finds back on the frontier.  The print thread notices the  *)
(* stop signal and tells the workers.                                      *)
(*                                                                         *)
(* A worker's step is the code between two points where it can be          *)
(* interleaved with another thread: one critical section, one system call, *)
(* one access to the page store.  The network and the documents it returns *)
(* are the environment.                                                    *)
(***************************************************************************)
EXTENDS Naturals, Sequences, FiniteSets, Functions

CONSTANTS
  Workers,        \* the NUM_CRAWLER_THREADS worker threads
  Hosts,          \* the host names that occur in URLs
  Paths,          \* the path-and-query parts that occur in URLs
  RobotsPath,     \* "/robots.txt"
  NoHost,         \* the empty host name
  NoPath,         \* the path of a URL with no host
  UriPath,        \* path-and-query after HTTPRequest::uri(), which rewrites every query
  WwwOf,          \* host -> "www." + host, or NoHost if no URL has that host
  BadExtension,   \* the paths whose extension the crawler avoids
  Web,            \* the URLs documents link to and servers redirect to
  Seeds,          \* the sequence of URLs the constructor is given
  REHIT_WAIT,     \* DOMAIN_REHIT_WAIT_TIME, in ticks
  REDIRECT_MAX,   \* the longest chain of redirects followed
  MaxLinks        \* bound: links discovered in one behaviour

UrlOn(h, p) == [host |-> h, path |-> p]
EmptyUrl    == UrlOn(NoHost, NoPath)      \* std::string(), or a URL without a host
RobotsUrl(h) == UrlOn(h, RobotsPath)
AnyUrl == [host : Hosts, path : Paths \cup {RobotsPath}] \cup {EmptyUrl}

\* HTTPRequest::robots, goodExtension and uri.  uri() writes the word "query" for
\* whatever the query was, so URLs that differ in their query have one uri.
IsRobots(u)      == u.path = RobotsPath
GoodExtension(u) == u.path \notin BadExtension
Uri(u)           == [u EXCEPT !.path = UriPath[u.path]]

ASSUME WorkersAssumption == IsFiniteSet(Workers) /\ Workers # {}
ASSUME NamesAssumption ==
  /\ NoHost \notin Hosts
  /\ RobotsPath \notin Paths
  /\ NoPath \notin Paths \cup {RobotsPath}
  /\ WwwOf \in [Hosts -> Hosts \cup {NoHost}]
ASSUME UriAssumption ==
  /\ UriPath \in [Paths \cup {RobotsPath, NoPath} -> Paths \cup {RobotsPath, NoPath}]
  /\ \A p \in Paths : UriPath[p] \in Paths /\ UriPath[UriPath[p]] = UriPath[p]
  /\ UriPath[RobotsPath] = RobotsPath /\ UriPath[NoPath] = NoPath
ASSUME WebAssumption ==
  /\ IsFiniteSet(Web)
  /\ Web \subseteq AnyUrl
  /\ Seeds \in Seq(Web)
ASSUME BoundsAssumption ==
  REHIT_WAIT \in Nat /\ REDIRECT_MAX \in Nat /\ MaxLinks \in Nat

LongAgo == REHIT_WAIT + 1   \* more than the wait ago, or no entry in lastHitHost

VARIABLES
  keep_running,     \* cleared by the stop signal
  printThread,      \* "running" until it has pushed the empty URLs, then "done"
  readyQueue,       \* the frontier
  asleep,           \* the workers blocked in readyQueue.pop()
  pc,               \* where each worker is
  cur,              \* the URL each worker holds
  redirCount,       \* the redirects its current fetch has followed
  readyToCrawl,     \* the parked URLs it has taken and not yet pushed
  waitingForRobots, \* host -> the set of URLs parked for it ({} = no entry)
  sinceHit,         \* host -> ticks since lastHitHost was set, capped at LongAgo
  robotsFiles,      \* the hosts with a file in robots/
  stored,           \* the uris the page store has a file for
  killFilter,       \* the uris added to the kill filter
  linksLeft,        \* what is left of MaxLinks
  submitted,        \* history: the URLs stub has passed to SubmitURLSync
  robotsLost        \* history: the hosts for which a robots fetch ended without a file

frontierVars == <<readyQueue, asleep>>
localVars    == <<cur, redirCount, readyToCrawl>>
workerVars   == <<pc, localVars>>
robotsVars   == <<waitingForRobots, robotsFiles, robotsLost>>
storeVars    == <<stored, killFilter, linksLeft, submitted>>
stopVars     == <<keep_running, printThread>>
controlVars  == <<stopVars, sinceHit>>
vars == <<frontierVars, workerVars, robotsVars, storeVars, controlVars>>

Frontier == INSTANCE ThreadQueue WITH q <- readyQueue, asleep <- asleep

\* readyQueue.push(start, end) over a std::set: each element once, in some order.
Orders(S) == {s \in [1..Cardinality(S) -> S] : Range(s) = S}
PushSet(S) == \E s \in Orders(S) : Frontier!PushAll(s)

Goto(w, label) == pc' = [pc EXCEPT ![w] = label]

\* The end of an iteration of stub's loop: its locals go out of scope.
NextIteration(w) ==
  /\ Goto(w, "loop")
  /\ cur' = [cur EXCEPT ![w] = EmptyUrl]
  /\ redirCount' = [redirCount EXCEPT ![w] = 0]

Init ==
  /\ keep_running = TRUE
  /\ printThread = "running"
  /\ readyQueue = Seeds
  /\ asleep = {}
  /\ pc = [w \in Workers |-> "loop"]
  /\ cur = [w \in Workers |-> EmptyUrl]
  /\ redirCount = [w \in Workers |-> 0]
  /\ readyToCrawl = [w \in Workers |-> {}]
  /\ waitingForRobots = [h \in Hosts |-> {}]
  /\ sinceHit = [h \in Hosts \cup {NoHost} |-> LongAgo]
  /\ robotsFiles = {}
  /\ stored = {}
  /\ killFilter = {}
  /\ linksLeft = MaxLinks
  /\ submitted = {}
  /\ robotsLost = {}
----------------------------------------------------------------------------
(* Crawler::stub *)

\* while (keep_running)
Loop(w) ==
  /\ pc[w] = "loop"
  /\ Goto(w, IF keep_running THEN "pop" ELSE "exited")
  /\ UNCHANGED <<frontierVars, localVars, robotsVars, storeVars, controlVars>>

\* readyQueue.pop(), which blocks while the queue is empty
PopUrl(w) ==
  /\ pc[w] = "pop"
  /\ \/ /\ Frontier!Pop(w)
        /\ cur' = [cur EXCEPT ![w] = Head(readyQueue)]
        /\ Goto(w, "filter")
     \/ /\ Frontier!Block(w)
        /\ UNCHANGED <<pc, cur>>
  /\ UNCHANGED <<redirCount, readyToCrawl, robotsVars, storeVars, controlVars>>

HavePage(u) == ~IsRobots(u) /\ Uri(u) \in stored

\* Pages that are already stored, and bad extensions, are dropped.
Filter(w) ==
  /\ pc[w] = "filter"
  /\ IF HavePage(cur[w]) \/ ~GoodExtension(cur[w])
     THEN NextIteration(w)
     ELSE /\ Goto(w, "haveRobots")
          /\ UNCHANGED <<cur, redirCount>>
  /\ UNCHANGED <<frontierVars, readyToCrawl, robotsVars, storeVars, controlVars>>

\* stat("robots/" + host) or stat("robots/www." + host); with no host that is the
\* directory robots/ itself, which exists.
HaveRobots(h) == h = NoHost \/ h \in robotsFiles \/ WwwOf[h] \in robotsFiles

CheckRobots(w) ==
  /\ pc[w] = "haveRobots"
  /\ Goto(w, IF IsRobots(cur[w]) \/ HaveRobots(cur[w].host) THEN "timer" ELSE "requeue")
  /\ UNCHANGED <<frontierVars, localVars, robotsVars, storeVars, controlVars>>

\* Mutant: the URL is parked only, and not put back on the queue.
ParkOnly(w) ==
  /\ pc[w] = "requeue"
  /\ Goto(w, "park")
  /\ UNCHANGED <<frontierVars, localVars, robotsVars, storeVars, controlVars>>

\* No robots file yet: back to the end of the queue ...
Requeue(w) ==
  /\ pc[w] = "requeue"
  /\ Frontier!Push(cur[w])
  /\ Goto(w, "park")
  /\ UNCHANGED <<localVars, robotsVars, storeVars, controlVars>>

\* ... and into the host's waiting set, under waitingForRobotsLock.  The worker
\* that creates the set goes on to fetch robots.txt itself.
Park(w) ==
  LET h == cur[w].host IN
  /\ pc[w] = "park"
  /\ waitingForRobots' = [waitingForRobots EXCEPT ![h] = @ \cup {Uri(cur[w])}]
  /\ IF waitingForRobots[h] = {}
     THEN /\ cur' = [cur EXCEPT ![w] = RobotsUrl(h)]
          /\ Goto(w, "request")
          /\ UNCHANGED redirCount
     ELSE NextIteration(w)
  /\ UNCHANGED <<frontierVars, readyToCrawl, robotsFiles, robotsLost, storeVars, controlVars>>

\* The critical section of domainMutex: the host may be hit again only when more
\* than DOMAIN_REHIT_WAIT_TIME has passed, or it was never hit.
CheckTimer(w) ==
  LET h == cur[w].host IN
  /\ pc[w] = "timer"
  /\ IF sinceHit[h] > REHIT_WAIT
     THEN /\ sinceHit' = [sinceHit EXCEPT ![h] = 0]
          /\ submitted' = submitted \cup {cur[w]}
          /\ Goto(w, "request")
     ELSE /\ Goto(w, "putBack")
          /\ UNCHANGED <<sinceHit, submitted>>
  /\ UNCHANGED <<frontierVars, localVars, robotsVars, stored, killFilter, linksLeft, stopVars>>

\* Mutant: a URL that comes too early is dropped.
DropEarly(w) ==
  /\ pc[w] = "putBack"
  /\ NextIteration(w)
  /\ UNCHANGED <<frontierVars, readyToCrawl, robotsVars, storeVars, controlVars>>

\* Too early: the URL goes to the end of the queue.
PutBack(w) ==
  /\ pc[w] = "putBack"
  /\ Frontier!Push(cur[w])
  /\ NextIteration(w)
  /\ UNCHANGED <<readyToCrawl, robotsVars, storeVars, controlVars>>
----------------------------------------------------------------------------
(* HTTPClient::SubmitURLSync *)

\* A robots fetch that ends, or goes on as a fetch of u, without a file for its host.
LoseRobots(w, u) ==
  robotsLost' = robotsLost \cup {h \in {cur[w].host} : IsRobots(cur[w]) /\ u # cur[w]}

\* The redirect limit, or a connect, handshake, send, receive or content-type error.
FetchFails(w) ==
  /\ pc[w] = "request"
  /\ cur[w].host # NoHost \/ redirCount[w] > REDIRECT_MAX
  /\ killFilter' = killFilter \cup {Uri(cur[w])}
  /\ LoseRobots(w, EmptyUrl)
  /\ NextIteration(w)
  /\ UNCHANGED <<frontierVars, readyToCrawl, waitingForRobots, robotsFiles, stored, linksLeft,
                 submitted, controlVars>>

\* The early returns that leave no trace: no host, a scheme other than http and
\* https, a chunked response, a compressed page.
FetchAbandoned(w) ==
  /\ pc[w] = "request"
  /\ redirCount[w] <= REDIRECT_MAX
  /\ LoseRobots(w, EmptyUrl)
  /\ NextIteration(w)
  /\ UNCHANGED <<frontierVars, readyToCrawl, waitingForRobots, robotsFiles, storeVars,
                 controlVars>>

\* Mutant: redirects are followed without a limit.
FollowAnyRedirect(w) ==
  /\ pc[w] = "request"
  /\ cur[w].host # NoHost
  /\ \E u \in Web : cur' = [cur EXCEPT ![w] = u] /\ LoseRobots(w, u)
  /\ redirCount' = [redirCount EXCEPT ![w] = @ + 1]
  /\ UNCHANGED <<frontierVars, pc, readyToCrawl, waitingForRobots, robotsFiles, storeVars,
                 controlVars>>

\* A 3xx response: SubmitURLSync calls itself on the new URL.
FetchRedirected(w) ==
  /\ pc[w] = "request"
  /\ redirCount[w] <= REDIRECT_MAX
  /\ cur[w].host # NoHost
  /\ \E u \in Web : cur' = [cur EXCEPT ![w] = u] /\ LoseRobots(w, u)
  /\ redirCount' = [redirCount EXCEPT ![w] = @ + 1]
  /\ UNCHANGED <<frontierVars, pc, readyToCrawl, waitingForRobots, robotsFiles, storeVars,
                 controlVars>>

\* A response with a body.
FetchAnswered(w) ==
  /\ pc[w] = "request"
  /\ redirCount[w] <= REDIRECT_MAX
  /\ cur[w].host # NoHost
  /\ Goto(w, IF IsRobots(cur[w]) THEN "robotsBody" ELSE "pageBody")
  /\ UNCHANGED <<frontierVars, localVars, robotsVars, storeVars, controlVars>>

\* process(): the links of the page are pushed in one batch ...
PushLinks(w) ==
  /\ pc[w] = "pageBody"
  /\ \E links \in SUBSET Web :
       /\ Cardinality(links) <= linksLeft
       /\ PushSet(links)
       /\ linksLeft' = linksLeft - Cardinality(links)
  /\ Goto(w, "store")
  /\ UNCHANGED <<localVars, robotsVars, stored, killFilter, submitted, controlVars>>

\* ... and the page is written to the page store, under its uri.
StorePage(w) ==
  /\ pc[w] = "store"
  /\ stored' = stored \cup {Uri(cur[w])}
  /\ NextIteration(w)
  /\ UNCHANGED <<frontierVars, readyToCrawl, robotsVars, killFilter, linksLeft, submitted,
                 controlVars>>

\* The robots file is written and handed to RobotsTxt; from here on haveRobots holds.
WriteRobots(w) ==
  /\ pc[w] = "robotsBody"
  /\ robotsFiles' = robotsFiles \cup {cur[w].host}
  /\ Goto(w, "takeParked")
  /\ UNCHANGED <<frontierVars, localVars, waitingForRobots, robotsLost, storeVars, controlVars>>

\* Mutant: the waiting set is read and not erased.
ReadParked(w) ==
  /\ pc[w] = "takeParked"
  /\ readyToCrawl' = [readyToCrawl EXCEPT ![w] = waitingForRobots[cur[w].host]]
  /\ Goto(w, "pushParked")
  /\ UNCHANGED <<frontierVars, cur, redirCount, robotsVars, storeVars, controlVars>>

\* The waiting set of the host is taken, under waitingForRobotsLock ...
TakeParked(w) ==
  LET h == cur[w].host IN
  /\ pc[w] = "takeParked"
  /\ readyToCrawl' = [readyToCrawl EXCEPT ![w] = waitingForRobots[h]]
  /\ waitingForRobots' = [waitingForRobots EXCEPT ![h] = {}]
  /\ Goto(w, "pushParked")
  /\ UNCHANGED <<frontierVars, cur, redirCount, robotsFiles, robotsLost, storeVars,
                 controlVars>>

\* ... and pushed in one batch.
PushParked(w) ==
  /\ pc[w] = "pushParked"
  /\ PushSet(readyToCrawl[w])
  /\ readyToCrawl' = [readyToCrawl EXCEPT ![w] = {}]
  /\ NextIteration(w)
  /\ UNCHANGED <<robotsVars, storeVars, controlVars>>
----------------------------------------------------------------------------
(* The stop signal, the print thread, time and the scheduler *)

\* sig_handler
Stop ==
  /\ keep_running
  /\ keep_running' = FALSE
  /\ UNCHANGED <<printThread, frontierVars, workerVars, robotsVars, storeVars, sinceHit>>

\* Mutant: one empty URL too few.
PushTooFewEmptyUrls ==
  /\ ~keep_running
  /\ printThread = "running"
  /\ printThread' = "done"
  /\ Frontier!PushAll([i \in 1..Cardinality(Workers) - 1 |-> EmptyUrl])
  /\ UNCHANGED <<keep_running, workerVars, robotsVars, storeVars, sinceHit>>

\* The print thread leaves its loop and pushes one empty URL per worker, in one batch.
PushEmptyUrls ==
  /\ ~keep_running
  /\ printThread = "running"
  /\ printThread' = "done"
  /\ Frontier!PushAll([i \in 1..Cardinality(Workers) |-> EmptyUrl])
  /\ UNCHANGED <<keep_running, workerVars, robotsVars, storeVars, sinceHit>>

Older(age) == IF age > REHIT_WAIT THEN age ELSE age + 1

Tick ==
  /\ sinceHit' = [h \in Hosts \cup {NoHost} |-> Older(sinceHit[h])]
  /\ sinceHit' # sinceHit
  /\ UNCHANGED <<frontierVars, workerVars, robotsVars, storeVars, stopVars>>

Wakeup(w) ==
  /\ Frontier!SpuriousWakeup(w)
  /\ UNCHANGED <<workerVars, robotsVars, storeVars, controlVars>>

SubmitURLSync(w) ==
  \/ FetchFails(w) \/ FetchAbandoned(w) \/ FetchRedirected(w) \/ FetchAnswered(w)
  \/ PushLinks(w) \/ StorePage(w) \/ WriteRobots(w)
  \/ TakeParked(w) \/ PushParked(w)

Stub(w) ==
  \/ Loop(w) \/ PopUrl(w) \/ Filter(w) \/ CheckRobots(w) \/ Requeue(w) \/ Park(w)
  \/ CheckTimer(w) \/ PutBack(w)

Next ==
  \/ \E w \in Workers : Stub(w) \/ SubmitURLSync(w) \/ Wakeup(w)
  \/ Stop \/ PushEmptyUrls \/ Tick

\* Every thread keeps being scheduled.  Nothing is assumed of the calls whose end the code
\* does not guarantee: a server may keep sending (http.cpp:360), a link may be resolved for
\* ever (http.cpp:547), the file of the rules may never open (DomainRules.cpp:127, between
\* WriteRobots and TakeParked).  Nor is anything of the stop signal and of spurious wakeups.
Fairness ==
  /\ \A w \in Workers : WF_vars(Stub(w) \/ StorePage(w) \/ PushParked(w))
  /\ WF_vars(PushEmptyUrls)
  /\ WF_vars(Tick)

Spec == Init /\ [][Next]_vars /\ Fairness
----------------------------------------------------------------------------
(* Properties *)

Labels ==
  {"loop", "pop", "filter", "haveRobots", "requeue", "park", "timer", "putBack", "request",
   "pageBody", "store", "robotsBody", "takeParked", "pushParked", "exited"}

TypeOK ==
  /\ keep_running \in BOOLEAN
  /\ printThread \in {"running", "done"}
  /\ readyQueue \in Seq(AnyUrl)
  /\ asleep \in SUBSET Workers
  /\ pc \in [Workers -> Labels]
  /\ cur \in [Workers -> AnyUrl]
  /\ redirCount \in [Workers -> 0..REDIRECT_MAX + 1]
  /\ readyToCrawl \in [Workers -> SUBSET AnyUrl]
  /\ waitingForRobots \in [Hosts -> SUBSET AnyUrl]
  /\ sinceHit \in [Hosts \cup {NoHost} -> 0..LongAgo]
  /\ robotsFiles \in SUBSET Hosts
  /\ stored \in SUBSET AnyUrl
  /\ killFilter \in SUBSET AnyUrl
  /\ linksLeft \in 0..MaxLinks
  /\ submitted \in SUBSET AnyUrl
  /\ robotsLost \in SUBSET Hosts

\* A batch push wakes one worker however many URLs it brings (ThreadQueue::push), so
\* workers may sleep while URLs wait.  What still holds, as long as the crawler runs, is that
\* the frontier never has URLs with every worker asleep: whoever pushes comes back to pop.
FrontierNeverStalls ==
  keep_running /\ readyQueue # <<>> => asleep # Workers

\* A URL is parked in waitingForRobots only on top of a copy that is in the frontier or in
\* some worker's hands, unless the URL has been submitted or its page stored since: when
\* the set is never released (a failed robots fetch), no URL is lost with it, not even when
\* the crawler stops.
ParkedUrlsAreCopies ==
  \A h \in Hosts : \A uri \in waitingForRobots[h] :
    \/ \E i \in DOMAIN readyQueue : Uri(readyQueue[i]) = uri
    \/ \E w \in Workers : pc[w] # "exited" /\ Uri(cur[w]) = uri
    \/ uri \in stored
    \/ \E u \in submitted : Uri(u) = uri

\* Every host with parked URLs has a worker fetching its robots.txt, unless a fetch of that
\* file has ended without one: no interleaving of park, write and take leaves a set behind.
FetchingRobots(w, h) ==
  /\ cur[w] = RobotsUrl(h)
  /\ pc[w] \in {"request", "robotsBody", "takeParked"}
ParkedUrlsAreFetchedFor ==
  \A h \in Hosts :
    waitingForRobots[h] # {} =>
      h \in robotsLost \/ \E w \in Workers : FetchingRobots(w, h)

\* Where a worker may stay for ever.
InFetch(w) == pc[w] \in {"request", "pageBody", "robotsBody", "takeParked"}
StaysInFetch(w) == []InFetch(w)

\* Every URL on the frontier is submitted in the end, however the workers race for it and
\* for its host's timer, unless it is dropped (stored already, or a bad extension), the
\* robots file of its host was lost, the crawler stops, or a fetch never ends: its worker
\* would have come back to the frontier, where the others may all be asleep.
Disposed(u) ==
  u \in submitted \/ HavePage(u) \/ ~GoodExtension(u) \/ u.host \in robotsLost \/ ~keep_running
EveryUrlIsSubmitted ==
  \A u \in Web :
    (\E i \in DOMAIN readyQueue : readyQueue[i] = u)
      ~> (Disposed(u) \/ \E w \in Workers : StaysInFetch(w))

\* Once the print thread has pushed the empty URLs, every worker that is awake finishes
\* what it holds and exits, whatever the other workers are stuck in; only its own fetch
\* can keep it.
AwakeWorkersExit ==
  \A w \in Workers :
    (printThread = "done" /\ w \notin asleep) ~> (pc[w] = "exited" \/ StaysInFetch(w))

\* The print thread is no worker: when all workers are asleep at the stop signal, it is the
\* signal of its push that lets one of them find out.  Only a worker that never comes back
\* from a fetch can prevent it: the signal may have been spent on that worker.
StopIsNoticed ==
  ~keep_running ~> \E w \in Workers : pc[w] = "exited" \/ StaysInFetch(w)

\* The comment of Crawler::print promises more: after the stop signal every worker pops an
\* empty string and exits, so that the destructor's joins return.  It is not held against
\* it that a fetch may never end.
EveryWorkerExits ==
  ~keep_running ~> \A w \in Workers : pc[w] = "exited" \/ StaysInFetch(w)

\* "no duplicates", says stub of the check it makes before fetching: no page is stored
\* that is stored already.
NoDuplicates ==
  [][\A w \in Workers : pc[w] = "store" /\ pc'[w] # "store" => Uri(cur[w]) \notin stored]_vars
=============================================================================
