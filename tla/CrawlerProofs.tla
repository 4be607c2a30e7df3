--------------------------- MODULE CrawlerProofs ---------------------------
(***************************************************************************)
(* Type correctness of the crawler, that its frontier never stalls, and    *)
(* what becomes of parked URLs: for any workers, any web and any bounds.   *)
(***************************************************************************)
EXTENDS Crawler, FiniteSetTheorems, TLAPS

\* A push appends a sequence: the concatenation of two sequences over a set is one of them.
LEMMA TupleIsSequence ==
  ASSUME NEW T, NEW n \in Nat, NEW s \in [1..n -> T]
  PROVE  s \in Seq(T)
OBVIOUS

\* Every order in which a finite set is pushed is a sequence over its elements.
LEMMA OrdersAreSequences ==
  ASSUME NEW T, NEW S \in SUBSET T, IsFiniteSet(S), NEW s \in Orders(S)
  PROVE  s \in Seq(T)
<1>1. Cardinality(S) \in Nat
  BY FS_CardinalityType
<1>2. s \in [1..Cardinality(S) -> T]
  BY DEF Orders
<1>. QED
  BY <1>1, <1>2, TupleIsSequence

\* uri() keeps a URL a URL, on the same host.
LEMMA UriType ==
  ASSUME NEW u \in AnyUrl
  PROVE  Uri(u) \in AnyUrl /\ Uri(u).host = u.host
BY UriAssumption DEF AnyUrl, EmptyUrl, UrlOn, Uri

\* The robots URL of a host is a URL, and its own uri.
LEMMA RobotsUrlType ==
  ASSUME NEW h \in Hosts
  PROVE  RobotsUrl(h) \in AnyUrl
BY DEF AnyUrl, RobotsUrl, UrlOn

\* The empty URL is one of the URLs the frontier may hold.
LEMMA EmptyUrlType == EmptyUrl \in AnyUrl
BY DEF AnyUrl

\* A URL is on a host, unless it is the empty one, which is not a robots URL.
LEMMA HostOfUrl ==
  ASSUME NEW u \in AnyUrl
  PROVE  /\ u.host \in Hosts \cup {NoHost}
         /\ IsRobots(u) => u.host \in Hosts
BY NamesAssumption DEF AnyUrl, EmptyUrl, UrlOn, IsRobots

(***************************************************************************)
(* Type correctness.  Two facts make TypeOK inductive: the parked sets are *)
(* finite, so that they can be pushed as sequences, and a worker that      *)
(* waits for robots rules, or has just fetched some, is on a real host.    *)
(***************************************************************************)
ParkedIsFinite ==
  /\ \A h \in Hosts : IsFiniteSet(waitingForRobots[h])
  /\ \A w \in Workers : IsFiniteSet(readyToCrawl[w])

HostIsReal ==
  \A w \in Workers :
    pc[w] \in {"requeue", "park", "robotsBody", "takeParked"} => cur[w].host \in Hosts

TypeInv == TypeOK /\ ParkedIsFinite /\ HostIsReal

\* The constructor's state is well typed.
LEMMA TypeInit == Init => TypeInv
<1>. SUFFICES ASSUME Init PROVE TypeInv
  OBVIOUS
<1>1. Seeds \in Seq(AnyUrl)
  BY WebAssumption
<1>2. TypeOK
  BY <1>1, EmptyUrlType, BoundsAssumption DEF Init, TypeOK, Labels, LongAgo
<1>3. ParkedIsFinite
  BY FS_EmptySet DEF Init, ParkedIsFinite
<1>4. HostIsReal
  BY DEF Init, HostIsReal
<1>. QED
  BY <1>2, <1>3, <1>4 DEF TypeInv

\* What a push leaves: a longer queue of URLs and no new sleeper.
LEMMA PushType ==
  ASSUME readyQueue \in Seq(AnyUrl), NEW s \in Seq(AnyUrl), Frontier!PushAll(s)
  PROVE  readyQueue' \in Seq(AnyUrl) /\ asleep' \subseteq asleep
BY DEF Frontier!PushAll, Frontier!Signal

\* push of one URL keeps the frontier a sequence of URLs.
LEMMA PushOneType ==
  ASSUME readyQueue \in Seq(AnyUrl), NEW u \in AnyUrl, Frontier!Push(u)
  PROVE  readyQueue' \in Seq(AnyUrl) /\ asleep' \subseteq asleep
<1>1. <<u>> \in Seq(AnyUrl)
  OBVIOUS
<1>. QED
  BY <1>1, PushType DEF Frontier!Push

\* push of a set of URLs, in whatever order, keeps the frontier a sequence of URLs.
LEMMA PushSetType ==
  ASSUME readyQueue \in Seq(AnyUrl), NEW S \in SUBSET AnyUrl, IsFiniteSet(S), PushSet(S)
  PROVE  readyQueue' \in Seq(AnyUrl) /\ asleep' \subseteq asleep
BY PushType, OrdersAreSequences DEF PushSet

\* The end of an iteration keeps the types of the locals and leaves no worker between
\* parking and pushing.
LEMMA NextIterationType ==
  ASSUME TypeOK, NEW w \in Workers, NextIteration(w)
  PROVE  /\ pc' \in [Workers -> Labels]
         /\ cur' \in [Workers -> AnyUrl]
         /\ redirCount' \in [Workers -> 0..REDIRECT_MAX + 1]
         /\ HostIsReal => HostIsReal'
BY EmptyUrlType, BoundsAssumption DEF NextIteration, Goto, TypeOK, HostIsReal, Labels

\* Every step of Crawler::stub keeps the types.
LEMMA StubPreservesType ==
  ASSUME TypeInv, NEW w \in Workers, Stub(w)
  PROVE  TypeInv'
<1>. USE DEF TypeInv, TypeOK, frontierVars, localVars, robotsVars, storeVars, controlVars,
             stopVars
<1>1. CASE Loop(w)
  BY <1>1 DEF Loop, Goto, ParkedIsFinite, HostIsReal, Labels
<1>2. CASE PopUrl(w)
  <2>1. CASE Frontier!Pop(w) /\ cur' = [cur EXCEPT ![w] = Head(readyQueue)] /\ Goto(w, "filter")
    <3>1. Head(readyQueue) \in AnyUrl /\ Tail(readyQueue) \in Seq(AnyUrl)
      BY <2>1 DEF Frontier!Pop
    <3>. QED
      BY <1>2, <2>1, <3>1 DEF PopUrl, Frontier!Pop, Goto, ParkedIsFinite, HostIsReal, Labels
  <2>2. CASE Frontier!Block(w) /\ UNCHANGED <<pc, cur>>
    BY <1>2, <2>2 DEF PopUrl, Frontier!Block, ParkedIsFinite, HostIsReal
  <2>. QED
    BY <1>2, <2>1, <2>2 DEF PopUrl
<1>3. CASE Filter(w)
  <2>1. CASE NextIteration(w)
    BY <1>3, <2>1, NextIterationType DEF Filter, ParkedIsFinite
  <2>2. CASE Goto(w, "haveRobots") /\ UNCHANGED <<cur, redirCount>>
    BY <1>3, <2>2 DEF Filter, Goto, ParkedIsFinite, HostIsReal, Labels
  <2>. QED
    BY <1>3, <2>1, <2>2 DEF Filter
<1>4. CASE CheckRobots(w)
  BY <1>4, HostOfUrl DEF CheckRobots, HaveRobots, Goto, ParkedIsFinite, HostIsReal, Labels
<1>5. CASE Requeue(w)
  <2>1. readyQueue' \in Seq(AnyUrl) /\ asleep' \in SUBSET Workers
    BY <1>5, PushOneType DEF Requeue
  <2>. QED
    BY <1>5, <2>1 DEF Requeue, Goto, ParkedIsFinite, HostIsReal, Labels
<1>6. CASE Park(w)
  <2> DEFINE h == cur[w].host
  <2>1. h \in Hosts /\ Uri(cur[w]) \in AnyUrl
    BY <1>6, UriType DEF Park, HostIsReal
  <2>2. waitingForRobots' \in [Hosts -> SUBSET AnyUrl]
    BY <1>6, <2>1 DEF Park
  <2>3. ParkedIsFinite'
    <3>1. IsFiniteSet(waitingForRobots[h] \cup {Uri(cur[w])})
      BY <2>1, FS_AddElement DEF ParkedIsFinite
    <3>. QED
      BY <1>6, <2>1, <3>1 DEF Park, ParkedIsFinite
  <2>4. CASE NextIteration(w)
    BY <1>6, <2>2, <2>3, <2>4, NextIterationType DEF Park
  <2>5. CASE cur' = [cur EXCEPT ![w] = RobotsUrl(h)] /\ Goto(w, "request") /\ UNCHANGED redirCount
    BY <1>6, <2>1, <2>2, <2>3, <2>5, RobotsUrlType DEF Park, Goto, HostIsReal, Labels
  <2>. QED
    BY <1>6, <2>4, <2>5 DEF Park
<1>7. CASE CheckTimer(w)
  <2>1. /\ sinceHit' \in [Hosts \cup {NoHost} -> 0..LongAgo]
        /\ submitted' \in SUBSET AnyUrl
    BY <1>7, BoundsAssumption DEF CheckTimer, LongAgo
  <2>. QED
    BY <1>7, <2>1 DEF CheckTimer, Goto, ParkedIsFinite, HostIsReal, Labels
<1>8. CASE PutBack(w)
  <2>1. readyQueue' \in Seq(AnyUrl) /\ asleep' \in SUBSET Workers
    BY <1>8, PushOneType DEF PutBack
  <2>. QED
    BY <1>8, <2>1, NextIterationType DEF PutBack, ParkedIsFinite
<1>. QED
  BY <1>1, <1>2, <1>3, <1>4, <1>5, <1>6, <1>7, <1>8 DEF Stub

\* Every step of HTTPClient::SubmitURLSync keeps the types; its guard bounds the redirects.
LEMMA SubmitURLSyncPreservesType ==
  ASSUME TypeInv, NEW w \in Workers, SubmitURLSync(w)
  PROVE  TypeInv'
<1>. USE DEF TypeInv, TypeOK, frontierVars, localVars, robotsVars, storeVars, controlVars,
             stopVars
<1>1. Uri(cur[w]) \in AnyUrl /\ EmptyUrl \in AnyUrl
  BY UriType, EmptyUrlType
<1>2. ASSUME NEW u, LoseRobots(w, u)
      PROVE  robotsLost' \in SUBSET Hosts
  BY <1>2, HostOfUrl DEF LoseRobots
<1>3. CASE FetchFails(w)
  BY <1>1, <1>2, <1>3, NextIterationType DEF FetchFails, ParkedIsFinite
<1>4. CASE FetchAbandoned(w)
  BY <1>1, <1>2, <1>4, NextIterationType DEF FetchAbandoned, ParkedIsFinite
<1>5. CASE FetchRedirected(w)
  <2>1. PICK u \in Web : cur' = [cur EXCEPT ![w] = u] /\ LoseRobots(w, u)
    BY <1>5 DEF FetchRedirected
  <2>2. cur' \in [Workers -> AnyUrl] /\ robotsLost' \in SUBSET Hosts
    BY <1>2, <2>1, WebAssumption
  <2>3. redirCount' \in [Workers -> 0..REDIRECT_MAX + 1]
    BY <1>5, BoundsAssumption DEF FetchRedirected
  <2>4. HostIsReal'
    BY <1>5, <2>1 DEF FetchRedirected, HostIsReal
  <2>. QED
    BY <1>5, <2>2, <2>3, <2>4 DEF FetchRedirected, ParkedIsFinite
<1>6. CASE FetchAnswered(w)
  <2>1. HostIsReal'
    BY <1>6, HostOfUrl DEF FetchAnswered, Goto, HostIsReal
  <2>. QED
    BY <1>6, <2>1 DEF FetchAnswered, Goto, ParkedIsFinite, Labels
<1>7. CASE PushLinks(w)
  <2>1. PICK links \in SUBSET Web : /\ Cardinality(links) <= linksLeft
                                    /\ PushSet(links)
                                    /\ linksLeft' = linksLeft - Cardinality(links)
    BY <1>7 DEF PushLinks
  <2>2. IsFiniteSet(links) /\ Cardinality(links) \in Nat /\ links \in SUBSET AnyUrl
    BY WebAssumption, FS_Subset, FS_CardinalityType
  <2>3. readyQueue' \in Seq(AnyUrl) /\ asleep' \in SUBSET Workers
    BY <2>1, <2>2, PushSetType
  <2>4. linksLeft' \in 0..MaxLinks
    BY <2>1, <2>2, BoundsAssumption
  <2>. QED
    BY <1>7, <2>3, <2>4 DEF PushLinks, Goto, ParkedIsFinite, HostIsReal, Labels
<1>8. CASE StorePage(w)
  BY <1>1, <1>8, NextIterationType DEF StorePage, ParkedIsFinite
<1>9. CASE WriteRobots(w)
  BY <1>9 DEF WriteRobots, Goto, ParkedIsFinite, HostIsReal, Labels
<1>10. CASE TakeParked(w)
  <2>1. cur[w].host \in Hosts
    BY <1>10 DEF TakeParked, HostIsReal
  <2>2. /\ readyToCrawl' \in [Workers -> SUBSET AnyUrl]
        /\ waitingForRobots' \in [Hosts -> SUBSET AnyUrl]
        /\ ParkedIsFinite'
    BY <1>10, <2>1, FS_EmptySet DEF TakeParked, ParkedIsFinite
  <2>. QED
    BY <1>10, <2>2 DEF TakeParked, Goto, HostIsReal, Labels
<1>11. CASE PushParked(w)
  <2>1. readyQueue' \in Seq(AnyUrl) /\ asleep' \in SUBSET Workers
    BY <1>11, PushSetType DEF PushParked, ParkedIsFinite
  <2>2. readyToCrawl' \in [Workers -> SUBSET AnyUrl] /\ ParkedIsFinite'
    BY <1>11, FS_EmptySet DEF PushParked, ParkedIsFinite
  <2>. QED
    BY <1>11, <2>1, <2>2, NextIterationType DEF PushParked
<1>. QED
  BY <1>3, <1>4, <1>5, <1>6, <1>7, <1>8, <1>9, <1>10, <1>11 DEF SubmitURLSync

\* The stop signal, the print thread, the clock and the scheduler keep the types.
LEMMA OthersPreserveType ==
  ASSUME TypeInv,
         Stop \/ PushEmptyUrls \/ Tick \/ \E w \in Workers : Wakeup(w)
  PROVE  TypeInv'
<1>. USE DEF TypeInv, TypeOK, frontierVars, workerVars, localVars, robotsVars, storeVars,
             controlVars, stopVars, ParkedIsFinite, HostIsReal
<1>1. CASE Stop
  BY <1>1 DEF Stop
<1>2. CASE PushEmptyUrls
  <2>1. [i \in 1..Cardinality(Workers) |-> EmptyUrl] \in Seq(AnyUrl)
    <3>1. Cardinality(Workers) \in Nat
      BY WorkersAssumption, FS_CardinalityType
    <3> DEFINE s == [i \in 1..Cardinality(Workers) |-> EmptyUrl]
    <3>2. s \in [1..Cardinality(Workers) -> AnyUrl]
      BY EmptyUrlType
    <3> HIDE DEF s
    <3>3. s \in Seq(AnyUrl)
      BY <3>1, <3>2, TupleIsSequence
    <3>. QED
      BY <3>3 DEF s
  <2>2. readyQueue' \in Seq(AnyUrl) /\ asleep' \in SUBSET Workers
    BY <1>2, <2>1, PushType DEF PushEmptyUrls
  <2>. QED
    BY <1>2, <2>2 DEF PushEmptyUrls
<1>3. CASE Tick
  <2>1. \A age \in 0..LongAgo : Older(age) \in 0..LongAgo
    BY BoundsAssumption DEF Older, LongAgo
  <2>2. sinceHit' \in [Hosts \cup {NoHost} -> 0..LongAgo]
    BY <1>3, <2>1 DEF Tick
  <2>. QED
    BY <1>3, <2>2 DEF Tick
<1>4. ASSUME NEW w \in Workers, Wakeup(w)
      PROVE  TypeInv'
  BY <1>4 DEF Wakeup, Frontier!SpuriousWakeup
<1>. QED
  BY <1>1, <1>2, <1>3, <1>4

\* The typing invariant is inductive.
LEMMA TypeStep == TypeInv /\ [Next]_vars => TypeInv'
<1>. SUFFICES ASSUME TypeInv, [Next]_vars PROVE TypeInv'
  OBVIOUS
<1>1. CASE Next
  BY <1>1, StubPreservesType, SubmitURLSyncPreservesType, OthersPreserveType DEF Next
<1>2. CASE UNCHANGED vars
  BY <1>2 DEF vars, frontierVars, workerVars, localVars, robotsVars, storeVars, controlVars,
              stopVars, TypeInv, TypeOK, ParkedIsFinite, HostIsReal
<1>. QED
  BY <1>1, <1>2

\* The crawler's state keeps its types in every behaviour.
THEOREM TypeCorrect == Spec => []TypeOK
<1>1. Spec => []TypeInv
  BY TypeInit, TypeStep, PTL DEF Spec
<1>2. TypeInv => TypeOK
  BY DEF TypeInv
<1>. QED
  BY <1>1, <1>2, PTL
----------------------------------------------------------------------------
(***************************************************************************)
(* The frontier never stalls.  A push wakes at most one worker, so the     *)
(* argument is not about who is woken: only a worker inside pop sleeps, so *)
(* the worker that pushes is awake, and a worker falls asleep only on an   *)
(* empty queue.  The print thread is the one pusher that is not a worker,  *)
(* and it pushes only after the stop signal.                               *)
(***************************************************************************)
SleepersArePopping == \A w \in asleep : pc[w] = "pop"

StallInv == TypeInv /\ SleepersArePopping /\ FrontierNeverStalls

\* Before the first step no worker sleeps.
LEMMA StallInit == Init => StallInv
BY TypeInit, WorkersAssumption
   DEF Init, StallInv, SleepersArePopping, FrontierNeverStalls

\* A step of an awake worker outside pop wakes others at most, and moves itself only.
LEMMA AwakeStep ==
  ASSUME StallInv, NEW w \in Workers, pc[w] # "pop", asleep' \subseteq asleep,
         \A v \in Workers \ {w} : pc'[v] = pc[v]
  PROVE  SleepersArePopping' /\ FrontierNeverStalls'
BY DEF StallInv, SleepersArePopping, FrontierNeverStalls, TypeInv, TypeOK

\* No step leaves URLs on the frontier with every worker asleep, while the crawler runs.
LEMMA StallStep == StallInv /\ [Next]_vars => StallInv'
<1>. SUFFICES ASSUME StallInv, [Next]_vars PROVE StallInv'
  OBVIOUS
<1>1. TypeInv'
  BY TypeStep DEF StallInv
<1>. SUFFICES SleepersArePopping' /\ FrontierNeverStalls'
  BY <1>1 DEF StallInv
<1>2. TypeOK
  BY DEF StallInv, TypeInv
<1>3. ASSUME NEW w \in Workers, PopUrl(w)
      PROVE  SleepersArePopping' /\ FrontierNeverStalls'
  <2>1. CASE Frontier!Pop(w) /\ Goto(w, "filter")
    BY <1>2, <1>3, <2>1 DEF PopUrl, Frontier!Pop, Goto, StallInv, SleepersArePopping,
       FrontierNeverStalls, TypeOK, controlVars, stopVars
  <2>2. CASE Frontier!Block(w) /\ UNCHANGED pc
    BY <1>2, <1>3, <2>2 DEF PopUrl, Frontier!Block, StallInv, SleepersArePopping,
       FrontierNeverStalls, TypeOK
  <2>. QED
    BY <1>3, <2>1, <2>2 DEF PopUrl
<1>4. ASSUME NEW w \in Workers, Stub(w) \/ SubmitURLSync(w), ~PopUrl(w)
      PROVE  /\ pc[w] # "pop"
             /\ asleep' \subseteq asleep
             /\ \A v \in Workers \ {w} : pc'[v] = pc[v]
  BY <1>2, <1>4 DEF Stub, SubmitURLSync, Loop, Filter, CheckRobots, Requeue, Park, CheckTimer,
     PutBack, FetchFails, FetchAbandoned, FetchRedirected, FetchAnswered, PushLinks,
     StorePage, WriteRobots, TakeParked, PushParked, Goto, NextIteration, frontierVars,
     TypeOK, PushSet, Frontier!Push, Frontier!PushAll, Frontier!Signal
<1>5. ASSUME NEW w \in Workers, Stub(w) \/ SubmitURLSync(w)
      PROVE  SleepersArePopping' /\ FrontierNeverStalls'
  BY <1>3, <1>4, <1>5, AwakeStep
<1>6. CASE Stop
  BY <1>6 DEF Stop, StallInv, SleepersArePopping, FrontierNeverStalls, frontierVars, workerVars
<1>7. CASE PushEmptyUrls
  BY <1>2, <1>7 DEF PushEmptyUrls, Frontier!PushAll, Frontier!Signal, StallInv,
     SleepersArePopping, FrontierNeverStalls, workerVars
<1>8. CASE Tick
  BY <1>8 DEF Tick, StallInv, SleepersArePopping, FrontierNeverStalls, frontierVars, workerVars,
     stopVars
<1>9. ASSUME NEW w \in Workers, Wakeup(w)
      PROVE  SleepersArePopping' /\ FrontierNeverStalls'
  BY <1>2, <1>9 DEF Wakeup, Frontier!SpuriousWakeup, StallInv, SleepersArePopping,
     FrontierNeverStalls, TypeOK, workerVars, controlVars, stopVars
<1>10. CASE UNCHANGED vars
  BY <1>10 DEF vars, frontierVars, workerVars, controlVars, stopVars, StallInv,
     SleepersArePopping, FrontierNeverStalls
<1>. QED
  BY <1>5, <1>6, <1>7, <1>8, <1>9, <1>10 DEF Next

\* For any number of workers: while the crawler runs, the frontier never holds URLs with
\* every worker asleep in pop.
THEOREM FrontierAlwaysServed == Spec => []FrontierNeverStalls
<1>1. Spec => []StallInv
  BY StallInit, StallStep, PTL DEF Spec
<1>2. StallInv => FrontierNeverStalls
  BY DEF StallInv
<1>. QED
  BY <1>1, <1>2, PTL
----------------------------------------------------------------------------
(***************************************************************************)
(* Parked URLs are fetched for.  The worker that parks the first URL of a  *)
(* host is the one that fetches, and it keeps at it until it has taken the *)
(* waiting set or lost the file; every other step leaves it where it is.   *)
(***************************************************************************)
ParkInv == TypeInv /\ ParkedUrlsAreFetchedFor

\* Before the first step no URL is parked.
LEMMA ParkInit == Init => ParkInv
BY TypeInit DEF Init, ParkInv, ParkedUrlsAreFetchedFor

\* A step that parks nothing, and of which the worker that moves, if any, is not fetching
\* robots rules.
LEMMA OtherStep ==
  ASSUME ParkedUrlsAreFetchedFor, UNCHANGED waitingForRobots, robotsLost \subseteq robotsLost',
         \A v \in Workers : \A h \in Hosts : FetchingRobots(v, h) => FetchingRobots(v, h)'
  PROVE  ParkedUrlsAreFetchedFor'
BY DEF ParkedUrlsAreFetchedFor

\* No step leaves URLs parked for a host whose robots rules nobody fetches.
LEMMA ParkStep == ParkInv /\ [Next]_vars => ParkInv'
<1>. SUFFICES ASSUME ParkInv, [Next]_vars PROVE ParkInv'
  OBVIOUS
<1>1. TypeInv' /\ TypeOK /\ ParkedUrlsAreFetchedFor
  BY TypeStep DEF ParkInv, TypeInv
<1>. SUFFICES ParkedUrlsAreFetchedFor'
  BY <1>1 DEF ParkInv
<1>. USE DEF frontierVars, workerVars, localVars, robotsVars, storeVars, controlVars, stopVars
<1>2. ASSUME NEW w \in Workers, Stub(w), ~Park(w)
      PROVE  ParkedUrlsAreFetchedFor'
  <2>1. /\ UNCHANGED <<waitingForRobots, robotsLost>>
        /\ pc[w] \notin {"request", "robotsBody", "takeParked"}
        /\ \A v \in Workers \ {w} : pc'[v] = pc[v] /\ cur'[v] = cur[v]
    BY <1>1, <1>2 DEF Stub, Loop, PopUrl, Filter, CheckRobots, Requeue, CheckTimer, PutBack,
       Goto, NextIteration, TypeOK
  <2>. QED
    BY <1>1, <2>1, OtherStep DEF FetchingRobots
<1>3. ASSUME NEW w \in Workers, Park(w)
      PROVE  ParkedUrlsAreFetchedFor'
  <2>1. PICK h \in Hosts : h = cur[w].host
    BY <1>1, <1>3 DEF ParkInv, TypeInv, HostIsReal, Park
  <2>2. /\ \A g \in Hosts \ {h} : waitingForRobots'[g] = waitingForRobots[g]
        /\ robotsLost' = robotsLost
        /\ \A v \in Workers \ {w} : pc'[v] = pc[v] /\ cur'[v] = cur[v]
        /\ pc[w] = "park"
    BY <1>1, <1>3, <2>1 DEF Park, Goto, NextIteration, TypeOK
  <2>3. \A v \in Workers : \A g \in Hosts : FetchingRobots(v, g) => FetchingRobots(v, g)'
    BY <2>2 DEF FetchingRobots
  <2>4. waitingForRobots[h] = {} => FetchingRobots(w, h)'
    BY <1>1, <1>3, <2>1 DEF Park, Goto, FetchingRobots, TypeOK
  <2>. QED
    BY <1>1, <2>1, <2>2, <2>3, <2>4 DEF ParkedUrlsAreFetchedFor
<1>4. ASSUME NEW w \in Workers, SubmitURLSync(w), ~TakeParked(w)
      PROVE  ParkedUrlsAreFetchedFor'
  <2>1. /\ UNCHANGED waitingForRobots
        /\ \A v \in Workers \ {w} : pc'[v] = pc[v] /\ cur'[v] = cur[v]
    BY <1>1, <1>4 DEF SubmitURLSync, FetchFails, FetchAbandoned, FetchRedirected, FetchAnswered,
       PushLinks, StorePage, WriteRobots, PushParked, Goto, NextIteration, TypeOK
  <2>2. robotsLost \subseteq robotsLost'
    BY <1>4 DEF SubmitURLSync, FetchFails, FetchAbandoned, FetchRedirected, FetchAnswered,
       PushLinks, StorePage, WriteRobots, PushParked, LoseRobots
  <2>3. ASSUME NEW h \in Hosts, FetchingRobots(w, h)
        PROVE  FetchingRobots(w, h)' \/ h \in robotsLost'
    <3>1. IsRobots(cur[w]) /\ cur[w].host = h
      BY <2>3 DEF FetchingRobots, RobotsUrl, UrlOn, IsRobots
    <3>2. CASE FetchFails(w) \/ FetchAbandoned(w)
      <4>1. LoseRobots(w, EmptyUrl)
        BY <3>2 DEF FetchFails, FetchAbandoned
      <4>2. cur[w] # EmptyUrl
        BY <3>1, NamesAssumption DEF EmptyUrl, UrlOn
      <4>. QED
        BY <3>1, <4>1, <4>2 DEF LoseRobots
    <3>3. CASE FetchRedirected(w)
      <4>1. PICK u \in Web : cur' = [cur EXCEPT ![w] = u] /\ LoseRobots(w, u)
        BY <3>3 DEF FetchRedirected
      <4>2. CASE u = cur[w]
        BY <1>1, <2>3, <3>3, <4>1, <4>2 DEF FetchRedirected, FetchingRobots, TypeOK
      <4>3. CASE u # cur[w]
        BY <3>1, <4>1, <4>3 DEF LoseRobots
      <4>. QED
        BY <4>2, <4>3
    <3>4. CASE FetchAnswered(w) \/ WriteRobots(w)
      BY <1>1, <2>3, <3>1, <3>4 DEF FetchAnswered, WriteRobots, Goto, FetchingRobots, TypeOK
    <3>5. CASE PushLinks(w) \/ StorePage(w) \/ PushParked(w)
      BY <2>3, <3>5 DEF PushLinks, StorePage, PushParked, FetchingRobots
    <3>. QED
      BY <1>4, <3>2, <3>3, <3>4, <3>5 DEF SubmitURLSync
  <2>. QED
    BY <1>1, <2>1, <2>2, <2>3 DEF ParkedUrlsAreFetchedFor, FetchingRobots
<1>5. ASSUME NEW w \in Workers, TakeParked(w)
      PROVE  ParkedUrlsAreFetchedFor'
  <2>1. PICK h \in Hosts : h = cur[w].host
    BY <1>1, <1>5 DEF ParkInv, TypeInv, HostIsReal, TakeParked
  <2>2. /\ waitingForRobots'[h] = {}
        /\ \A g \in Hosts \ {h} : waitingForRobots'[g] = waitingForRobots[g]
        /\ UNCHANGED <<cur, robotsLost>>
        /\ \A v \in Workers \ {w} : pc'[v] = pc[v]
    BY <1>1, <1>5, <2>1 DEF TakeParked, Goto, TypeOK
  <2>3. \A g \in Hosts \ {h} : ~FetchingRobots(w, g)
    BY <2>1 DEF FetchingRobots, RobotsUrl, UrlOn
  <2>. QED
    BY <1>1, <2>1, <2>2, <2>3 DEF ParkedUrlsAreFetchedFor, FetchingRobots
<1>6. CASE \/ Stop \/ PushEmptyUrls \/ Tick \/ UNCHANGED vars
           \/ \E w \in Workers : Wakeup(w)
  <2>1. UNCHANGED <<waitingForRobots, robotsLost, pc, cur>>
    BY <1>6 DEF Stop, PushEmptyUrls, Tick, Wakeup, vars
  <2>. QED
    BY <1>1, <2>1 DEF ParkedUrlsAreFetchedFor, FetchingRobots
<1>. QED
  BY <1>2, <1>3, <1>4, <1>5, <1>6 DEF Next

\* For any number of workers: a host with parked URLs has a worker fetching its robots
\* rules, unless a fetch of them has been lost.
THEOREM ParkedAlwaysFetchedFor == Spec => []ParkedUrlsAreFetchedFor
<1>1. Spec => []ParkInv
  BY ParkInit, ParkStep, PTL DEF Spec
<1>2. ParkInv => ParkedUrlsAreFetchedFor
  BY DEF ParkInv
<1>. QED
  BY <1>1, <1>2, PTL
----------------------------------------------------------------------------
(***************************************************************************)
(* Parked URLs are copies.  A worker puts its URL back on the frontier     *)
(* before it parks it, so from then on the URL is on the frontier, or with *)
(* a worker that has popped it, until it is submitted or found stored.     *)
(* Only a URL with a bad extension would be dropped on the way, and that   *)
(* is seen before it is put back.  The copies that are taken from the      *)
(* waiting sets and pushed are not needed for the argument.                *)
(***************************************************************************)
InHand(w) == pc[w] \in {"filter", "haveRobots", "requeue", "timer", "putBack"}

\* uri has a copy that will be fetched, or was.
Safe(uri) ==
  \/ \E i \in DOMAIN readyQueue : GoodExtension(readyQueue[i]) /\ Uri(readyQueue[i]) = uri
  \/ \E w \in Workers : InHand(w) /\ GoodExtension(cur[w]) /\ Uri(cur[w]) = uri
  \/ uri \in stored
  \/ \E u \in submitted : Uri(u) = uri

CopyInv ==
  /\ TypeInv
  /\ \A w \in Workers : pc[w] \in {"haveRobots", "requeue"} => GoodExtension(cur[w])
  /\ \A w \in Workers : pc[w] = "park" => Safe(Uri(cur[w]))
  /\ \A h \in Hosts : \A uri \in waitingForRobots[h] : Safe(uri)

\* What is on the frontier stays there when more is pushed.
QueueGrows ==
  \A i \in DOMAIN readyQueue : i \in DOMAIN readyQueue' /\ readyQueue'[i] = readyQueue[i]

LEMMA PushGrows ==
  ASSUME readyQueue \in Seq(AnyUrl), NEW s \in Seq(AnyUrl), Frontier!PushAll(s)
  PROVE  QueueGrows
BY DEF Frontier!PushAll, QueueGrows

LEMMA PushOneGrows ==
  ASSUME readyQueue \in Seq(AnyUrl), NEW u \in AnyUrl, Frontier!Push(u)
  PROVE  /\ QueueGrows
         /\ \E i \in DOMAIN readyQueue' : readyQueue'[i] = u
<1>1. <<u>> \in Seq(AnyUrl)
  OBVIOUS
<1>2. QueueGrows
  BY <1>1, PushGrows DEF Frontier!Push
<1>3. /\ Len(readyQueue) + 1 \in DOMAIN readyQueue'
      /\ readyQueue'[Len(readyQueue) + 1] = u
  BY DEF Frontier!Push, Frontier!PushAll
<1>. QED
  BY <1>2, <1>3

LEMMA PushSetGrows ==
  ASSUME readyQueue \in Seq(AnyUrl), NEW S \in SUBSET AnyUrl, IsFiniteSet(S), PushSet(S)
  PROVE  QueueGrows
BY PushGrows, OrdersAreSequences DEF PushSet

\* A copy stays a copy when the queue only grows and no URL leaves a worker's hands.
LEMMA CopiesStay ==
  ASSUME QueueGrows, stored \subseteq stored', submitted \subseteq submitted',
         \A w \in Workers : InHand(w) => InHand(w)' /\ cur'[w] = cur[w],
         NEW uri, Safe(uri)
  PROVE  Safe(uri)'
BY DEF QueueGrows, Safe

\* The same, when worker v lets go of a URL of which there is another copy.
LEMMA CopiesMove ==
  ASSUME QueueGrows, stored \subseteq stored', submitted \subseteq submitted',
         NEW v \in Workers, NEW uri, Safe(uri),
         InHand(v) /\ GoodExtension(cur[v]) /\ Uri(cur[v]) = uri => Safe(uri)',
         \A w \in Workers \ {v} : InHand(w) => InHand(w)' /\ cur'[w] = cur[w]
  PROVE  Safe(uri)'
<1>1. CASE InHand(v) /\ GoodExtension(cur[v]) /\ Uri(cur[v]) = uri
  BY <1>1
<1>2. CASE \E i \in DOMAIN readyQueue : GoodExtension(readyQueue[i]) /\ Uri(readyQueue[i]) = uri
  BY <1>2 DEF QueueGrows, Safe
<1>3. CASE \E w \in Workers \ {v} : InHand(w) /\ GoodExtension(cur[w]) /\ Uri(cur[w]) = uri
  BY <1>3 DEF Safe
<1>4. CASE uri \in stored \/ \E u \in submitted : Uri(u) = uri
  BY <1>4 DEF Safe
<1>. QED
  BY <1>1, <1>2, <1>3, <1>4 DEF Safe

LEMMA CopyInit == Init => CopyInv
BY TypeInit DEF Init, CopyInv

\* How one step may change what CopyInv is about: the URLs that have copies keep them, and
\* what is newly parked, or about to be, has one.
LEMMA CopyPreserved ==
  ASSUME CopyInv, TypeInv', NEW w \in Workers,
         \A v \in Workers \ {w} : pc'[v] = pc[v] /\ cur'[v] = cur[v],
         \A uri : Safe(uri) => Safe(uri)',
         pc'[w] \in {"haveRobots", "requeue"} => GoodExtension(cur'[w]),
         pc'[w] = "park" => Safe(Uri(cur[w]))',
         \A h \in Hosts : \A uri \in waitingForRobots'[h] \ waitingForRobots[h] : Safe(uri)
  PROVE  CopyInv'
<1>1. \A v \in Workers : pc'[v] \in {"haveRobots", "requeue"} => GoodExtension(cur'[v])
  BY DEF CopyInv
<1>2. \A v \in Workers : pc'[v] = "park" => Safe(Uri(cur[v]))'
  <2>1. ASSUME NEW v \in Workers \ {w}, pc'[v] = "park", NEW uri, uri = Uri(cur[v])
        PROVE  Safe(uri)' /\ uri = Uri(cur[v])'
    BY <2>1 DEF CopyInv, Uri
  <2>. QED
    BY <2>1
<1>. QED
  BY <1>1, <1>2 DEF CopyInv

\* Every step of Crawler::stub leaves a copy of what is parked.
LEMMA CopyStub ==
  ASSUME CopyInv, TypeInv', NEW w \in Workers, Stub(w)
  PROVE  CopyInv'
<1>. USE DEF frontierVars, localVars, robotsVars, storeVars, controlVars, stopVars
<1>1. /\ readyQueue \in Seq(AnyUrl) /\ DOMAIN pc = Workers /\ DOMAIN cur = Workers
      /\ DOMAIN waitingForRobots = Hosts /\ cur[w] \in AnyUrl
  BY DEF CopyInv, TypeInv, TypeOK
<1>2. CASE Loop(w)
  <2>1. \A uri : Safe(uri) => Safe(uri)'
    BY <1>1, <1>2, CopiesStay DEF Loop, Goto, InHand, QueueGrows
  <2>. QED
    BY <1>1, <1>2, <2>1, CopyPreserved DEF Loop, Goto
<1>3. CASE PopUrl(w)
  <2>1. CASE /\ Frontier!Pop(w) /\ cur' = [cur EXCEPT ![w] = Head(readyQueue)]
             /\ Goto(w, "filter")
    <3>1. ASSUME NEW uri, Safe(uri)
          PROVE  Safe(uri)'
      <4>1. CASE \E i \in DOMAIN readyQueue :
                   GoodExtension(readyQueue[i]) /\ Uri(readyQueue[i]) = uri
        <5>1. PICK i \in DOMAIN readyQueue :
                GoodExtension(readyQueue[i]) /\ Uri(readyQueue[i]) = uri
          BY <4>1
        <5>2. CASE i = 1
          <6>1. pc'[w] = "filter" /\ cur'[w] = readyQueue[i]
            BY <1>1, <2>1, <5>2 DEF Goto
          <6>. QED
            BY <5>1, <6>1 DEF Safe, InHand
        <5>3. CASE i # 1
          <6>1. i - 1 \in DOMAIN readyQueue' /\ readyQueue'[i - 1] = readyQueue[i]
            BY <1>1, <2>1, <5>3 DEF Frontier!Pop
          <6>. QED
            BY <5>1, <6>1 DEF Safe
        <5>. QED
          BY <5>2, <5>3
      <4>2. ASSUME NEW v \in Workers, InHand(v), GoodExtension(cur[v]), Uri(cur[v]) = uri
            PROVE  Safe(uri)'
        <5>1. v # w
          BY <1>3, <4>2 DEF PopUrl, InHand
        <5>2. pc'[v] = pc[v] /\ cur'[v] = cur[v]
          BY <1>1, <2>1, <5>1 DEF Goto
        <5>. QED
          BY <4>2, <5>2 DEF Safe, InHand
      <4>. QED
        BY <1>3, <3>1, <4>1, <4>2 DEF Safe, PopUrl
    <3>. QED
      BY <1>1, <1>3, <2>1, <3>1, CopyPreserved DEF PopUrl, Goto
  <2>2. CASE Frontier!Block(w) /\ UNCHANGED <<pc, cur>>
    <3>1. \A uri : Safe(uri) => Safe(uri)'
      BY <1>1, <1>3, <2>2, CopiesStay DEF PopUrl, Frontier!Block, InHand, QueueGrows
    <3>. QED
      BY <1>1, <1>3, <2>2, <3>1, CopyPreserved DEF PopUrl
  <2>. QED
    BY <1>3, <2>1, <2>2 DEF PopUrl
<1>4. CASE Filter(w)
  <2>1. /\ QueueGrows /\ stored' = stored /\ submitted' = submitted
        /\ waitingForRobots' = waitingForRobots
        /\ \A v \in Workers \ {w} : pc'[v] = pc[v] /\ cur'[v] = cur[v]
    BY <1>1, <1>4 DEF Filter, Goto, NextIteration, QueueGrows
  <2>2. CASE HavePage(cur[w]) \/ ~GoodExtension(cur[w])
    <3>1. ASSUME NEW uri, Safe(uri) PROVE Safe(uri)'
      <4>1. InHand(w) /\ GoodExtension(cur[w]) /\ Uri(cur[w]) = uri => Safe(uri)'
        BY <2>1, <2>2 DEF HavePage, Safe
      <4>. QED
        BY <2>1, <3>1, <4>1, CopiesMove DEF InHand
    <3>2. pc'[w] = "loop"
      BY <1>1, <1>4, <2>2 DEF Filter, NextIteration, Goto
    <3>. QED
      BY <2>1, <3>1, <3>2, CopyPreserved
  <2>3. CASE ~HavePage(cur[w]) /\ GoodExtension(cur[w])
    <3>1. pc[w] = "filter" /\ pc'[w] = "haveRobots" /\ cur' = cur
      BY <1>1, <1>4, <2>3 DEF Filter, Goto
    <3>2. \A uri : Safe(uri) => Safe(uri)'
      BY <2>1, <3>1, CopiesStay DEF InHand
    <3>. QED
      BY <2>1, <2>3, <3>1, <3>2, CopyPreserved
  <2>. QED
    BY <2>2, <2>3
<1>5. CASE CheckRobots(w)
  <2>1. /\ QueueGrows /\ stored' = stored /\ submitted' = submitted /\ cur' = cur
        /\ waitingForRobots' = waitingForRobots
        /\ \A v \in Workers \ {w} : pc'[v] = pc[v]
        /\ pc[w] = "haveRobots" /\ pc'[w] \in {"timer", "requeue"}
    BY <1>1, <1>5 DEF CheckRobots, Goto, QueueGrows
  <2>2. \A uri : Safe(uri) => Safe(uri)'
    BY <2>1, CopiesStay DEF InHand
  <2>3. GoodExtension(cur[w])
    BY <2>1 DEF CopyInv
  <2>. QED
    BY <2>1, <2>2, <2>3, CopyPreserved
<1>6. CASE Requeue(w)
  <2>1. /\ stored' = stored /\ submitted' = submitted /\ cur' = cur
        /\ waitingForRobots' = waitingForRobots
        /\ \A v \in Workers \ {w} : pc'[v] = pc[v]
        /\ pc[w] = "requeue" /\ pc'[w] = "park"
    BY <1>1, <1>6 DEF Requeue, Goto
  <2>2. QueueGrows /\ \E i \in DOMAIN readyQueue' : readyQueue'[i] = cur[w]
    BY <1>1, <1>6, PushOneGrows DEF Requeue
  <2>3. GoodExtension(cur[w])
    BY <2>1 DEF CopyInv
  <2>4. Safe(Uri(cur[w]))'
    BY <2>1, <2>2, <2>3 DEF Safe, GoodExtension, Uri
  <2>5. ASSUME NEW uri, Safe(uri) PROVE Safe(uri)'
    <3>1. Uri(cur[w]) = uri => Safe(uri)'
      BY <2>1, <2>2, <2>3 DEF Safe, GoodExtension, Uri
    <3>. QED
      BY <2>1, <2>2, <2>5, <3>1, CopiesMove DEF InHand
  <2>. QED
    BY <2>1, <2>4, <2>5, CopyPreserved
<1>7. CASE Park(w)
  <2>1. /\ QueueGrows /\ stored' = stored /\ submitted' = submitted /\ pc[w] = "park"
        /\ pc'[w] \in {"request", "loop"}
        /\ \A v \in Workers \ {w} : pc'[v] = pc[v] /\ cur'[v] = cur[v]
    BY <1>1, <1>7 DEF Park, Goto, NextIteration, QueueGrows
  <2>2. \A uri : Safe(uri) => Safe(uri)'
    BY <2>1, CopiesStay DEF InHand
  <2>3. Safe(Uri(cur[w]))
    BY <2>1 DEF CopyInv
  <2>4. \A h \in Hosts : \A uri \in waitingForRobots'[h] \ waitingForRobots[h] : Safe(uri)
    <3>1. \A h \in Hosts : waitingForRobots'[h] \subseteq waitingForRobots[h] \cup {Uri(cur[w])}
      BY <1>1, <1>7 DEF Park
    <3>. QED
      BY <2>3, <3>1
  <2>. QED
    BY <2>1, <2>2, <2>4, CopyPreserved
<1>8. CASE CheckTimer(w)
  <2>1. /\ QueueGrows /\ stored' = stored /\ submitted \subseteq submitted' /\ cur' = cur
        /\ waitingForRobots' = waitingForRobots
        /\ \A v \in Workers \ {w} : pc'[v] = pc[v]
        /\ pc[w] = "timer"
        /\ \/ pc'[w] = "request" /\ cur[w] \in submitted'
           \/ pc'[w] = "putBack"
    BY <1>1, <1>8 DEF CheckTimer, Goto, QueueGrows
  <2>2. ASSUME NEW uri, Safe(uri) PROVE Safe(uri)'
    <3>1. CASE pc'[w] = "putBack"
      BY <2>1, <2>2, <3>1, CopiesStay DEF InHand
    <3>2. CASE cur[w] \in submitted'
      <4>1. Uri(cur[w]) = uri => Safe(uri)'
        BY <3>2 DEF Safe, Uri
      <4>. QED
        BY <2>1, <2>2, <4>1, CopiesMove DEF InHand
    <3>. QED
      BY <2>1, <3>1, <3>2
  <2>. QED
    BY <2>1, <2>2, CopyPreserved
<1>9. CASE PutBack(w)
  <2>1. /\ stored' = stored /\ submitted' = submitted
        /\ waitingForRobots' = waitingForRobots
        /\ \A v \in Workers \ {w} : pc'[v] = pc[v] /\ cur'[v] = cur[v]
        /\ pc[w] = "putBack" /\ pc'[w] = "loop"
    BY <1>1, <1>9 DEF PutBack, NextIteration, Goto
  <2>2. QueueGrows /\ \E i \in DOMAIN readyQueue' : readyQueue'[i] = cur[w]
    BY <1>1, <1>9, PushOneGrows DEF PutBack
  <2>3. ASSUME NEW uri, Safe(uri) PROVE Safe(uri)'
    <3>1. GoodExtension(cur[w]) /\ Uri(cur[w]) = uri => Safe(uri)'
      BY <2>2 DEF Safe, GoodExtension, Uri
    <3>. QED
      BY <2>1, <2>2, <2>3, <3>1, CopiesMove DEF InHand
  <2>. QED
    BY <2>1, <2>3, CopyPreserved
<1>. QED
  BY <1>2, <1>3, <1>4, <1>5, <1>6, <1>7, <1>8, <1>9 DEF Stub

\* A fetch has no URL of the frontier in hand, adds to the frontier, and releases at most
\* what is parked.
LEMMA CopyFetch ==
  ASSUME CopyInv, TypeInv', NEW w \in Workers, SubmitURLSync(w)
  PROVE  CopyInv'
<1>. USE DEF frontierVars, localVars, robotsVars, storeVars, controlVars, stopVars
<1>1. /\ readyQueue \in Seq(AnyUrl) /\ DOMAIN pc = Workers /\ DOMAIN cur = Workers
      /\ DOMAIN waitingForRobots = Hosts /\ readyToCrawl \in [Workers -> SUBSET AnyUrl]
      /\ IsFiniteSet(readyToCrawl[w])
  BY DEF CopyInv, TypeInv, TypeOK, ParkedIsFinite
<1>2. /\ pc[w] \in {"request", "pageBody", "store", "robotsBody", "takeParked", "pushParked"}
      /\ pc'[w] \in {"loop", "request", "pageBody", "robotsBody", "store", "takeParked",
                     "pushParked"}
      /\ \A v \in Workers \ {w} : pc'[v] = pc[v] /\ cur'[v] = cur[v]
      /\ stored \subseteq stored' /\ submitted' = submitted
  BY <1>1 DEF SubmitURLSync, FetchFails, FetchAbandoned, FetchRedirected, FetchAnswered, PushLinks,
     StorePage, WriteRobots, TakeParked, PushParked, Goto, NextIteration
<1>3. \A h \in Hosts : waitingForRobots'[h] \subseteq waitingForRobots[h]
  BY <1>1 DEF SubmitURLSync, FetchFails, FetchAbandoned, FetchRedirected, FetchAnswered, PushLinks,
     StorePage, WriteRobots, TakeParked, PushParked
<1>4. QueueGrows
  <2>1. CASE PushLinks(w)
    <3>1. PICK links \in SUBSET Web : PushSet(links)
      BY <2>1 DEF PushLinks
    <3>2. IsFiniteSet(links) /\ links \in SUBSET AnyUrl
      BY WebAssumption, FS_Subset
    <3>. QED
      BY <1>1, <3>1, <3>2, PushSetGrows
  <2>2. CASE PushParked(w)
    BY <1>1, <2>2, PushSetGrows DEF PushParked
  <2>3. CASE ~PushLinks(w) /\ ~PushParked(w)
    BY <2>3 DEF SubmitURLSync, FetchFails, FetchAbandoned, FetchRedirected, FetchAnswered,
       StorePage, WriteRobots, TakeParked, QueueGrows
  <2>. QED
    BY <2>1, <2>2, <2>3
<1>5. \A uri : Safe(uri) => Safe(uri)'
  BY <1>2, <1>4, CopiesStay DEF InHand
<1>. QED
  BY <1>2, <1>3, <1>5, CopyPreserved

LEMMA CopyStep == CopyInv /\ [Next]_vars => CopyInv'
<1>. SUFFICES ASSUME CopyInv, [Next]_vars PROVE CopyInv'
  OBVIOUS
<1>. USE DEF frontierVars, workerVars, localVars, robotsVars, storeVars, controlVars, stopVars
<1>1. TypeInv' /\ readyQueue \in Seq(AnyUrl)
  BY TypeStep DEF CopyInv, TypeInv, TypeOK
<1>2. CASE \/ Stop \/ PushEmptyUrls \/ Tick \/ UNCHANGED vars
           \/ \E w \in Workers : Wakeup(w)
  <2>1. UNCHANGED <<waitingForRobots, pc, cur, stored, submitted>>
    BY <1>2 DEF Stop, PushEmptyUrls, Tick, Wakeup, vars
  <2>2. QueueGrows
    <3>1. CASE PushEmptyUrls
      <4>1. Cardinality(Workers) \in Nat
        BY WorkersAssumption, FS_CardinalityType
      <4>. DEFINE s == [i \in 1..Cardinality(Workers) |-> EmptyUrl]
      <4>2. s \in [1..Cardinality(Workers) -> AnyUrl]
        BY EmptyUrlType
      <4>3. Frontier!PushAll(s)
        BY <3>1 DEF PushEmptyUrls
      <4>. HIDE DEF s
      <4>. QED
        BY <1>1, <4>1, <4>2, <4>3, TupleIsSequence, PushGrows
    <3>2. CASE ~PushEmptyUrls
      BY <1>2, <3>2 DEF Stop, Tick, Wakeup, vars, Frontier!SpuriousWakeup, QueueGrows
    <3>. QED
      BY <3>1, <3>2
  <2>3. \A uri : Safe(uri) => Safe(uri)'
    BY <2>1, <2>2, CopiesStay DEF InHand
  <2>4. PICK w : w \in Workers
    BY WorkersAssumption
  <2>5. /\ pc'[w] \in {"haveRobots", "requeue"} => GoodExtension(cur'[w])
        /\ pc'[w] = "park" => Safe(Uri(cur[w]))'
    <3>1. \A uri : uri = Uri(cur[w]) => uri = Uri(cur[w])'
      BY <2>1 DEF Uri
    <3>2. pc'[w] = "park" => Safe(Uri(cur[w]))
      BY <2>1, <2>4 DEF CopyInv
    <3>. QED
      BY <2>1, <2>3, <2>4, <3>1, <3>2 DEF CopyInv
  <2>. QED
    BY <1>1, <2>1, <2>3, <2>4, <2>5, CopyPreserved
<1>. QED
  BY <1>1, <1>2, CopyStub, CopyFetch DEF Next

\* For any number of workers and any web: a URL is parked only on top of a copy that is on
\* the frontier or with a worker, or that was submitted or stored since.
THEOREM ParkedAlwaysCopies == Spec => []ParkedUrlsAreCopies
<1>1. Spec => []CopyInv
  BY CopyInit, CopyStep, PTL DEF Spec
<1>2. CopyInv => ParkedUrlsAreCopies
  BY DEF CopyInv, Safe, InHand, ParkedUrlsAreCopies
<1>. QED
  BY <1>1, <1>2, PTL
=============================================================================
