----------------------------- MODULE MCCrawler -----------------------------
(***************************************************************************)
(* Small instances of Crawler: two hosts, one of them the "www." name of   *)
(* the other, and a few URLs.                                              *)
(***************************************************************************)
EXTENDS Crawler, TLC

CONSTANTS w1, w2, h1, h2, page, queryA, queryB

MCHosts == {h1, h2}
MCPaths == {page, queryA, queryB}

\* queryB is what uri() makes of any query.
MCUriPath == [p \in MCPaths \cup {RobotsPath, NoPath} |-> IF p = queryA THEN queryB ELSE p]
MCWwwOf == (h1 :> h2) @@ (h2 :> NoHost)

\* Safety: one seed, whose uri() differs from it, a second page of its host, and the
\* robots file of the www host, to which the first host may redirect.
MCWeb == {UrlOn(h1, page), UrlOn(h1, queryA), RobotsUrl(h2)}
MCSeeds == <<UrlOn(h1, queryA)>>

\* Liveness and the rest: one seed, and two pages that compete for one host's timer or
\* the seed alone.
LiveWeb == {UrlOn(h1, page), UrlOn(h1, queryA)}
StopWeb == {UrlOn(h1, page)}
PageSeed == <<UrlOn(h1, page)>>

Symmetry == Permutations(Workers)

\* Everything but killFilter, which no guard and no property reads.
SafetyView ==
  <<frontierVars, workerVars, robotsVars, stored, linksLeft, submitted, controlVars>>
=============================================================================
