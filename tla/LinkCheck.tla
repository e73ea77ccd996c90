------------------------------ MODULE LinkCheck ------------------------------
(***************************************************************************)
(* scripts/check-published-surface.mjs, checkLinks: every external link of *)
(* the README is requested, all of them side by side.  A bad answer fails  *)
(* the gate; an outage is only a note, since the gate also guards a        *)
(* release.  Redirects are followed by hand, each target checked first.    *)
(***************************************************************************)
EXTENDS Integers, Sequences, FiniteSets

CONSTANTS Urls,
          Hosts,       \* url -> what a check may find its host to be
          Sites,       \* what the web may answer: url -> method -> answer
          Readmes,     \* the links of a README: link -> [url, probe]
          MaxRedirects \* 5 in the code

VARIABLES gateExit,  \* "idle", "running", then the exit status
          site, links,
          check,     \* link -> where its check is
          requested, \* history: what was requested
          outages,   \* history: the links some request of which got no answer
          turned     \* history: the links turned away from a host that another
                     \* lookup lets pass

linkVars == <<gateExit, site, links, check, requested, outages, turned>>

RedirectTo(answer) == answer[1] = "redirect"
TryGet == {"403", "405", "429"}
At(url, method, hops) == [url |-> url, method |-> method, hops |-> hops, verdict |-> "none"]
Done(verdict) == [url |-> "", method |-> "", hops |-> 0, verdict |-> verdict]

(* A published link names a host by its public name, over https.  The name  *)
(* is looked up at each check, and what that finds can change: "public", a  *)
(* "private address", or "no answer" within five seconds, which is left to  *)
(* the request.  The request looks the name up once more, unchecked.        *)
unroutableReason(url) ==
    Hosts[url] \cap {"invalid", "not https", "loopback name", "mDNS name", "address", "private address"}
MayRefuse(url) == unroutableReason(url) # {}
Refused == {url \in DOMAIN Hosts : unroutableReason(url) = Hosts[url]}

(* A redirect leads to a page, to what is refused, or to no URL at all.     *)
ASSUME LinksAssumption ==
    /\ MaxRedirects \in Nat /\ "unparsable" \notin Urls
    /\ Urls \subseteq DOMAIN Hosts /\ \A url \in DOMAIN Hosts : Hosts[url] # {}
    /\ \A web \in Sites, url \in Urls, method \in {"HEAD", "GET"} :
           /\ web[url][method] \in STRING \X STRING
           /\ RedirectTo(web[url][method]) =>
                 web[url][method][2] \in Urls \cup Refused \cup {"unparsable"}
    /\ \A readme \in Readmes : \A l \in DOMAIN readme : readme[l].probe \in Urls \cup Refused

LinksIdle ==
    /\ gateExit = "idle" /\ site = << >> /\ links = << >> /\ check = << >>
    /\ requested = {} /\ outages = {} /\ turned = {}

LinksInit ==
    /\ gateExit = "running"
    /\ site \in Sites /\ links \in Readmes
    /\ check = [l \in DOMAIN links |-> At(links[l].url, "none", 0)]
    /\ requested = {} /\ outages = {} /\ turned = {}

Answer(l) == site[check[l].url][check[l].method]
Becomes(l, state) == check' = [check EXCEPT ![l] = state]

(* A check refuses a host that another lookup would have let pass.          *)
TurnAway(l, urls) ==
    /\ \E url \in urls : MayRefuse(url)
    /\ Becomes(l, Done("failed"))
    /\ turned' = turned \cup {l}

(* The link itself, then what is requested in its place (the registry for a *)
(* package page), are looked at before the first request.                   *)
CheckTarget(l) ==
    LET targets == {links[l].url, links[l].probe}
    IN  /\ check[l].verdict = "none" /\ check[l].method = "none"
        /\ IF targets \cap Refused # {} THEN Becomes(l, Done("failed")) /\ UNCHANGED turned
           ELSE \/ TurnAway(l, targets)
                \/ Becomes(l, At(links[l].probe, "HEAD", 0)) /\ UNCHANGED turned
        /\ UNCHANGED <<gateExit, site, links, requested, outages>>

(* Mutant: the bound is one redirect short.                                 *)
FollowShort(l) ==
    LET next == Answer(l)[2]
    IN  IF next = "unparsable" \/ next \in Refused \/ check[l].hops + 1 >= MaxRedirects
        THEN Becomes(l, Done("failed")) /\ UNCHANGED turned
        ELSE \/ TurnAway(l, {next})
             \/ Becomes(l, At(next, check[l].method, check[l].hops + 1)) /\ UNCHANGED turned

(* UnroutableRedirect fails the link, whichever of the three it is.         *)
Follow(l) ==
    LET next == Answer(l)[2]
    IN  IF next = "unparsable" \/ next \in Refused \/ check[l].hops + 1 > MaxRedirects
        THEN Becomes(l, Done("failed")) /\ UNCHANGED turned
        ELSE \/ TurnAway(l, {next})
             \/ Becomes(l, At(next, check[l].method, check[l].hops + 1)) /\ UNCHANGED turned

Judge(l) ==
    Becomes(l, CASE Answer(l)[1] = "ok" -> Done("passed")
                 [] Answer(l)[1] = "404" /\ links[l].probe # links[l].url -> Done("note")
                 [] OTHER -> Done("failed"))

Request(l) ==
    /\ check[l].verdict = "none" /\ check[l].method # "none"
    /\ requested' = requested \cup {check[l].url}
    /\ UNCHANGED <<gateExit, site, links>>

fetchChecked(l) ==
    /\ Request(l)
    /\ UNCHANGED outages
    /\ \/ RedirectTo(Answer(l)) /\ Follow(l)
       \/ /\ Answer(l)[1] \in TryGet /\ check[l].method = "HEAD"
          /\ Becomes(l, At(links[l].probe, "GET", 0))
          /\ UNCHANGED turned
       \/ /\ ~RedirectTo(Answer(l)) /\ ~(Answer(l)[1] \in TryGet /\ check[l].method = "HEAD")
          /\ Judge(l) /\ UNCHANGED turned

(* No answer, or none before the time allowed for the link has passed.      *)
TransportError(l) ==
    /\ Request(l)
    /\ outages' = outages \cup {l}
    /\ Becomes(l, Done("note"))
    /\ UNCHANGED turned

GateEnds ==
    /\ gateExit = "running"
    /\ \A l \in DOMAIN check : check[l].verdict # "none"
    /\ gateExit' = IF \E l \in DOMAIN check : check[l].verdict = "failed" THEN "exit 1" ELSE "exit 0"
    /\ UNCHANGED <<site, links, check, requested, outages, turned>>

LinkNext ==
    \/ \E l \in DOMAIN check : CheckTarget(l) \/ fetchChecked(l) \/ TransportError(l)
    \/ GateEnds

-----------------------------------------------------------------------------
(* Where a link leads on a web that answers: the first answer on its way    *)
(* that is no redirect, if one comes after at most MaxRedirects of them.    *)
IsWay(l, method, n, way) ==
    /\ way \in [0 .. n -> Urls \ Refused]
    /\ way[0] = links[l].probe
    /\ \A k \in 1 .. n : site[way[k - 1]][method] = <<"redirect", way[k]>>

LeadsTo(l, method) ==
    {site[url][method][1] : url \in {u \in Urls \ Refused :
        /\ ~RedirectTo(site[u][method])
        /\ \E n \in 0 .. MaxRedirects : \E way \in [0 .. n -> Urls \ Refused] :
               IsWay(l, method, n, way) /\ way[n] = u}}

Truth(l) ==
    LET answers == IF LeadsTo(l, "HEAD") \cap TryGet # {} THEN LeadsTo(l, "GET") ELSE LeadsTo(l, "HEAD")
    IN  IF links[l].url \in Refused THEN "failed"
        ELSE IF "ok" \in answers THEN "passed"
        ELSE IF "404" \in answers /\ links[l].probe # links[l].url THEN "note" ELSE "failed"

(* Each link gets the verdict its target deserves, or a note when a request *)
(* went unanswered: an outage neither fails a release nor is taken for an   *)
(* answer, of this link or of another.  A link is failed on a lookup that   *)
(* varies only for its own.  The exit status follows, and what every check  *)
(* refuses was never requested; a name whose lookups vary may have been.    *)
Deserved(l) == IF l \in outages THEN "note" ELSE IF l \in turned THEN "failed" ELSE Truth(l)

LinkVerdicts ==
    /\ \A l \in DOMAIN check : check[l].verdict # "none" => check[l].verdict = Deserved(l)
    /\ gateExit = "exit 1" => \E l \in DOMAIN links : Truth(l) = "failed" \/ l \in turned
    /\ gateExit = "exit 0" =>
          \A l \in DOMAIN links : Truth(l) = "failed" \/ l \in turned => l \in outages
    /\ requested \cap Refused = {}
=============================================================================
