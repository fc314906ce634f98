------------------------------ MODULE Politeness ------------------------------
(***************************************************************************)
(* What a spider may fetch: allowed_domains (utils/domain.py) and          *)
(* robots.txt (utils/robot.py), enforced by RobotSpiderInterceptor on      *)
(* every request a spider yields.  The robots.txt files of the entries of  *)
(* allowed_domains are loaded concurrently while the crawler initialises;  *)
(* the engines start when all of them are in the cache, which has one      *)
(* entry per host name.  No file is asked for a subdomain of an entry, and *)
(* none at all when allowed_domains is empty, as it is by default.         *)
(*                                                                         *)
(* A file is a sequence of lines [key, value]; a path is a sequence of     *)
(* segments, and a rule matches the paths it is a prefix of; a host name   *)
(* is the sequence of its labels.                                          *)
(***************************************************************************)
EXTENDS Naturals, Sequences, FiniteSets, SequencesExt

CONSTANTS Sites,          \* what allowed_domains may list: host and port
          HostOf,         \* their host names
          Elsewhere,      \* the host name of no site
          RobotPaths,     \* paths of rules and requests
          Texts,          \* Texts[s]: robots.txt files a site may serve
          AgentsInUa      \* agent names that occur in USER_AGENT

ASSUME PolitenessAssumption ==
    /\ IsFiniteSet(Sites) /\ HostOf \in [Sites -> Seq(STRING)]
    /\ RobotPaths \subseteq Seq(STRING)
    /\ \A s \in Sites : Texts[s] \subseteq Seq([key : {"user-agent"}, value : STRING] \cup
                              [key : {"allow", "disallow"}, value : RobotPaths])
    /\ Elsewhere \notin {HostOf[s] : s \in Sites}

VARIABLES
    allowed,   \* allowed_domains of the spider
    text,      \* text[s]: the file the site serves
    fetch,     \* fetch[s]: "loading", then how the fetch ended; or "unasked"
    cache,     \* RobotsManager._rules_cache, by host name
    crawling,  \* the engines run
    answer     \* what the interceptor made of a request

politenessVars == <<allowed, text, fetch, cache, crawling, answer>>

Hosts == {HostOf[s] : s \in Sites}

NoRules == [known |-> FALSE, rules |-> {}]

-----------------------------------------------------------------------------
(* parse_robots_txt.  A user-agent line that names a new agent opens its   *)
(* block; a rule goes to the block of the last such line above it.         *)
IsAgent(line) == line.key = "user-agent"

OpensBlock(file, b) ==
    /\ IsAgent(file[b])
    /\ \A k \in 1 .. b - 1 : ~(IsAgent(file[k]) /\ file[k].value = file[b].value)

InBlock(file, b, i) ==
    /\ ~IsAgent(file[i])
    /\ \E j \in 1 .. i - 1 :
          /\ IsAgent(file[j]) /\ file[j].value = file[b].value
          /\ \A k \in j + 1 .. i - 1 : ~IsAgent(file[k])

(* The agents named in the user agent, else "*".                           *)
Named(file) == {file[i].value : i \in {j \in DOMAIN file : IsAgent(file[j])}}
                  \cap AgentsInUa

Heeded(file) == IF Named(file) = {} THEN {"*"} ELSE Named(file)

(* The rules of their blocks, with the place of each: those of one block   *)
(* after those of another, in the order of the file.                       *)
ParseRobots(file) ==
    {[rule |-> file[x[2]], block |-> x[1], line |-> x[2]] : x \in
        {y \in (DOMAIN file) \X (DOMAIN file) :
            /\ OpensBlock(file, y[1]) /\ InBlock(file, y[1], y[2])
            /\ file[y[1]].value \in Heeded(file)}}

Earlier(x, y) == x.block < y.block \/ (x.block = y.block /\ x.line < y.line)

Hits(rules, path) == {x \in rules : IsPrefix(x.rule.value, path)}

(* Defect: the first matching rule decides.                                *)
RulesAllowFirst(rules, path) ==
    \A x \in Hits(rules, path) :
        (\A y \in Hits(rules, path) : ~Earlier(y, x)) => x.rule.key # "disallow"

(* RobotsTxtRules.is_allowed: the longest matching rule, the first of      *)
(* equally long ones.                                                      *)
RulesAllow(rules, path) ==
    \A x \in Hits(rules, path) :
        (\A y \in Hits(rules, path) :
            \/ Len(y.rule.value) < Len(x.rule.value)
            \/ Len(y.rule.value) = Len(x.rule.value) /\ ~Earlier(y, x))
          => x.rule.key # "disallow"

(* RobotsManager.is_allowed: a host without an entry is open.              *)
RobotAllows(host, path) ==
    (host \in Hosts /\ cache[host].known) => RulesAllow(cache[host].rules, path)

(* url_is_from_allowed_domains: the host, or a subdomain of an entry; any  *)
(* host when nothing is listed.                                            *)
FromAllowed(host) == allowed = {} \/ \E s \in allowed : IsSuffix(HostOf[s], host)

-----------------------------------------------------------------------------
NoAnswer == [host |-> <<>>, site |-> "", path |-> <<>>, start |-> FALSE,
             verdict |-> "none"]

PolitenessInit ==
    /\ allowed \in SUBSET Sites
    /\ text \in {t \in [Sites -> UNION {Texts[s] : s \in Sites}] :
                    \A s \in Sites : t[s] \in Texts[s]}
    /\ fetch = [s \in Sites |-> IF s \in allowed THEN "loading" ELSE "unasked"]
    /\ cache = [h \in Hosts |-> NoRules]
    /\ crawling = FALSE
    /\ answer = NoAnswer

Load(s, how, rules) ==
    /\ fetch[s] = "loading"
    /\ fetch' = [fetch EXCEPT ![s] = how]
    /\ cache' = [cache EXCEPT ![HostOf[s]] = [known |-> TRUE, rules |-> rules]]
    /\ UNCHANGED <<allowed, text, crawling, answer>>

(* _load_single: the file is served; there is none, or another status; the *)
(* request raises and everything is disallowed.                            *)
LoadFile(s) == Load(s, "read", ParseRobots(text[s]))

LoadNothing(s) == Load(s, "absent", {})

LoadRaises(s) ==
    Load(s, "failed", {[rule |-> [key |-> "disallow", value |-> <<>>],
                        block |-> 1, line |-> 1]})

(* start_engines awaits the robot task first.                              *)
StartEngines ==
    /\ ~crawling /\ \A s \in Sites : fetch[s] # "loading"
    /\ crawling' = TRUE
    /\ UNCHANGED <<allowed, text, fetch, cache, answer>>

(* process_spider_output: start URLs pass, then the domains are checked,   *)
(* then robots.txt.                                                        *)
Verdict(host, path, start) ==
    IF start THEN "passed"
    ELSE IF ~FromAllowed(host) THEN "filtered"
    ELSE IF ~RobotAllows(host, path) THEN "blocked"
    ELSE "passed"

YieldRequest(s, path, start) ==
    /\ crawling /\ answer = NoAnswer
    /\ answer' = [host |-> HostOf[s], site |-> s, path |-> path,
                  start |-> start, verdict |-> Verdict(HostOf[s], path, start)]
    /\ UNCHANGED <<allowed, text, fetch, cache, crawling>>

YieldElsewhere(path) ==
    /\ crawling /\ answer = NoAnswer
    /\ answer' = [host |-> Elsewhere, site |-> "", path |-> path,
                  start |-> FALSE, verdict |-> Verdict(Elsewhere, path, FALSE)]
    /\ UNCHANGED <<allowed, text, fetch, cache, crawling>>

PolitenessNext ==
    \/ StartEngines
    \/ \E s \in Sites : LoadFile(s) \/ LoadNothing(s) \/ LoadRaises(s)
    \/ \E p \in RobotPaths :
          \/ YieldElsewhere(p)
          \/ \E s \in Sites, b \in BOOLEAN : YieldRequest(s, p, b)

PolitenessSpec == PolitenessInit /\ [][PolitenessNext]_politenessVars

-----------------------------------------------------------------------------
(* The reference: the standard reading of a robots.txt file.  A rule       *)
(* belongs to the agents named in the run of user-agent lines above it;    *)
(* among the rules of the agent (of "*" if no line names the agent) the    *)
(* most specific one decides, allow before disallow.                       *)
Governs(file, i, agent) ==
    \E j \in 1 .. i - 1 :
       /\ IsAgent(file[j]) /\ file[j].value = agent
       /\ \E k \in j .. i - 1 :
             /\ \A l \in j .. k : IsAgent(file[l])
             /\ \A l \in k + 1 .. i - 1 : ~IsAgent(file[l])

Permitted(file, path) ==
    LET hits == {i \in DOMAIN file :
                   /\ ~IsAgent(file[i]) /\ IsPrefix(file[i].value, path)
                   /\ \E a \in Heeded(file) : Governs(file, i, a)}
        best == {i \in hits : \A j \in hits :
                   Len(file[j].value) <= Len(file[i].value)}
    IN best = {} \/ \E i \in best : file[i].key = "allow"

(* A request the interceptor lets through, not a start URL, goes to an     *)
(* entry of allowed_domains whose robots.txt permits it, or which gave no  *)
(* file: one that could not be asked is not crawled.  A host that is no    *)
(* entry itself is crawled without its file being asked for, but only      *)
(* below an entry or when nothing is listed (is_allowed, robot.py).        *)
RobotsObeyed ==
    answer.verdict = "passed" /\ ~answer.start =>
        \/ /\ answer.site \in allowed
           /\ fetch[answer.site] \in {"read", "absent"}
           /\ fetch[answer.site] = "read" => Permitted(text[answer.site], answer.path)
        \/ /\ \A s \in allowed : HostOf[s] # answer.host
           /\ allowed # {} => \E s \in allowed : IsStrictSuffix(HostOf[s], answer.host)
=============================================================================
