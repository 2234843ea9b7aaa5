----------------------------- MODULE AnalyzeSite -----------------------------
(***************************************************************************)
(* POST /v1/analyze: the cache-aside handler                               *)
(* (internal/adapter/httpapi/analyze.go), the use case                     *)
(* (internal/usecase/analyze_site.go), the two scrapers behind             *)
(* FallbackScraper (internal/adapter/scraper), ClassifySite                *)
(* (internal/adapter/llm) and the response cache they share                *)
(* (internal/adapter/cache/redis_response_cache.go).                       *)
(*                                                                         *)
(* A call of a dependency is the one step in which it returns.  Under a    *)
(* context that is done it returns an error.                               *)
(***************************************************************************)
EXTENDS Naturals

CONSTANTS
    Requests,       \* requests that reach the handler
    Urls,           \* what they submit
    Analyzable,     \* those that validateAnalyzeURL accepts
    Ttl,            \* lifetime of a cached answer (ANALYZE_CACHE_TTL)
    FallibleCache,  \* whether a Redis command may return an error
    MaxTime,        \* bound: the last tick of the clock
    None            \* no page, profile, entry or moment

ASSUME AnalyzableAssumption == Analyzable \subseteq Urls
ASSUME TtlAssumption == Ttl \in Nat \ {0}
ASSUME MaxTimeAssumption == MaxTime \in Nat
ASSUME FallibleCacheAssumption == FallibleCache \in BOOLEAN

VARIABLES
    now,            \* the clock
    cache,          \* the entry of each URL
    url,            \* what each request submits
    stage,          \* where its handler is
    gone,           \* whether its client has disconnected
    page,           \* what Scrape returned
    profile,        \* what is, or will be, answered
    status,         \* the answer's status, 0 before there is one
    failed,         \* history: the dependencies that returned it an error
    saved,          \* history: when its profile was cached
    served          \* history: when the cache answered it

history == <<failed, saved, served>>
vars == <<now, cache, url, stage, gone, page, profile, status, history>>

\* A page that passed ScrapedPage.Validate, so with some text: the scraper it
\* came from and whether the text reaches minStaticTextLength.
Pages == [source : {"static", "spa"}, text : {"rich", "thin"}]

\* A profile is told by the request whose analysis made it.
Profiles == Requests \cup {None}

Entries == [profile : Profiles, expires : Nat]

ASSUME NoneAssumption ==
    None \notin Requests /\ None \notin Pages /\ None \notin Entries /\ None \notin Nat

Stages == {"arrived", "lookup", "validate", "static", "browser", "classify",
           "save", "over"}

Dependencies == {"cache", "static", "browser", "provider"}

TypeOK ==
    /\ now \in Nat
    /\ cache \in [Urls -> Entries \cup {None}]
    /\ url \in [Requests -> Urls]
    /\ stage \in [Requests -> Stages]
    /\ gone \in [Requests -> BOOLEAN]
    /\ page \in [Requests -> Pages \cup {None}]
    /\ profile \in [Requests -> Profiles]
    /\ status \in [Requests -> {0, 200, 400, 422, 429, 500, 502}]
    /\ failed \in [Requests -> SUBSET Dependencies]
    /\ saved \in [Requests -> Nat \cup {None}]
    /\ served \in [Requests -> Nat \cup {None}]

Init ==
    /\ now = 0
    /\ cache = [u \in Urls |-> None]
    /\ url \in [Requests -> Urls]
    /\ stage = [r \in Requests |-> "arrived"]
    /\ gone = [r \in Requests |-> FALSE]
    /\ page = [r \in Requests |-> None]
    /\ profile = [r \in Requests |-> None]
    /\ status = [r \in Requests |-> 0]
    /\ failed = [r \in Requests |-> {}]
    /\ saved = [r \in Requests |-> None]
    /\ served = [r \in Requests |-> None]

----------------------------------------------------------------------------
(* What every step of a request is made of.                                *)

Advance(r, to) ==
    /\ stage' = [stage EXCEPT ![r] = to]
    /\ UNCHANGED <<now, url, gone>>

Answer(r, code) ==
    /\ Advance(r, "over")
    /\ status' = [status EXCEPT ![r] = code]

\* The context of a request ends with its client.
Connected(r) == ~gone[r]

\* A dependency has returned an error.
Fails(r, dependency) ==
    /\ failed' = [failed EXCEPT ![r] = @ \cup {dependency}]
    /\ UNCHANGED <<saved, served>>

----------------------------------------------------------------------------
(* The handler, up to the use case.                                        *)

\* checkRateLimit refuses the caller (module RateLimiter tells when).
Limited(r) ==
    /\ stage[r] = "arrived"
    /\ Answer(r, 429)
    /\ UNCHANGED <<cache, page, profile, history>>

\* The body is not an AnalyzeRequest, or is too large.
Malformed(r) ==
    /\ stage[r] = "arrived"
    /\ Answer(r, 400)
    /\ UNCHANGED <<cache, page, profile, history>>

Admit(r) ==
    /\ stage[r] = "arrived"
    /\ Advance(r, "lookup")
    /\ UNCHANGED <<cache, page, profile, status, history>>

\* Redis still holds the entry.
Cached(u) == cache[u] # None /\ now < cache[u].expires

\* The lookup comes before the URL is validated.
Hit(r) ==
    /\ stage[r] = "lookup"
    /\ Connected(r)
    /\ Cached(url[r])
    /\ profile' = [profile EXCEPT ![r] = cache[url[r]].profile]
    /\ served' = [served EXCEPT ![r] = now]
    /\ Answer(r, 200)
    /\ UNCHANGED <<cache, page, failed, saved>>

Miss(r) ==
    /\ stage[r] = "lookup"
    /\ Connected(r)
    /\ ~Cached(url[r])
    /\ Advance(r, "validate")
    /\ UNCHANGED <<cache, page, profile, status, history>>

\* As if only a miss went on to the analysis.
LookupErrorAnswered(r) ==
    /\ stage[r] = "lookup"
    /\ FallibleCache \/ ~Connected(r)
    /\ Fails(r, "cache")
    /\ Answer(r, 500)
    /\ UNCHANGED <<cache, page, profile>>

\* A lookup that fails is a miss to the handler.
LookupErrs(r) ==
    /\ stage[r] = "lookup"
    /\ FallibleCache \/ ~Connected(r)
    /\ Fails(r, "cache")
    /\ Advance(r, "validate")
    /\ UNCHANGED <<cache, page, profile, status>>

----------------------------------------------------------------------------
(* AnalyzeSite.Execute.                                                    *)

Reject(r) ==
    /\ stage[r] = "validate"
    /\ url[r] \notin Analyzable
    /\ Answer(r, 422)
    /\ UNCHANGED <<cache, page, profile, history>>

Accept(r) ==
    /\ stage[r] = "validate"
    /\ url[r] \in Analyzable
    /\ Advance(r, "static")
    /\ UNCHANGED <<cache, page, profile, status, history>>

Scraped(r, source, text) ==
    /\ page' = [page EXCEPT ![r] = [source |-> source, text |-> text]]
    /\ Advance(r, "classify")
    /\ UNCHANGED <<cache, profile, status, history>>

\* As if minStaticTextLength were not compared.
ThinIsEnough(r) ==
    /\ stage[r] = "static"
    /\ Connected(r)
    /\ \E text \in {"rich", "thin"} : Scraped(r, "static", text)

\* The static fetch is enough.
StaticScrape(r) ==
    /\ stage[r] = "static"
    /\ Connected(r)
    /\ Scraped(r, "static", "rich")

\* The static fetch is too thin to classify; its page is dropped.
StaticIsThin(r) ==
    /\ stage[r] = "static"
    /\ Connected(r)
    /\ Advance(r, "browser")
    /\ UNCHANGED <<cache, page, profile, status, history>>

\* No page: the visit failed or timed out, no address of the host was
\* allowed, or no text was left.
StaticErrs(r) ==
    /\ stage[r] = "static"
    /\ Fails(r, "static")
    /\ Advance(r, "browser")
    /\ UNCHANGED <<cache, page, profile, status>>

BrowserScrape(r) ==
    /\ stage[r] = "browser"
    /\ Connected(r)
    /\ \E text \in {"rich", "thin"} : Scraped(r, "spa", text)

\* The page of the static fetch, if there was one, does not stand in.
BrowserErrs(r) ==
    /\ stage[r] = "browser"
    /\ Fails(r, "browser")
    /\ Answer(r, 502)
    /\ UNCHANGED <<cache, page, profile>>

\* The model called the tool and its output passed SiteProfile.Validate.
Classify(r) ==
    /\ stage[r] = "classify"
    /\ Connected(r)
    /\ profile' = [profile EXCEPT ![r] = r]
    /\ Advance(r, "save")
    /\ UNCHANGED <<cache, page, status, history>>

\* The provider fails, refuses the credentials, or its output is not valid.
ClassifyErrs(r) ==
    /\ stage[r] = "classify"
    /\ Connected(r)
    /\ Fails(r, "provider")
    /\ Answer(r, 500)
    /\ UNCHANGED <<cache, page, profile>>

\* As if the provider were called under a context of its own.
NeverInterrupted(r) == FALSE

\* A call under the request's context returns once the client has gone.
Interrupted(r) == ~Connected(r)

ClassifyCanceled(r) ==
    /\ stage[r] = "classify"
    /\ Interrupted(r)
    /\ Fails(r, "provider")
    /\ Answer(r, 500)
    /\ UNCHANGED <<cache, page, profile>>

----------------------------------------------------------------------------
(* The handler, from the profile on.                                       *)

\* As if the TTL were given in a smaller unit than the client takes it in.
EntryInOtherUnit(r) == [profile |-> profile[r], expires |-> now + 2 * Ttl]

\* What SET stores.
Entry(r) == [profile |-> profile[r], expires |-> now + Ttl]

SetApplies(r) ==
    /\ cache' = [cache EXCEPT ![url[r]] = Entry(r)]
    /\ saved' = [saved EXCEPT ![r] = now]

Save(r) ==
    /\ stage[r] = "save"
    /\ Connected(r)
    /\ SetApplies(r)
    /\ Answer(r, 200)
    /\ UNCHANGED <<page, profile, failed, served>>

\* SET returns an error, applied or not; the answer is sent all the same.
SaveErrs(r) ==
    /\ stage[r] = "save"
    /\ FallibleCache \/ ~Connected(r)
    /\ SetApplies(r) \/ UNCHANGED <<cache, saved>>
    /\ failed' = [failed EXCEPT ![r] = @ \cup {"cache"}]
    /\ Answer(r, 200)
    /\ UNCHANGED <<page, profile, served>>

----------------------------------------------------------------------------
Disconnect(r) ==
    /\ Connected(r)
    /\ stage[r] # "over"
    /\ gone' = [gone EXCEPT ![r] = TRUE]
    /\ UNCHANGED <<now, cache, url, stage, page, profile, status, history>>

Tick ==
    /\ now < MaxTime
    /\ now' = now + 1
    /\ UNCHANGED <<cache, url, stage, gone, page, profile, status, history>>

\* The provider returns: nothing bounds how long that takes.
ProviderStep(r) == Classify(r) \/ ClassifyErrs(r)

HandlerStep(r) ==
    \/ Limited(r) \/ Malformed(r) \/ Admit(r)
    \/ Hit(r) \/ Miss(r) \/ LookupErrs(r)
    \/ Reject(r) \/ Accept(r)
    \/ StaticScrape(r) \/ StaticIsThin(r) \/ StaticErrs(r)
    \/ BrowserScrape(r) \/ BrowserErrs(r)
    \/ ClassifyCanceled(r)
    \/ Save(r) \/ SaveErrs(r)

\* Every request has been answered.
Rest ==
    /\ \A r \in Requests : stage[r] = "over"
    /\ UNCHANGED vars

Next ==
    \/ \E r \in Requests : HandlerStep(r) \/ ProviderStep(r) \/ Disconnect(r)
    \/ Tick
    \/ Rest

Spec == Init /\ [][Next]_vars

\* The handler runs, and what it calls returns: Redis and the scrapers within
\* their timeouts, the provider once the context is done.
FairSpec == Spec /\ \A r \in Requests : WF_vars(HandlerStep(r))

----------------------------------------------------------------------------
\* Request a has scraped a page fit to be classified and has classified it:
\* a static page only if it was not thin, and one of an analyzable URL.
Analyzed(a) ==
    /\ url[a] \in Analyzable
    /\ profile[a] = a
    /\ page[a] # None
    /\ page[a].source = "static" => page[a].text = "rich"
    /\ failed[a] \cap {"browser", "provider"} = {}

\* Every profile that is answered or cached is that of the same URL, made by a
\* whole analysis, its own or an earlier one: no failure, no thin page and no
\* URL that would be refused gets into the cache, though the lookup comes
\* before validation (AnalyzeSite, FallbackScraper.Scrape).
AnswersAreAnalyses ==
    /\ \A u \in Urls : cache[u] # None =>
           cache[u].profile # None /\ Analyzed(cache[u].profile)
                                  /\ url[cache[u].profile] = u
    /\ \A r \in Requests : status[r] = 200 =>
           profile[r] # None /\ Analyzed(profile[r])
                            /\ url[profile[r]] = url[r]

\* The status tells who failed, and it is never the cache: 422 before anything
\* was fetched, 502 for the browser with the provider not asked, 500 for the
\* provider after a page was had (writeAnalyzeError, the handler's two
\* warnings).
FailureHasItsCause ==
    \A r \in Requests :
        /\ status[r] \in {400, 429} => failed[r] = {}
        /\ status[r] = 422 => failed[r] \subseteq {"cache"} /\ page[r] = None
        /\ status[r] = 502 => /\ "browser" \in failed[r]
                             /\ "provider" \notin failed[r]
                             /\ page[r] = None
        /\ status[r] = 500 => "provider" \in failed[r] /\ page[r] # None

\* What the cache answers was cached less than Ttl ago, however often it was
\* asked for since and whoever overwrote it (RedisResponseCache.Set).
ServedWithinTtl ==
    \A r \in Requests : served[r] # None =>
        LET since == saved[profile[r]]
        IN  since # None /\ served[r] < since + Ttl

\* A client that goes away does not leave its handler behind, though a
\* provider may never answer: the request's context reaches every call.
DisconnectEnds == \A r \in Requests : gone[r] ~> stage[r] = "over"
=============================================================================
