-------------------------- MODULE AnalyzeSiteProofs --------------------------
(***************************************************************************)
(* The safety properties of AnalyzeSite, for any number of requests and    *)
(* URLs, any TTL and any length of run.                                    *)
(*                                                                         *)
(* The argument: where a handler has got to tells what it has behind it    *)
(* (StageInv), and what a request has once analysed or saved never changes *)
(* again, so other requests may rely on it through the cache.              *)
(***************************************************************************)
EXTENDS AnalyzeSite, TLAPS

\* What a request has behind it, by its stage.
StageInv(r) ==
    /\ status[r] = 0 <=> stage[r] # "over"
    /\ stage[r] \in {"arrived", "lookup"} => failed[r] = {}
    /\ stage[r] \in {"validate", "static"} => failed[r] \subseteq {"cache"}
    /\ stage[r] \in {"browser", "classify"} =>
           failed[r] \subseteq {"cache", "static"}
    /\ stage[r] \in {"static", "browser", "classify"} => url[r] \in Analyzable
    /\ stage[r] \in {"arrived", "lookup", "validate", "static", "browser"} =>
           page[r] = None
    /\ stage[r] = "classify" =>
           /\ page[r] # None
           /\ page[r].source = "static" => page[r].text = "rich"
    /\ stage[r] = "save" => Analyzed(r)
    /\ stage[r] \notin {"save", "over"} => profile[r] = None
    /\ stage[r] # "over" => saved[r] = None /\ served[r] = None
    /\ served[r] # None => status[r] = 200

\* An entry expires Ttl after its author saved it.
EntryInv ==
    \A u \in Urls : cache[u] # None =>
        LET since == saved[cache[u].profile]
        IN  since # None /\ cache[u].expires = since + Ttl

IInv ==
    /\ TypeOK
    /\ \A r \in Requests : StageInv(r)
    /\ EntryInv
    /\ AnswersAreAnalyses
    /\ FailureHasItsCause
    /\ ServedWithinTtl

----------------------------------------------------------------------------
(* Types.                                                                  *)

\* Every variable keeps its type: the entries of the cache, the requests'
\* stages, pages, profiles and histories, and the clock.
THEOREM Typing == Spec => []TypeOK
<1>1. Init => TypeOK
  BY DEF Init, TypeOK, Stages, Profiles
<1>2. TypeOK /\ [Next]_vars => TypeOK'
  <2> SUFFICES ASSUME TypeOK, [Next]_vars
               PROVE  TypeOK'
    OBVIOUS
  <2> USE DEF TypeOK, history, Stages, Dependencies, Advance, Answer, Fails
  <2>1. ASSUME NEW r \in Requests, HandlerStep(r) \/ ProviderStep(r)
        PROVE  TypeOK'
    <3>1. CASE Limited(r) \/ Malformed(r) \/ Reject(r)
      BY <3>1 DEF Limited, Malformed, Reject
    <3>2. CASE Admit(r) \/ Miss(r) \/ Accept(r) \/ StaticIsThin(r)
      BY <3>2 DEF Admit, Miss, Accept, StaticIsThin
    <3>3. CASE Hit(r)
      BY <3>3 DEF Hit, Cached, Entries
    <3>4. CASE LookupErrs(r) \/ StaticErrs(r)
      BY <3>4 DEF LookupErrs, StaticErrs
    <3>5. CASE StaticScrape(r) \/ BrowserScrape(r)
      BY <3>5 DEF StaticScrape, BrowserScrape, Scraped, Pages
    <3>6. CASE BrowserErrs(r) \/ ClassifyErrs(r) \/ ClassifyCanceled(r)
      BY <3>6 DEF BrowserErrs, ClassifyErrs, ClassifyCanceled
    <3>7. CASE Classify(r)
      BY <3>7 DEF Classify, Profiles
    <3>8. CASE Save(r) \/ SaveErrs(r)
      <4>1. Entry(r) \in Entries
        BY TtlAssumption DEF Entry, Entries
      <4> QED
        BY <3>8, <4>1 DEF Save, SaveErrs, SetApplies
    <3> QED
      BY <2>1, <3>1, <3>2, <3>3, <3>4, <3>5, <3>6, <3>7, <3>8
         DEF HandlerStep, ProviderStep
  <2>2. ASSUME NEW r \in Requests, Disconnect(r)
        PROVE  TypeOK'
    BY <2>2 DEF Disconnect
  <2>3. CASE Tick
    BY <2>3 DEF Tick
  <2>4. CASE UNCHANGED vars
    BY <2>4 DEF vars
  <2> QED
    BY <2>1, <2>2, <2>3, <2>4 DEF Next, Rest
<1> QED
  BY <1>1, <1>2, PTL DEF Spec

----------------------------------------------------------------------------
(* What lasts.                                                             *)

\* Every action of a request, as the proofs below go through them.
Steps(r) == HandlerStep(r) \/ ProviderStep(r) \/ Disconnect(r)

\* A request's step leaves the others alone.
LEMMA OnlyItsOwn ==
    ASSUME TypeOK, NEW r \in Requests, Steps(r),
           NEW a \in Requests, a # r
    PROVE  /\ stage'[a] = stage[a] /\ page'[a] = page[a]
           /\ profile'[a] = profile[a] /\ status'[a] = status[a]
           /\ failed'[a] = failed[a] /\ saved'[a] = saved[a]
           /\ served'[a] = served[a] /\ url' = url
<1> USE DEF TypeOK, history, Advance, Answer, Fails
<1>1. CASE Limited(r) \/ Malformed(r) \/ Admit(r) \/ Hit(r) \/ Miss(r)
           \/ LookupErrs(r)
  BY <1>1 DEF Limited, Malformed, Admit, Hit, Miss, LookupErrs
<1>2. CASE Reject(r) \/ Accept(r) \/ StaticScrape(r) \/ StaticIsThin(r)
           \/ StaticErrs(r)
  BY <1>2 DEF Reject, Accept, StaticScrape, StaticIsThin, StaticErrs, Scraped
<1>3. CASE BrowserScrape(r) \/ BrowserErrs(r) \/ ClassifyCanceled(r)
           \/ Classify(r) \/ ClassifyErrs(r)
  BY <1>3 DEF BrowserScrape, BrowserErrs, ClassifyCanceled, Classify,
              ClassifyErrs, Scraped
<1>4. CASE Save(r) \/ SaveErrs(r) \/ Disconnect(r)
  BY <1>4 DEF Save, SaveErrs, SetApplies, Disconnect
<1> QED
  BY <1>1, <1>2, <1>3, <1>4 DEF Steps, HandlerStep, ProviderStep

\* An analysis, once made, is never taken back, nor is the moment it was
\* saved.
LEMMA AnalysisLasts ==
    ASSUME TypeOK, NEW a \in Requests, StageInv(a), [Next]_vars, Analyzed(a)
    PROVE  /\ Analyzed(a)' /\ url'[a] = url[a]
           /\ saved[a] # None => saved'[a] = saved[a]
<1> USE DEF Analyzed
<1>1. profile[a] # None
  BY NoneAssumption
<1>2. stage[a] \in {"save", "over"}
  BY <1>1 DEF StageInv
<1>3. CASE Steps(a)
  <2>1. Save(a) \/ SaveErrs(a) \/ Disconnect(a)
    BY <1>2, <1>3
       DEF Steps, HandlerStep, ProviderStep, Limited, Malformed, Admit, Hit,
           Miss, LookupErrs, Reject, Accept, StaticScrape, StaticIsThin,
           StaticErrs, BrowserScrape, BrowserErrs, ClassifyCanceled, Classify,
           ClassifyErrs
  <2> QED
    BY <2>1 DEF TypeOK, history, Save, SaveErrs, Disconnect, SetApplies, Answer,
                Advance, StageInv
<1>4. ASSUME NEW r \in Requests, r # a, Steps(r)
      PROVE  /\ Analyzed(a)' /\ url'[a] = url[a]
             /\ saved[a] # None => saved'[a] = saved[a]
  BY <1>4, OnlyItsOwn
<1>5. CASE Tick \/ UNCHANGED vars
  BY <1>5 DEF Tick, vars, history
<1> QED
  BY <1>3, <1>4, <1>5 DEF Next, Rest, Steps

----------------------------------------------------------------------------
(* The invariant is inductive.                                             *)

\* FailureHasItsCause, of one request.
CauseInv(r) ==
    /\ status[r] \in {400, 429} => failed[r] = {}
    /\ status[r] = 422 => failed[r] \subseteq {"cache"} /\ page[r] = None
    /\ status[r] = 502 => /\ "browser" \in failed[r]
                         /\ "provider" \notin failed[r]
                         /\ page[r] = None
    /\ status[r] = 500 => "provider" \in failed[r] /\ page[r] # None

\* A handler's own step takes it from one stage's history to the next's.
LEMMA StageStep ==
    ASSUME TypeOK, NEW r \in Requests, StageInv(r), CauseInv(r), Steps(r)
    PROVE  StageInv(r)' /\ CauseInv(r)'
<1> USE DEF TypeOK, history, Advance, Answer, Fails, StageInv, CauseInv
<1>1. CASE Limited(r) \/ Malformed(r) \/ Admit(r)
  BY <1>1 DEF Limited, Malformed, Admit
<1>2. CASE Hit(r) \/ Miss(r) \/ LookupErrs(r)
  BY <1>2 DEF Hit, Miss, LookupErrs
<1>3. CASE Reject(r) \/ Accept(r)
  BY <1>3 DEF Reject, Accept
<1>4. CASE StaticScrape(r) \/ BrowserScrape(r)
  <2>1. PICK source \in {"static", "spa"}, text \in {"rich", "thin"} :
            /\ Scraped(r, source, text)
            /\ source = "static" => text = "rich"
    BY <1>4 DEF StaticScrape, BrowserScrape
  <2>2. page'[r].source = "static" => page'[r].text = "rich"
    BY <2>1 DEF Scraped
  <2>3. page'[r] # None
    BY <2>1, NoneAssumption DEF Scraped, Pages
  <2> QED
    BY <1>4, <2>1, <2>2, <2>3 DEF StaticScrape, BrowserScrape, Scraped
<1>5. CASE StaticIsThin(r) \/ StaticErrs(r) \/ BrowserErrs(r)
  BY <1>5 DEF StaticIsThin, StaticErrs, BrowserErrs
<1>6. CASE Classify(r)
  BY <1>6 DEF Classify, Analyzed
<1>7. CASE ClassifyErrs(r) \/ ClassifyCanceled(r)
  BY <1>7 DEF ClassifyErrs, ClassifyCanceled
<1>8. CASE Save(r) \/ SaveErrs(r)
  BY <1>8 DEF Save, SaveErrs, SetApplies
<1>9. CASE Disconnect(r)
  BY <1>9 DEF Disconnect, Analyzed
<1> QED
  BY <1>1, <1>2, <1>3, <1>4, <1>5, <1>6, <1>7, <1>8, <1>9
     DEF Steps, HandlerStep, ProviderStep

\* Whose step a step is.
LEMMA WhoseStep ==
    ASSUME [Next]_vars
    PROVE  \/ \E r \in Requests : Steps(r)
           \/ UNCHANGED <<cache, url, stage, page, profile, status, history>>
  BY DEF Next, Rest, Tick, vars, Steps

LEMMA UrlKept ==
    ASSUME [Next]_vars
    PROVE  url' = url
<1>1. ASSUME NEW r \in Requests, Steps(r)
      PROVE  url' = url
  BY <1>1
     DEF Steps, HandlerStep, ProviderStep, Limited, Malformed, Admit, Hit, Miss,
         LookupErrs, Reject, Accept, StaticScrape, StaticIsThin, StaticErrs,
         BrowserScrape, BrowserErrs, ClassifyCanceled, Classify, ClassifyErrs,
         Save, SaveErrs, Disconnect, Advance, Answer, Scraped
<1> QED
  BY <1>1, WhoseStep

\* An answered request keeps its answer.
LEMMA OverIsFinal ==
    ASSUME TypeOK, [Next]_vars, NEW a \in Requests, stage[a] = "over"
    PROVE  /\ status'[a] = status[a] /\ profile'[a] = profile[a]
           /\ served'[a] = served[a]
<1>1. ASSUME Steps(a)
      PROVE  FALSE
  BY <1>1
     DEF Steps, HandlerStep, ProviderStep, Limited, Malformed, Admit, Hit, Miss,
         LookupErrs, Reject, Accept, StaticScrape, StaticIsThin, StaticErrs,
         BrowserScrape, BrowserErrs, ClassifyCanceled, Classify, ClassifyErrs,
         Save, SaveErrs, Disconnect
<1> QED
  BY <1>1, WhoseStep, OnlyItsOwn DEF history

\* Only a SET changes an entry, to the analysis of the request that sends it.
LEMMA OnlySaved ==
    ASSUME IInv, [Next]_vars, NEW u \in Urls, cache'[u] # cache[u]
    PROVE  \E r \in Requests :
               /\ stage[r] = "save" /\ url[r] = u
               /\ cache'[u] = Entry(r) /\ saved'[r] = now
<1>1. PICK r \in Requests : Steps(r)
  BY WhoseStep
<1>2. Save(r) \/ SaveErrs(r)
  BY <1>1
     DEF Steps, HandlerStep, ProviderStep, Limited, Malformed, Admit, Hit, Miss,
         LookupErrs, Reject, Accept, StaticScrape, StaticIsThin, StaticErrs,
         BrowserScrape, BrowserErrs, ClassifyCanceled, Classify, ClassifyErrs,
         Disconnect, Scraped
<1>3. SetApplies(r) /\ stage[r] = "save"
  BY <1>2 DEF Save, SaveErrs
<1> QED
  BY <1>3 DEF IInv, TypeOK, SetApplies

LEMMA CacheStep ==
    ASSUME IInv, [Next]_vars, NEW u \in Urls, cache'[u] # None
    PROVE  \E p \in Requests :
               /\ cache'[u].profile = p /\ Analyzed(p)' /\ url'[p] = u
               /\ saved'[p] # None /\ cache'[u].expires = saved'[p] + Ttl
<1>1. CASE cache'[u] = cache[u]
  <2>1. PICK p \in Requests : cache[u].profile = p
    BY <1>1 DEF IInv, TypeOK, AnswersAreAnalyses, Entries, Profiles
  <2>2. /\ Analyzed(p) /\ url[p] = u /\ saved[p] # None
        /\ cache[u].expires = saved[p] + Ttl
    BY <1>1, <2>1 DEF IInv, AnswersAreAnalyses, EntryInv
  <2>3. /\ Analyzed(p)' /\ url'[p] = url[p]
        /\ saved[p] # None => saved'[p] = saved[p]
    BY <2>2, AnalysisLasts DEF IInv
  <2> QED
    BY <1>1, <2>1, <2>2, <2>3
<1>2. CASE cache'[u] # cache[u]
  <2>1. PICK r \in Requests :
            /\ stage[r] = "save" /\ url[r] = u
            /\ cache'[u] = Entry(r) /\ saved'[r] = now
    BY <1>2, OnlySaved
  <2>2. Analyzed(r)
    BY <2>1 DEF IInv, StageInv
  <2>3. cache'[u].profile = r /\ cache'[u].expires = now + Ttl
    BY <2>1, <2>2 DEF Entry, Analyzed
  <2>4. now # None
    BY NoneAssumption DEF IInv, TypeOK
  <2>5. Analyzed(r)' /\ url'[r] = url[r]
    BY <2>2, AnalysisLasts DEF IInv
  <2> QED
    BY <2>1, <2>3, <2>4, <2>5
<1> QED
  BY <1>1, <1>2

\* What the cache answers is what it holds.
LEMMA HitAnswers ==
    ASSUME IInv, [Next]_vars, NEW r \in Requests, Hit(r)
    PROVE  \E p \in Requests :
               /\ profile'[r] = p /\ Analyzed(p)' /\ url'[p] = url'[r]
               /\ saved'[p] # None /\ served'[r] < saved'[p] + Ttl
<1>1. /\ cache' = cache /\ url' = url
      /\ profile'[r] = cache[url[r]].profile /\ served'[r] = now
  BY DEF IInv, TypeOK, Hit, Answer, Advance
<1>2. url[r] \in Urls /\ cache[url[r]] # None /\ now < cache[url[r]].expires
  BY DEF IInv, TypeOK, Hit, Cached
<1> DEFINE u == url[r]
<1>3. \E p \in Requests :
          /\ cache'[u].profile = p /\ Analyzed(p)' /\ url'[p] = u
          /\ saved'[p] # None /\ cache'[u].expires = saved'[p] + Ttl
  BY <1>1, <1>2, CacheStep
<1> QED
  BY <1>1, <1>2, <1>3

\* A request is answered by the cache or by its own analysis.
LEMMA HowAnswered ==
    ASSUME IInv, [Next]_vars, NEW a \in Requests,
           status'[a] = 200 \/ served'[a] # None
    PROVE  stage[a] = "over" \/ Hit(a) \/ Save(a) \/ SaveErrs(a)
<1> SUFFICES ASSUME stage[a] # "over"
             PROVE  Hit(a) \/ Save(a) \/ SaveErrs(a)
  OBVIOUS
<1>1. status[a] = 0 /\ served[a] = None
  BY DEF IInv, StageInv
<1>2. Steps(a)
  BY <1>1, WhoseStep, OnlyItsOwn DEF IInv, history
<1> QED
  BY <1>1, <1>2
     DEF IInv, TypeOK, history, Steps, HandlerStep, ProviderStep, Limited,
         Malformed, Admit, Miss, LookupErrs, Reject, Accept, StaticScrape,
         StaticIsThin, StaticErrs, BrowserScrape, BrowserErrs, ClassifyCanceled,
         Classify, ClassifyErrs, Disconnect, Scraped, Answer, Fails

LEMMA AnswerStep ==
    ASSUME IInv, [Next]_vars, NEW a \in Requests, status'[a] = 200
    PROVE  \E p \in Requests :
               profile'[a] = p /\ Analyzed(p)' /\ url'[p] = url'[a]
<1>1. CASE stage[a] = "over"
  <2>1. status[a] = 200 /\ profile'[a] = profile[a]
    BY <1>1, OverIsFinal DEF IInv
  <2>2. PICK p \in Requests : profile[a] = p
    BY <2>1 DEF IInv, TypeOK, AnswersAreAnalyses, Profiles
  <2>3. Analyzed(p) /\ url[p] = url[a]
    BY <2>1, <2>2 DEF IInv, AnswersAreAnalyses
  <2>4. Analyzed(p)'
    BY <2>3, AnalysisLasts DEF IInv
  <2> QED
    BY <2>1, <2>2, <2>3, <2>4, UrlKept
<1>2. CASE Hit(a)
  BY <1>2, HitAnswers
<1>3. CASE Save(a) \/ SaveErrs(a)
  <2>1. Analyzed(a) /\ profile'[a] = profile[a]
    BY <1>3 DEF IInv, StageInv, Save, SaveErrs
  <2>2. Analyzed(a)'
    BY <2>1, AnalysisLasts DEF IInv
  <2> QED
    BY <2>1, <2>2 DEF Analyzed
<1> QED
  BY <1>1, <1>2, <1>3, HowAnswered

LEMMA ServedStep ==
    ASSUME IInv, [Next]_vars, NEW a \in Requests, served'[a] # None
    PROVE  \E p \in Requests :
               /\ profile'[a] = p
               /\ saved'[p] # None /\ served'[a] < saved'[p] + Ttl
<1>1. CASE stage[a] = "over"
  <2>1. served'[a] = served[a] /\ profile'[a] = profile[a]
    BY <1>1, OverIsFinal DEF IInv
  <2>2. status[a] = 200
    BY <2>1 DEF IInv, StageInv
  <2>3. PICK p \in Requests : profile[a] = p
    BY <2>2 DEF IInv, TypeOK, AnswersAreAnalyses, Profiles
  <2>4. Analyzed(p) /\ saved[p] # None /\ served[a] < saved[p] + Ttl
    BY <2>1, <2>2, <2>3 DEF IInv, AnswersAreAnalyses, ServedWithinTtl
  <2>5. saved'[p] = saved[p]
    BY <2>4, AnalysisLasts DEF IInv
  <2> QED
    BY <2>1, <2>3, <2>4, <2>5
<1>2. CASE Hit(a)
  BY <1>2, HitAnswers
<1>3. CASE Save(a) \/ SaveErrs(a)
  BY <1>3 DEF IInv, StageInv, Save, SaveErrs
<1> QED
  BY <1>1, <1>2, <1>3, HowAnswered

LEMMA Step == IInv /\ [Next]_vars /\ TypeOK' => IInv'
<1> SUFFICES ASSUME IInv, [Next]_vars, TypeOK'
             PROVE  IInv'
  OBVIOUS
<1>1. ASSUME NEW r \in Requests
      PROVE  StageInv(r)' /\ CauseInv(r)'
  <2>1. TypeOK /\ StageInv(r) /\ CauseInv(r)
    BY DEF IInv, FailureHasItsCause, CauseInv
  <2>2. CASE Steps(r)
    BY <2>1, <2>2, StageStep
  <2>3. CASE ~Steps(r)
    BY <2>1, <2>3, WhoseStep, OnlyItsOwn, UrlKept
       DEF StageInv, CauseInv, Analyzed, history
  <2> QED
    BY <2>2, <2>3
<1>2. EntryInv'
  BY CacheStep DEF EntryInv
<1>3. AnswersAreAnalyses'
  BY CacheStep, AnswerStep, NoneAssumption DEF AnswersAreAnalyses
<1>4. FailureHasItsCause'
  BY <1>1 DEF FailureHasItsCause, CauseInv
<1>5. ServedWithinTtl'
  BY ServedStep DEF ServedWithinTtl
<1> QED
  BY <1>1, <1>2, <1>3, <1>4, <1>5 DEF IInv

LEMMA Invariant == Spec => []IInv
<1>1. Init => IInv
  BY DEF Init, IInv, TypeOK, Stages, Profiles, StageInv, EntryInv,
         AnswersAreAnalyses, FailureHasItsCause, ServedWithinTtl
<1>2. IInv /\ [Next]_vars /\ TypeOK' => IInv'
  BY Step
<1> QED
  BY <1>1, <1>2, Typing, PTL DEF Spec

----------------------------------------------------------------------------
\* Whatever POST /v1/analyze answers or caches was made by a whole analysis of
\* that URL, whichever requests share the cache and whatever fails.
THEOREM AnswersTraceToAnalyses == Spec => []AnswersAreAnalyses
<1>1. IInv => AnswersAreAnalyses
  BY DEF IInv
<1> QED
  BY <1>1, Invariant, PTL

\* No error status has a failing cache for its cause, and each tells the
\* dependency that failed.
THEOREM StatusTellsCause == Spec => []FailureHasItsCause
<1>1. IInv => FailureHasItsCause
  BY DEF IInv
<1> QED
  BY <1>1, Invariant, PTL

\* No answer comes out of the cache Ttl or later after it was put there.
THEOREM CacheHonoursTtl == Spec => []ServedWithinTtl
<1>1. IInv => ServedWithinTtl
  BY DEF IInv
<1> QED
  BY <1>1, Invariant, PTL
=============================================================================
