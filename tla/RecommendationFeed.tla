------------------------- MODULE RecommendationFeed -------------------------
(***************************************************************************)
(* RecommendationFeed: cards of the page, which it reuses for other        *)
(* videos, wait in batches for the label of their video.  A batch is sent  *)
(* 400 ms after the last new card, and flushes may overlap.                *)
(***************************************************************************)
EXTENDS Integers, FiniteSets

CONSTANTS
    Cards,        \* those on the screen
    Films,        \* bvids of recommended videos
    NoFilm,       \* no link, no data-bili-ai-bvid, no badge
    Flushes,      \* flushes under way at a time (a bound)
    BatchLimit,   \* 30
    MaxReuses     \* bound of the changes of links

ASSUME FeedAssumption ==
    /\ NoFilm \notin Films
    /\ BatchLimit \in Nat \ {0} /\ MaxReuses \in Nat

VARIABLES
    href,         \* the video each card links to
    mark,         \* card.dataset.biliAiBvid
    badge,        \* the video whose label the card's badge shows
    pending,      \* the cards waiting for each video
    cache,        \* what is known of each video
    timer,        \* the timer is set
    flush,        \* the bvids of the batch in flight, and those after it
    reuses,       \* number of changes of links
    rejected      \* history: a batch was rejected

feedVars == <<href, mark, badge, pending, cache, timer, flush, reuses, rejected>>

NoFlush == [asked |-> {}, left |-> {}]
Seen == Films \cup {NoFilm}

FeedTypeOK ==
    /\ {href, mark, badge} \subseteq [Cards -> Seen]
    /\ pending \in [Films -> SUBSET Cards]
    /\ cache \in [Films -> {"unknown", "null", "item"}]
    /\ flush \in [Flushes -> [asked: SUBSET Films, left: SUBSET Films]]
    /\ {timer, rejected} \subseteq BOOLEAN
    /\ reuses \in 0..MaxReuses

FeedInit ==
    /\ href \in [Cards -> Seen]
    /\ mark = [c \in Cards |-> NoFilm]
    /\ badge = mark
    /\ pending = [f \in Films |-> {}]
    /\ cache = [f \in Films |-> "unknown"]
    /\ timer = FALSE
    /\ flush = [i \in Flushes |-> NoFlush]
    /\ reuses = 0
    /\ rejected = FALSE

Pending == {f \in Films : pending[f] # {}}

\* The page gives a card another link.
Reuse(c, f) ==
    /\ reuses < MaxReuses /\ f # href[c]
    /\ href' = [href EXCEPT ![c] = f]
    /\ reuses' = reuses + 1
    /\ UNCHANGED <<mark, badge, pending, cache, timer, flush, rejected>>

\* Mutant: resetCard leaves the card in the batch of its last video.
LeftBehindStays(c) == pending

\* resetCard: it no longer waits for its last video.
LeftBehind(c) == [f \in Films |-> pending[f] \ {c}]

\* observe, called for every visible card when the document changes: the card's
\* badge goes, and it is labelled from the cache or waits for the next batch.
Observe(c) ==
    LET f == href[c]
        waits == f # NoFilm /\ cache[f] = "unknown"
    IN  /\ f # mark[c]
        /\ mark' = [mark EXCEPT ![c] = f]
        /\ badge' = [badge EXCEPT ![c] =
             IF f # NoFilm /\ cache[f] = "item" THEN f ELSE NoFilm]
        /\ pending' = IF waits THEN [LeftBehind(c) EXCEPT ![f] = @ \cup {c}]
                               ELSE LeftBehind(c)
        /\ timer' = (timer \/ waits)
        /\ UNCHANGED <<href, cache, flush, reuses, rejected>>

\* The next batch of the bvids that are left, at most thirty.
Batches(left) ==
    {[asked |-> S, left |-> left \ S] :
       S \in {S \in SUBSET left : Cardinality(S) = BatchLimit \/ (S = left /\ Cardinality(S) < BatchLimit)}}

TimerFires(i) ==
    /\ timer /\ flush[i] = NoFlush
    /\ timer' = FALSE
    /\ \E b \in Batches(Pending) : flush' = [flush EXCEPT ![i] = b]
    /\ UNCHANGED <<href, mark, badge, pending, cache, reuses, rejected>>

\* Mutant: only the first batch is sent.
NextBatchNever(i) == flush' = [flush EXCEPT ![i] = NoFlush]

NextBatch(i) == \E b \in Batches(flush[i].left) : flush' = [flush EXCEPT ![i] = b]

\* The items for some of the asked videos arrive, and the others have none: the
\* cards that wait by now are labelled.
BatchAnswered(i, items) ==
    LET labelled == {c \in Cards : \E f \in items : c \in pending[f]}
    IN  /\ flush[i].asked # {} /\ items \subseteq flush[i].asked
        /\ cache' = [f \in Films |-> IF f \in items THEN "item"
                                     ELSE IF f \in flush[i].asked THEN "null" ELSE cache[f]]
        /\ badge' = [c \in Cards |->
             IF c \in labelled THEN CHOOSE f \in items : c \in pending[f] ELSE badge[c]]
        /\ pending' = [f \in Films |-> IF f \in flush[i].asked THEN {} ELSE pending[f]]
        /\ NextBatch(i)
        /\ UNCHANGED <<href, mark, timer, reuses, rejected>>

\* The rejection ends the flush, and nobody handles it.
BatchRejected(i) ==
    /\ flush[i].asked # {}
    /\ flush' = [flush EXCEPT ![i] = NoFlush]
    /\ rejected' = TRUE
    /\ UNCHANGED <<href, mark, badge, pending, cache, timer, reuses>>

FlushStep == \E i \in Flushes : TimerFires(i) \/ \E items \in SUBSET Films : BatchAnswered(i, items)

FeedNext ==
    \/ \E c \in Cards : Observe(c) \/ \E f \in Seen : Reuse(c, f)
    \/ FlushStep
    \/ \E i \in Flushes : BatchRejected(i)

\* RecommendationCardTracker brings every visible card to observe when links
\* change, timers fire, and requests that are not rejected are answered.
FeedFairness ==
    /\ \A c \in Cards : WF_feedVars(Observe(c))
    /\ WF_feedVars(FlushStep)

FeedSpec == FeedInit /\ [][FeedNext]_feedVars /\ FeedFairness

----------------------------------------------------------------------------
(* Properties *)

\* A badge is the label of the video its card was last observed with, also when
\* the card changed hands while batches with its old and new video were in flight.
BadgeMatchesCard ==
    \A c \in Cards : badge[c] # NoFilm => badge[c] = mark[c]

\* When the page rests and no batch is rejected, every card is observed with its
\* present link and none waits for an answer any more.
FeedSettles ==
    <>(rejected \/ [](mark = href /\ Pending = {}))
=============================================================================
