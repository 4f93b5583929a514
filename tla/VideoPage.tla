------------------------------ MODULE VideoPage ------------------------------
(***************************************************************************)
(* The content script on a video page: RouteObserver and the visibility    *)
(* listener start a show of the current target, VideoPageController.show   *)
(* waits two seconds, reads, creates and polls.  Shows are not cancelled:  *)
(* each compares its generation when it wakes up.                          *)
(***************************************************************************)
EXTENDS Integers, Sequences

CONSTANTS
    Videos,       \* targets (bvid, cid)
    NoVideo,      \* a page without one
    MaxShows      \* bound of the shows of a page

ASSUME PageAssumption == NoVideo \notin Videos /\ MaxShows \in Nat

VARIABLES
    location,     \* what resolve() finds in the page
    hidden,       \* document.hidden
    lastKey,      \* RouteObserver.lastKey; currentTarget of entry.ts
    shows,        \* the calls of show(): the last one has this.generation
    panel         \* the target of the rendered detail panel

pageVars == <<location, hidden, lastKey, shows, panel>>

\* gate       in the sleep of two seconds
\* reading    awaits the first getAnalysis
\* creating   awaits createAnalysis
\* sleeping   between two polls           polling   awaits a later getAnalysis
ShowSteps == {"gate", "reading", "creating", "sleeping", "polling", "done"}

\* watched: history, the page has been visible, and on no other video, since
\* the show began; abandoned: requests sent after another show began.
Show == [target: Videos, at: ShowSteps, watched: BOOLEAN, abandoned: 0..2]

PageTypeOK ==
    /\ location \in Videos \cup {NoVideo}
    /\ lastKey \in Videos \cup {NoVideo} /\ panel \in Videos \cup {NoVideo}
    /\ hidden \in BOOLEAN
    /\ Len(shows) <= MaxShows
    /\ \A i \in DOMAIN shows : shows[i] \in Show

PageInit ==
    /\ location = NoVideo /\ lastKey = NoVideo /\ panel = NoVideo
    /\ hidden \in BOOLEAN
    /\ shows = <<>>

NewShow(v) == [target |-> v, at |-> "gate", watched |-> ~hidden, abandoned |-> 0]

\* The shows in their gate for which watching is interrupted.
Missed(S(_)) ==
    [i \in DOMAIN shows |->
       IF shows[i].at = "gate" /\ S(shows[i]) THEN [shows[i] EXCEPT !.watched = FALSE]
                                              ELSE shows[i]]

\* The newest show, in a page that is visible.
Current(i) == i = Len(shows) /\ ~hidden

MoveTo(i, step) == shows' = [shows EXCEPT ![i].at = step]

----------------------------------------------------------------------------
(* The page *)

\* check(), after pushState, replaceState, popstate or a change of the document:
\* a page without a video, and the last video again, are not emitted.
Navigate(v) ==
    LET another(s) == v # NoVideo /\ v # s.target
        emitted == v # NoVideo /\ v # lastKey
    IN  /\ v # location
        /\ emitted => Len(shows) < MaxShows
        /\ location' = v
        /\ lastKey' = IF emitted THEN v ELSE lastKey
        /\ shows' = IF emitted THEN Append(Missed(another), NewShow(v)) ELSE Missed(another)
        /\ panel' \in {panel, NoVideo}
        /\ UNCHANGED hidden

Hide ==
    LET every(s) == TRUE
    IN  /\ ~hidden
        /\ hidden' = TRUE
        /\ shows' = Missed(every)
        /\ UNCHANGED <<location, lastKey, panel>>

\* Mutant: there is no listener for visibilitychange.
UnhideSilently ==
    /\ hidden
    /\ hidden' = FALSE
    /\ UNCHANGED <<location, lastKey, shows, panel>>

\* The current target is shown again.
Unhide ==
    /\ hidden
    /\ lastKey # NoVideo => Len(shows) < MaxShows
    /\ hidden' = FALSE
    /\ shows' = IF lastKey = NoVideo THEN shows
                ELSE Append(shows, [NewShow(lastKey) EXCEPT !.watched = TRUE])
    /\ UNCHANGED <<location, lastKey, panel>>

----------------------------------------------------------------------------
(* VideoPageController.show *)

GateEnds(i) ==
    /\ shows[i].at = "gate"
    /\ MoveTo(i, IF Current(i) THEN "reading" ELSE "done")
    /\ UNCHANGED <<location, hidden, lastKey, panel>>

\* render replaces the panel beside the title, whose target it does not compare.
Render(i) == panel' = shows[i].target

\* Neither a current result nor an attempt: create, whatever has happened since.
Create(i) ==
    /\ shows[i].at = "reading"
    /\ Render(i)
    /\ shows' = [shows EXCEPT ![i].at = "creating",
                              ![i].abandoned = IF Current(i) THEN @ ELSE @ + 1]
    /\ UNCHANGED <<location, hidden, lastKey>>

\* An answer that is final, or not yet.
Answer(i) ==
    /\ shows[i].at \in {"reading", "creating", "polling"}
    /\ Render(i)
    /\ \E step \in {"sleeping", "done"} : MoveTo(i, step)
    /\ UNCHANGED <<location, hidden, lastKey>>

\* An exception, which entry.ts logs.
AskFails(i) ==
    /\ shows[i].at \in {"reading", "creating", "polling"}
    /\ MoveTo(i, "done")
    /\ UNCHANGED <<location, hidden, lastKey, panel>>

\* After a delay; the shows end for good after fifteen minutes.
PollAgain(i) ==
    /\ shows[i].at = "sleeping"
    /\ MoveTo(i, IF Current(i) THEN "polling" ELSE "done")
    /\ UNCHANGED <<location, hidden, lastKey, panel>>

PollsEnd(i) ==
    /\ shows[i].at = "sleeping"
    /\ MoveTo(i, "done")
    /\ UNCHANGED <<location, hidden, lastKey, panel>>

ShowStep(i) ==
    GateEnds(i) \/ Create(i) \/ Answer(i) \/ AskFails(i) \/ PollAgain(i) \/ PollsEnd(i)

PageNext ==
    \/ \E v \in Videos \cup {NoVideo} : Navigate(v)
    \/ Hide \/ Unhide
    \/ \E i \in DOMAIN shows : ShowStep(i)

PageSpec == PageInit /\ [][PageNext]_pageVars

----------------------------------------------------------------------------
(* Properties *)

\* A video is asked for only when the page was visible, and went to no other
\* video, for the whole gate; and a show that was left behind, or hidden, sends
\* at most one more request, the creation that its first answer calls for.
WatchedVideosOnly ==
    \A i \in DOMAIN shows : shows[i].at \notin {"gate", "done"} =>
      shows[i].watched /\ shows[i].abandoned <= 1
=============================================================================
