------------------------------ MODULE MCReading ------------------------------
(***************************************************************************)
(* Small instances of the parts around the store for TLC: the installation *)
(* tokens, the facts the queries serve, and the three parts of the         *)
(* extension.  They share no state, so a behaviour is one of one part, the *)
(* others resting in a fixed initial state: the states of the parts add up *)
(* instead of multiplying.                                                 *)
(***************************************************************************)
EXTENDS InstallationTokens, VideoFacts, ApiSession, VideoPage, RecommendationFeed

VARIABLE part

Parts == {"tokens", "facts", "session", "page", "feed"}

allVars == <<part, tokenVars, factVars, sessionVars, pageVars, feedVars>>

Resting ==
    /\ part # "facts" => default = (CHOOSE c \in Cids : TRUE) /\ ~declared
    /\ part # "session" => stored = NoToken
    /\ part # "page" => ~hidden
    /\ part # "feed" => href = mark

Init ==
    /\ part \in Parts
    /\ TokenInit /\ FactsInit /\ SessionInit /\ PageInit /\ FeedInit
    /\ Resting

Next ==
    /\ UNCHANGED part
    /\ \/ /\ part = "tokens" /\ TokenNext
          /\ UNCHANGED <<factVars, sessionVars, pageVars, feedVars>>
       \/ /\ part = "facts" /\ FactsNext
          /\ UNCHANGED <<tokenVars, sessionVars, pageVars, feedVars>>
       \/ /\ part = "session" /\ SessionNext
          /\ UNCHANGED <<tokenVars, factVars, pageVars, feedVars>>
       \/ /\ part = "page" /\ PageNext
          /\ UNCHANGED <<tokenVars, factVars, sessionVars, feedVars>>
       \/ /\ part = "feed" /\ FeedNext
          /\ UNCHANGED <<tokenVars, factVars, sessionVars, pageVars>>

\* A resting feed has nothing to observe and no timer.
Spec == Init /\ [][Next]_allVars /\ FeedFairness

TypesOK == TokenTypeOK /\ FactsTypeOK /\ SessionTypeOK /\ PageTypeOK /\ FeedTypeOK
=============================================================================
