----------------------------- MODULE VideoFacts -----------------------------
(***************************************************************************)
(* video_metadata and video_declaration: what bilibili says of a video,    *)
(* written by every worker that loads it, fenced by nothing, and read by   *)
(* the two query endpoints.  The time of a load is taken when it starts.   *)
(***************************************************************************)
EXTENDS Integers

CONSTANTS
    Cids,             \* parts of the video
    NoCid,            \* no row
    Loads,            \* loads under way at a time, by any workers
    MetadataTtl,
    DeclarationTtl,
    MaxNow            \* bound of the clock

ASSUME FactsAssumption ==
    /\ MetadataTtl \in Nat /\ DeclarationTtl \in Nat /\ MaxNow \in Nat
    /\ NoCid \notin Cids

VARIABLES
    now,
    default,          \* the first part, on bilibili
    declared,         \* the declaration, on bilibili
    defaultSeen,      \* history: when each cid last was the default
    declaredSeen,     \* history: when each declaration last was bilibili's
    metadata,         \* video_metadata
    declaration,      \* video_declaration
    load              \* _load_materials, up to save_declaration

factVars == <<now, default, declared, defaultSeen, declaredSeen, metadata,
              declaration, load>>
worldVars == <<now, default, declared, defaultSeen, declaredSeen>>

LongAgo == -(MetadataTtl + DeclarationTtl)
Moments == LongAgo..MaxNow
NoLoad == [at |-> "idle"]
LoadRow == [at: {"asking"}, checked: 0..MaxNow]
             \cup [at: {"viewed"}, checked: 0..MaxNow, cid: Cids, state: BOOLEAN]
             \cup [at: {"loaded"}, checked: 0..MaxNow, state: BOOLEAN]

FactsTypeOK ==
    /\ now \in 0..MaxNow
    /\ default \in Cids /\ declared \in BOOLEAN
    /\ defaultSeen \in [Cids -> Moments] /\ declaredSeen \in [BOOLEAN -> Moments]
    /\ metadata \in [cid: Cids \cup {NoCid}, checked: Moments]
    /\ declaration \in [state: BOOLEAN, checked: Moments, expires: LongAgo..(MaxNow + DeclarationTtl)]
    /\ load \in [Loads -> LoadRow \cup {NoLoad}]

FactsInit ==
    /\ now = 0
    /\ default \in Cids /\ declared \in BOOLEAN
    /\ defaultSeen = [c \in Cids |-> IF c = default THEN 0 ELSE LongAgo]
    /\ declaredSeen = [b \in BOOLEAN |-> IF b = declared THEN 0 ELSE LongAgo]
    /\ metadata = [cid |-> NoCid, checked |-> LongAgo]
    /\ declaration = [state |-> FALSE, checked |-> LongAgo, expires |-> LongAgo]
    /\ load = [w \in Loads |-> NoLoad]

----------------------------------------------------------------------------
(* The world *)

FactsTick ==
    /\ now < MaxNow
    /\ now' = now + 1
    /\ defaultSeen' = [defaultSeen EXCEPT ![default] = now']
    /\ declaredSeen' = [declaredSeen EXCEPT ![declared] = now']
    /\ UNCHANGED <<default, declared, metadata, declaration, load>>

\* The author replaces the first part, or edits the declaration.
Edit(c, b) ==
    /\ <<c, b>> # <<default, declared>>
    /\ default' = c /\ declared' = b
    /\ defaultSeen' = [defaultSeen EXCEPT ![c] = now]
    /\ declaredSeen' = [declaredSeen EXCEPT ![b] = now]
    /\ UNCHANGED <<now, metadata, declaration, load>>

----------------------------------------------------------------------------
(* A load *)

StartLoad(w) ==
    /\ load[w].at = "idle"
    /\ load' = [load EXCEPT ![w] = [at |-> "asking", checked |-> now]]
    /\ UNCHANGED <<worldVars, metadata, declaration>>

\* The answer of /view; the tags are asked for afterwards.
View(w) ==
    /\ load[w].at = "asking"
    /\ load' = [load EXCEPT ![w] = [at |-> "viewed", checked |-> load[w].checked,
                                    cid |-> default, state |-> declared]]
    /\ UNCHANGED <<worldVars, metadata, declaration>>

\* The upsert takes the place of any row, also of a later check.
SaveDefaultCid(w) ==
    /\ load[w].at = "viewed"
    /\ metadata' = [cid |-> load[w].cid, checked |-> load[w].checked]
    /\ load' = [load EXCEPT ![w] = [at |-> "loaded", checked |-> load[w].checked,
                                    state |-> load[w].state]]
    /\ UNCHANGED <<worldVars, declaration>>

\* Mutant: the row is dated when it is written.
DeclarationSavedNow(w) ==
    /\ load[w].at = "loaded"
    /\ declaration' = [state |-> load[w].state, checked |-> now,
                       expires |-> now + DeclarationTtl]
    /\ load' = [load EXCEPT ![w] = NoLoad]
    /\ UNCHANGED <<worldVars, metadata>>

DeclarationSaved(w) ==
    /\ load[w].at = "loaded"
    /\ declaration' = [state |-> load[w].state, checked |-> load[w].checked,
                       expires |-> load[w].checked + DeclarationTtl]
    /\ load' = [load EXCEPT ![w] = NoLoad]
    /\ UNCHANGED <<worldVars, metadata>>

\* An error, the job timeout or a crash; or the target is no longer a part.
LoadFails(w) ==
    /\ load[w].at # "idle"
    /\ load' = [load EXCEPT ![w] = NoLoad]
    /\ UNCHANGED <<worldVars, metadata, declaration>>

FactsNext ==
    \/ FactsTick
    \/ \E c \in Cids, b \in BOOLEAN : Edit(c, b)
    \/ \E w \in Loads : \/ StartLoad(w) \/ View(w) \/ SaveDefaultCid(w)
                        \/ DeclarationSaved(w) \/ LoadFails(w)

FactsSpec == FactsInit /\ [][FactsNext]_factVars

----------------------------------------------------------------------------
(* The queries *)

\* batch_current_defaults: the parts for which a card may be given a result.
BatchDefaults ==
    IF metadata.cid # NoCid /\ metadata.checked > now - MetadataTtl
    THEN {metadata.cid} ELSE {}

\* The declaration of a response that is not marked stale.
CurrentDeclaration ==
    IF declaration.expires > now THEN {declaration.state} ELSE {}

\* What the API serves as current was true on bilibili within its time to live,
\* although any worker, however late, overwrites what a later one has found: a
\* card's result is of a part that was the default, and a declaration was made.
ServedWasTrue ==
    /\ \A c \in BatchDefaults : defaultSeen[c] > now - MetadataTtl
    /\ \A b \in CurrentDeclaration : declaredSeen[b] > now - DeclarationTtl
=============================================================================
