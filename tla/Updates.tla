------------------------------ MODULE Updates ------------------------------
(***************************************************************************)
(* The update checker: once a day it asks for the newest release, compares *)
(* it with the version the daemon was built from, remembers the verdict,   *)
(* and wakes the panels when it has changed.                               *)
(*                                                                         *)
(* A build is a release tag, a commit of git or neither.  A tag is its     *)
(* numbers and whether a pre-release suffix follows; a tag that does not   *)
(* parse has no numbers.                                                   *)
(***************************************************************************)
EXTENDS Naturals, Sequences

CONSTANTS
    Tag,              \* tags a release may be published under
    Numbers, Pre,     \* Numbers[t], Pre[t]: what parseReleaseTag finds in a tag
    Build,            \* the versions the daemon may be built from
    Commit,           \* those that are commits
    History,          \* History[c, t]: how commit c relates to tag t
    Follow,           \* Follow[t]: what may be the newest release after t
    None

VARIABLES
    current,          \* buildVersion
    latest,           \* the newest release, as the feed has it
    checker,          \* what checkForUpdate is doing
    release, newer,   \* the release it has fetched, and what it thinks of it
    update,           \* d.updates.update
    seen              \* history: the release the last completed check has seen

vars == <<current, latest, checker, release, newer, update, seen>>

\* What its constants are; Panel assumes it.
UpdatesAssumption ==
    /\ None \notin Tag \cup Build /\ Commit \subseteq Build
    /\ Numbers \in [Tag \cup (Build \ Commit) -> Seq(Nat)]
    /\ Pre \in [Tag \cup (Build \ Commit) -> BOOLEAN]
    /\ History \in [Commit \X Tag -> {"identical", "behind", "ahead", "diverged"}]
    /\ Follow \in [Tag -> SUBSET Tag]
-----------------------------------------------------------------------------
(* Comparing versions. *)

\* parseCore: up to three numbers.
Parses(t) == Len(Numbers[t]) \in 1 .. 3

\* The core, padded with zeros.
Core(t) == [i \in 1 .. 3 |-> IF i <= Len(Numbers[t]) THEN Numbers[t][i] ELSE 0]

\* CompareVersionCores if it did not stop at the first difference
CompareLastDifference(a, b) ==
    LET differ == {i \in 1 .. 3 : a[i] # b[i]}
        i == CHOOSE j \in differ : \A k \in differ : k <= j
    IN  IF differ = {} THEN 0 ELSE IF a[i] < b[i] THEN 1 ELSE 2

\* compareVersionCores, with 1 for older and 2 for newer: the first difference counts.
CompareVersionCores(a, b) ==
    LET differ == {i \in 1 .. 3 : a[i] # b[i]}
        i == CHOOSE j \in differ : \A k \in differ : j <= k
    IN  IF differ = {} THEN 0 ELSE IF a[i] < b[i] THEN 1 ELSE 2

\* isNewerRelease: of equal cores only the final one is newer than a pre-release.
IsNewerRelease(cur, lat) ==
    /\ Parses(cur) /\ Parses(lat)
    /\ LET order == CompareVersionCores(Core(cur), Core(lat))
       IN  order = 1 \/ (order = 0 /\ Pre[cur] /\ ~Pre[lat])

\* commitBehindRelease and newerThanCurrent.
NewerThanCurrent(t) ==
    IF current \in Commit THEN History[current, t] = "behind"
                          ELSE IsNewerRelease(current, t)

\* checkForUpdate skips the versions it cannot compare.
Comparable == IF current \in Commit THEN TRUE ELSE Parses(current)

-----------------------------------------------------------------------------
(* The checker. *)

Init ==
    /\ current \in Build /\ latest \in Tag
    /\ checker = "wait" /\ release = None /\ newer = FALSE
    /\ update = None /\ seen = None

\* A release is published or withdrawn.
Publish ==
    /\ latest' \in Follow[latest]
    /\ UNCHANGED <<current, checker, release, newer, update, seen>>

\* Check if only the first check were made
CheckOnce ==
    /\ checker = "wait" /\ Comparable /\ seen = None
    /\ checker' = "fetch"
    /\ UNCHANGED <<current, latest, release, newer, update, seen>>

\* The timer fires; a build that cannot be compared asks for nothing.
Check ==
    /\ checker = "wait" /\ Comparable
    /\ checker' = "fetch"
    /\ UNCHANGED <<current, latest, release, newer, update, seen>>

\* fetchLatestReleaseFeed.
Fetch ==
    /\ checker = "fetch"
    /\ checker' = "compare" /\ release' = latest
    /\ UNCHANGED <<current, latest, newer, update, seen>>

\* No answer, no JSON, or a release without tag or page; for a commit the
\* comparison may fail as well.
CheckFails ==
    /\ checker = "fetch" \/ (checker = "compare" /\ current \in Commit)
    /\ checker' = "wait" /\ release' = None
    /\ UNCHANGED <<current, latest, newer, update, seen>>

Compare ==
    /\ checker = "compare"
    /\ checker' = "set" /\ newer' = NewerThanCurrent(release)
    /\ UNCHANGED <<current, latest, release, update, seen>>

Verdict == IF newer THEN release ELSE None

\* SetVerdict if sameUpdate only looked whether there is an update
SetVerdictByPresence ==
    /\ checker = "set"
    /\ update' = Verdict /\ seen' = release
    /\ checker' = IF (Verdict = None) # (update = None) THEN "broadcast" ELSE "wait"
    /\ release' = None /\ newer' = FALSE
    /\ UNCHANGED <<current, latest>>

\* updateState.set: only a verdict that has changed is announced.
SetVerdict ==
    /\ checker = "set"
    /\ update' = Verdict /\ seen' = release
    /\ checker' = IF Verdict # update THEN "broadcast" ELSE "wait"
    /\ release' = None /\ newer' = FALSE
    /\ UNCHANGED <<current, latest>>

\* broadcastStateChanged; Panel says what comes of it.
Announce ==
    /\ checker = "broadcast"
    /\ checker' = "wait"
    /\ UNCHANGED <<current, latest, release, newer, update, seen>>

Next == Publish \/ Check \/ Fetch \/ CheckFails \/ Compare \/ SetVerdict \/ Announce

Spec == Init /\ [][Next]_vars
-----------------------------------------------------------------------------
TypeOK ==
    /\ current \in Build /\ latest \in Tag
    /\ checker \in {"wait", "fetch", "compare", "set", "broadcast"}
    /\ release \in Tag \cup {None} /\ newer \in BOOLEAN
    /\ {update, seen} \subseteq Tag \cup {None}

\* The order of versions: by their numbers, and before the final comes its
\* pre-release.
Older(a, b) ==
    \/ \E i \in 1 .. 3 : /\ Core(a)[i] < Core(b)[i]
                         /\ \A j \in 1 .. i - 1 : Core(a)[j] = Core(b)[j]
    \/ Core(a) = Core(b) /\ Pre[a] /\ ~Pre[b]

Outdated(t) ==
    IF current \in Commit THEN History[current, t] = "behind"
                          ELSE Parses(current) /\ Parses(t) /\ Older(current, t)

\* An update is offered exactly if the release the last completed check has seen is
\* newer than the build; a check that fails changes nothing (checkForUpdate,
\* isNewerRelease).
VerdictIsRight ==
    update = IF seen # None /\ Outdated(seen) THEN seen ELSE None

=============================================================================
