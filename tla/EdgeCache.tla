----------------------------- MODULE EdgeCache -----------------------------
(***************************************************************************)
(* The edge server's cache of segments (worker/edge/edge.go). Viewers ask   *)
(* for segments at the same time; a segment that is neither in cachedFiles  *)
(* nor on disk is downloaded once for all who ask (golang.org/x/sync's      *)
(* singleflight), into the file they are then served from. Every five       *)
(* minutes cleanup removes what was fetched over ten minutes ago, holding   *)
(* cacheLock; downloads, serving and os.Stat do not take it.                *)
(*                                                                         *)
(* The origin may break off, answer with an error page (the status code is  *)
(* not looked at) or stop answering: http.Get has no timeout. A segment is  *)
(* one file in one directory; the host it is asked from is no part of it.   *)
(* Playlists are proxied and VoDs are served as they are: nothing to model. *)
(***************************************************************************)
EXTENDS Naturals, FiniteSets

CONSTANTS
    Requests,   \* requests under way at a time
    Files,      \* segments
    DirOf       \* the directory of each

VARIABLES
    pc,             \* where a request is in edgeHandler and fetchFile
    file,           \* the segment it is for
    answer,         \* what it got
    disk,           \* what is in a segment's file
    dirs,           \* directories below cacheDir
    cachedFiles,    \* not listed, or listed within ten minutes or before
    cleaner,        \* where cleanup is; it holds cacheLock unless asleep
    work,           \* the files or directories it has yet to look at
    gone,           \* removed files that are still listed
    tainted,        \* for the properties: files on disk for which something failed
    swept           \* for the properties: requests whose file or directory was removed
                \* under them, or under the download they joined

requests == <<pc, file, answer>>
cleanup  == <<cleaner, work, gone>>
vars == <<requests, disk, dirs, cachedFiles, cleanup, tainted, swept>>

Dirs     == {DirOf[f] : f \in Files}
NoFile   == "no file"
Bodies   == {"segment", "page"}
Contents == Bodies \cup {"none", "part"}
Errors   == {"notFound", "noDirectory", "origin"}

\* The states of a request that runs the function given to fetchGroup.Do.
Fetching == {"stat", "get", "stalled", "create", "copy", "list"}
Active   == {r \in Requests : pc[r] \notin {"idle", "answered"}}

Fetches(r, f) == pc[r] \in Fetching /\ file[r] = f

TypeOK ==
    /\ pc \in [Requests -> Fetching \cup {"idle", "check", "join", "waiting", "serve", "answered"}]
    /\ file \in [Requests -> Files \cup {NoFile}]
    /\ answer \in [Requests -> Contents \cup Errors]
    /\ disk \in [Files -> Contents]
    /\ dirs \subseteq Dirs
    /\ \A f \in Files : disk[f] # "none" => DirOf[f] \in dirs
    /\ cachedFiles \in [Files -> {"no", "fresh", "old"}]
    /\ cleaner \in {"asleep", "removing", "walking", "sweeping"}
    /\ work \subseteq Files \cup Dirs
    /\ gone \subseteq Files
    /\ \A r \in Requests : pc[r] = "waiting" => \E q \in Requests : Fetches(q, file[r])
    /\ tainted \subseteq Files
    /\ swept \subseteq Active \cup {r \in Requests : pc[r] = "answered"}

\* prepare empties the cache directory before the server listens.
Init ==
    /\ pc = [r \in Requests |-> "idle"]
    /\ file = [r \in Requests |-> NoFile]
    /\ answer = [r \in Requests |-> "none"]
    /\ disk = [f \in Files |-> "none"]
    /\ dirs = {}
    /\ cachedFiles = [f \in Files |-> "no"]
    /\ cleaner = "asleep" /\ work = {} /\ gone = {}
    /\ tainted = {} /\ swept = {}

-----------------------------------------------------------------------------
(* A request. *)

Goto(r, l) == pc' = [pc EXCEPT ![r] = l]

Answer(r, a) ==
    /\ Goto(r, "answered")
    /\ answer' = [answer EXCEPT ![r] = a]

\* edgeHandler, for a segment.
Ask(r, f) ==
    /\ pc[r] = "idle"
    /\ Goto(r, "check")
    /\ file' = [file EXCEPT ![r] = f]
    /\ UNCHANGED <<answer, disk, dirs, cachedFiles, cleanup, tainted, swept>>

\* Fault: a file on disk is taken for cached.
CheckDisk(r) ==
    /\ pc[r] = "check"
    /\ Goto(r, IF disk[file[r]] = "none" THEN "join" ELSE "serve")
    /\ UNCHANGED <<file, answer, disk, dirs, cachedFiles, cleanup, tainted, swept>>

\* fetchFile: the look into cachedFiles, under cacheLock.
Check(r) ==
    /\ pc[r] = "check"
    /\ cleaner = "asleep"
    /\ Goto(r, IF cachedFiles[file[r]] = "no" THEN "join" ELSE "serve")
    /\ UNCHANGED <<file, answer, disk, dirs, cachedFiles, cleanup, tainted, swept>>

\* Fault: those who find a download under way do not wait for it.
JoinServes(r) ==
    /\ pc[r] = "join"
    /\ Goto(r, IF \E q \in Requests : Fetches(q, file[r]) THEN "serve" ELSE "stat")
    /\ UNCHANGED <<file, answer, disk, dirs, cachedFiles, cleanup, tainted, swept>>

\* Fault: one download at a time, of whatever segment.
JoinAny(r) ==
    /\ pc[r] = "join"
    /\ \A q \in Requests : pc[q] \notin Fetching
    /\ Goto(r, "stat")
    /\ UNCHANGED <<file, answer, disk, dirs, cachedFiles, cleanup, tainted, swept>>

\* fetchGroup.Do: the first runs the function, the others wait for its result.
Join(r) ==
    /\ pc[r] = "join"
    /\ Goto(r, IF \E q \in Requests : Fetches(q, file[r]) THEN "waiting" ELSE "stat")
    /\ swept' = IF \E q \in swept : Fetches(q, file[r]) THEN swept \cup {r} ELSE swept
    /\ UNCHANGED <<file, answer, disk, dirs, cachedFiles, cleanup, tainted>>

Flight(r) == {r} \cup {q \in Requests : pc[q] = "waiting" /\ file[q] = file[r]}

\* The function returns: fetchFile returns to all who wait with nil,
Succeed(r) ==
    /\ pc' = [q \in Requests |-> IF q \in Flight(r) THEN "serve" ELSE pc[q]]
    /\ UNCHANGED <<file, answer>>

\* Fault: those who wait are forgotten.
FailAlone(r, err) ==
    /\ Answer(r, err)
    /\ UNCHANGED file

\* or with the error, which makes it a 502.
Fail(r, err) ==
    /\ pc' = [q \in Requests |-> IF q \in Flight(r) THEN "answered" ELSE pc[q]]
    /\ answer' = [q \in Requests |-> IF q \in Flight(r) THEN err ELSE answer[q]]
    /\ UNCHANGED file

\* os.Stat: a file that exists is taken for cached, whatever is in it.
StatFinds(r) ==
    /\ pc[r] = "stat"
    /\ disk[file[r]] # "none"
    /\ Succeed(r)
    /\ UNCHANGED <<disk, dirs, cachedFiles, cleanup, tainted, swept>>

\* Else MkdirAll; nobody else creates the file.
StatMisses(r) ==
    /\ pc[r] = "stat"
    /\ disk[file[r]] = "none"
    /\ dirs' = dirs \cup {DirOf[file[r]]}
    /\ Goto(r, "get")
    /\ UNCHANGED <<file, answer, disk, cachedFiles, cleanup, tainted, swept>>

\* http.Get returns a response, whatever its status.
Get(r) ==
    /\ pc[r] = "get"
    /\ Goto(r, "create")
    /\ UNCHANGED <<file, answer, disk, dirs, cachedFiles, cleanup, tainted, swept>>

\* Fault: the entry in cachedFiles is made first.
CreateLists(r) ==
    /\ pc[r] = "create"
    /\ DirOf[file[r]] \in dirs
    /\ disk' = [disk EXCEPT ![file[r]] = "part"]
    /\ cachedFiles' = [cachedFiles EXCEPT ![file[r]] = "fresh"]
    /\ Goto(r, "copy")
    /\ UNCHANGED <<file, answer, dirs, cleanup, tainted, swept>>

\* os.Create, which empties a file that exists.
Create(r) ==
    /\ pc[r] = "create"
    /\ DirOf[file[r]] \in dirs
    /\ disk' = [disk EXCEPT ![file[r]] = "part"]
    /\ Goto(r, "copy")
    /\ UNCHANGED <<file, answer, dirs, cachedFiles, cleanup, tainted, swept>>

CreateFails(r) ==
    /\ pc[r] = "create"
    /\ DirOf[file[r]] \notin dirs
    /\ Fail(r, "noDirectory")
    /\ UNCHANGED <<disk, dirs, cachedFiles, cleanup, tainted, swept>>

\* ReadFrom has read the whole body.
Copy(r, body) ==
    /\ pc[r] = "copy"
    /\ disk' = [disk EXCEPT ![file[r]] = body]
    /\ tainted' = IF body = "page" THEN tainted \cup {file[r]} ELSE tainted
    /\ Goto(r, "list")
    /\ UNCHANGED <<file, answer, dirs, cachedFiles, cleanup, swept>>

\* The origin stops answering, before or in its response.
Stall(r) ==
    /\ pc[r] \in {"get", "copy"}
    /\ Goto(r, "stalled")
    /\ UNCHANGED <<file, answer, disk, dirs, cachedFiles, cleanup, tainted, swept>>

\* http.Get or ReadFrom fails. A file it was writing stays as it is.
FetchFails(r) ==
    /\ pc[r] \in {"get", "copy", "stalled"}
    /\ Fail(r, "origin")
    /\ tainted' = IF disk[file[r]] = "part" THEN tainted \cup {file[r]} ELSE tainted
    /\ UNCHANGED <<disk, dirs, cachedFiles, cleanup, swept>>

\* Fault: cacheLock is not taken.
ListUnlocked(r) ==
    /\ pc[r] = "list"
    /\ cachedFiles' = [cachedFiles EXCEPT ![file[r]] = "fresh"]
    /\ Succeed(r)
    /\ UNCHANGED <<disk, dirs, cleanup, tainted, swept>>

\* The entry in cachedFiles, under cacheLock.
List(r) ==
    /\ pc[r] = "list"
    /\ cleaner = "asleep"
    /\ cachedFiles' = [cachedFiles EXCEPT ![file[r]] = "fresh"]
    /\ Succeed(r)
    /\ UNCHANGED <<disk, dirs, cleanup, tainted, swept>>

\* http.ServeFile; a file that is open can be read to its end.
Serve(r) ==
    /\ pc[r] = "serve"
    /\ Answer(r, IF disk[file[r]] = "none" THEN "notFound" ELSE disk[file[r]])
    /\ UNCHANGED <<file, disk, dirs, cachedFiles, cleanup, tainted, swept>>

Leave(r) ==
    /\ pc[r] = "answered"
    /\ Goto(r, "idle")
    /\ file' = [file EXCEPT ![r] = NoFile]
    /\ answer' = [answer EXCEPT ![r] = "none"]
    /\ swept' = swept \ {r}
    /\ UNCHANGED <<disk, dirs, cachedFiles, cleanup, tainted>>

-----------------------------------------------------------------------------
(* cleanup. *)

\* Ten minutes pass.
Age(f) ==
    /\ cachedFiles[f] = "fresh"
    /\ cachedFiles' = [cachedFiles EXCEPT ![f] = "old"]
    /\ UNCHANGED <<requests, disk, dirs, cleanup, tainted, swept>>

\* It takes cacheLock and goes through cachedFiles.
Wake ==
    /\ cleaner = "asleep"
    /\ cleaner' = "removing"
    /\ work' = {f \in Files : cachedFiles[f] = "old"}
    /\ UNCHANGED <<requests, disk, dirs, cachedFiles, gone, tainted, swept>>

\* os.Remove,
Remove(f) ==
    /\ cleaner = "removing" /\ gone = {}
    /\ f \in work
    /\ disk' = [disk EXCEPT ![f] = "none"]
    /\ work' = work \ {f}
    /\ gone' = {f}
    /\ tainted' = tainted \ {f}
    /\ swept' = swept \cup {r \in Active : file[r] = f}
    /\ UNCHANGED <<requests, dirs, cachedFiles, cleaner>>

\* which may fail: that is only logged.
RemoveFails(f) ==
    /\ cleaner = "removing" /\ gone = {}
    /\ f \in work
    /\ work' = work \ {f}
    /\ gone' = {f}
    /\ tainted' = tainted \cup {f}
    /\ UNCHANGED <<requests, disk, dirs, cachedFiles, cleaner, swept>>

\* Fault: a file that was removed stays in the list.
UnlistNot(f) ==
    /\ f \in gone
    /\ gone' = {}
    /\ UNCHANGED <<requests, disk, dirs, cachedFiles, cleaner, work, tainted, swept>>

\* delete(cachedFiles, file).
Unlist(f) ==
    /\ f \in gone
    /\ cachedFiles' = [cachedFiles EXCEPT ![f] = "no"]
    /\ gone' = {}
    /\ UNCHANGED <<requests, disk, dirs, cleaner, work, tainted, swept>>

\* deleteEmptyDirs: unless cacheDir itself is empty, the walk skips it all.
Walk ==
    /\ cleaner = "removing" /\ gone = {} /\ work = {}
    /\ cleaner' = IF dirs = {} THEN "walking" ELSE "asleep"
    /\ UNCHANGED <<requests, disk, dirs, cachedFiles, work, gone, tainted, swept>>

\* removeEmptyDirs: os.ReadDir, which may see directories made meanwhile.
ReadDir ==
    /\ cleaner = "walking"
    /\ cleaner' = "sweeping"
    /\ work' = dirs
    /\ UNCHANGED <<requests, disk, dirs, cachedFiles, gone, tainted, swept>>

RemoveDir(d) ==
    /\ cleaner = "sweeping"
    /\ d \in work
    /\ \A f \in Files : DirOf[f] = d => disk[f] = "none"
    /\ dirs' = dirs \ {d}
    /\ work' = work \ {d}
    /\ swept' = swept \cup {r \in Active : DirOf[file[r]] = d}
    /\ UNCHANGED <<requests, disk, cachedFiles, cleaner, gone, tainted>>

\* It stops at the first that is not empty, or at the end, and unlocks.
Sleep ==
    /\ cleaner = "sweeping"
    /\ \/ work = {}
       \/ \E f \in Files : DirOf[f] \in work /\ disk[f] # "none"
    /\ cleaner' = "asleep"
    /\ work' = {}
    /\ UNCHANGED <<requests, disk, dirs, cachedFiles, gone, tainted, swept>>

-----------------------------------------------------------------------------
\* The process ends and starts again, with prepare; RemoveAll may leave files.
Restart ==
    /\ pc' = [r \in Requests |-> "idle"]
    /\ file' = [r \in Requests |-> NoFile]
    /\ answer' = [r \in Requests |-> "none"]
    /\ cachedFiles' = [f \in Files |-> "no"]
    /\ cleaner' = "asleep" /\ work' = {} /\ gone' = {}
    /\ swept' = {}
    /\ \E left \in SUBSET {f \in Files : disk[f] # "none"} :
          /\ disk' = [f \in Files |-> IF f \in left THEN disk[f] ELSE "none"]
          /\ dirs' = {DirOf[f] : f \in left}
          /\ tainted' = left

FetchStep(r) ==
    \/ Check(r) \/ Join(r) \/ StatFinds(r) \/ StatMisses(r) \/ Get(r) \/ Create(r)
    \/ CreateFails(r) \/ FetchFails(r) \/ List(r) \/ Serve(r)
    \/ \E body \in Bodies : Copy(r, body)

CleanupStep ==
    \/ Wake \/ Walk \/ ReadDir \/ Sleep
    \/ \E f \in Files : Remove(f) \/ RemoveFails(f) \/ Unlist(f)
    \/ \E d \in Dirs : RemoveDir(d)

Next ==
    \/ \E r \in Requests : FetchStep(r) \/ Stall(r) \/ Leave(r) \/ \E f \in Files : Ask(r, f)
    \/ \E f \in Files : Age(f)
    \/ CleanupStep
    \/ Restart

Spec == Init /\ [][Next]_vars

\* A request runs until it waits for the origin, which may stall for ever, and
\* gets cacheLock in the end: cleanup gives it back for five minutes at a time.
\* cleanup is called again and again.
Fairness ==
    /\ \A r \in Requests : SF_vars(pc[r] # "stalled" /\ FetchStep(r))
    /\ WF_vars(CleanupStep)

FairSpec == Spec /\ Fairness

-----------------------------------------------------------------------------
(* Properties. *)

\* Whoever finds a file listed finds it whole: a listed file was downloaded to
\* its end, and is on disk unless cleanup, which holds the lock, has just
\* removed it.
ListedIsWhole ==
    \A f \in Files : cachedFiles[f] # "no" => disk[f] \in Bodies \/ f \in gone

\* A segment is only missing for a request (404), or its directory (502), if
\* cleanup removed it while that request, or the download it joined, was under
\* way: requests for one segment never get into each other's way.
OnlyCleanupInterferes ==
    \A r \in Requests : answer[r] \in {"notFound", "noDirectory"} => r \in swept

\* A viewer is served part of a segment, or an error page for one, only if the
\* last download of it broke off or brought that page. That another download is
\* under way is a reason only when cleanup removed the file it had found.
ServedAsDownloaded ==
    [][\A r \in Requests : answer'[r] \in {"part", "page"} /\ answer[r] = "none"
          => file[r] \in tainted \/ r \in swept]_vars

\* Every request is answered unless the origin stalls on the very segment it
\* asks for: no stalled download keeps viewers of others waiting.
Answered ==
    \A r \in Requests : r \in Active ~>
        (r \notin Active \/ \E q \in Requests : pc[q] = "stalled" /\ file[q] = file[r])

\* Every file listed for ten minutes is taken off the list in the end,
Expires ==
    \A f \in Files : cachedFiles[f] = "old" ~> cachedFiles[f] = "no"

\* and none is forgotten that is not: a file on disk is listed, or still being
\* downloaded, unless its download, its removal or that of the whole directory
\* at a restart failed.
NothingForgotten ==
    \A f \in Files : disk[f] # "none" =>
        cachedFiles[f] # "no" \/ f \in tainted \/ \E r \in Requests : Fetches(r, f)
=============================================================================
