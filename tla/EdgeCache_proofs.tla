--------------------------- MODULE EdgeCache_proofs ---------------------------
(***************************************************************************)
(* Proofs about EdgeCache, for any requests, segments and directories: its *)
(* types, and the four safety properties of the cache. They all follow     *)
(* from one inductive invariant, CacheInv.                                 *)
(***************************************************************************)
EXTENDS EdgeCache, TLAPS

-----------------------------------------------------------------------------
(* The inductive invariant, first what is about the requests alone.         *)

RequestStates == Fetching \cup {"idle", "check", "join", "waiting", "serve", "answered"}

\* TypeOK in two parts.
RequestTypes ==
    /\ pc \in [Requests -> RequestStates]
    /\ file \in [Requests -> Files \cup {NoFile}]
    /\ answer \in [Requests -> Contents \cup Errors]
    /\ \A r \in Requests : pc[r] = "waiting" => \E q \in Requests : Fetches(q, file[r])
    /\ swept \subseteq {r \in Requests : pc[r] # "idle"}

DiskTypes ==
    /\ disk \in [Files -> Contents]
    /\ dirs \subseteq Dirs
    /\ \A f \in Files : disk[f] # "none" => DirOf[f] \in dirs
    /\ cachedFiles \in [Files -> {"no", "fresh", "old"}]
    /\ cleaner \in {"asleep", "removing", "walking", "sweeping"}
    /\ work \subseteq Files \cup Dirs
    /\ gone \subseteq Files
    /\ tainted \subseteq Files

\* A request that is under way is for a segment, has no answer yet and, if it
\* was under way when cleanup removed something, so are those who wait for it.
RequestInv ==
    \A r \in Requests :
        /\ pc[r] # "idle" => file[r] \in Files
        /\ pc[r] # "answered" => answer[r] = "none"
        /\ pc[r] = "waiting" =>
              \A q \in swept : Fetches(q, file[r]) => r \in swept

\* singleflight: a segment is fetched by one request at a time.
SingleFlight ==
    \A p, q \in Requests : \A f \in Files : Fetches(p, f) /\ Fetches(q, f) => p = q

RequestsInv == RequestTypes /\ RequestInv /\ SingleFlight

\* The states of a fetch that has seen that its segment is not there.
Missed == {"get", "stalled", "create", "copy", "list"}

\* What is on disk while a segment is fetched: only its fetch writes it, and
\* cleanup is done with it.
FetchInv ==
    \A r \in Requests :
        /\ pc[r] \in {"get", "create"} => disk[file[r]] = "none"
        /\ pc[r] = "copy" => disk[file[r]] = "part"
        /\ pc[r] = "list" => disk[file[r]] \in Bodies
        /\ pc[r] = "stalled" => disk[file[r]] \in {"none", "part"}
        /\ pc[r] \in Missed => cachedFiles[file[r]] = "no" \/ file[r] \in gone

\* cleanup works on segments that are listed and whole, one of them at a time.
CleanupInv ==
    /\ cleaner \in {"asleep", "walking"} => work = {}
    /\ cleaner = "sweeping" => work \subseteq Dirs
    /\ gone # {} => cleaner = "removing"
    /\ \A f \in gone : cachedFiles[f] = "old"
    /\ \A f, g \in gone : f = g
    /\ cleaner = "removing" => \A f \in work : f \in Files /\ cachedFiles[f] = "old" /\ f \notin gone

Writes(r, f) == Fetches(r, f) /\ pc[r] \in {"copy", "list", "stalled"}

\* What is known of a file on disk: it is listed, being written, or tainted; an
\* error page taints it.
DiskInv ==
    \A f \in Files :
        /\ disk[f] # "none" =>
              \/ cachedFiles[f] # "no" /\ f \notin gone
              \/ f \in tainted
              \/ \E r \in Requests : Writes(r, f)
        /\ disk[f] = "page" => f \in tainted

\* A request about to serve has found its file; it has lost it, or sees another
\* download of it, only through cleanup. A fetch loses its directory likewise.
ServeInv ==
    \A r \in Requests :
        /\ pc[r] = "serve" => disk[file[r]] # "none" \/ r \in swept
        /\ pc[r] = "serve" /\ disk[file[r]] = "part" => file[r] \in tainted \/ r \in swept
        /\ pc[r] \in {"get", "create"} => DirOf[file[r]] \in dirs \/ r \in swept

FilesInv == DiskTypes /\ FetchInv /\ CleanupInv /\ DiskInv /\ ListedIsWhole

CacheInv == RequestsInv /\ FilesInv /\ ServeInv /\ OnlyCleanupInterferes

LEMMA TypeParts == RequestTypes /\ DiskTypes <=> TypeOK
  BY DEF TypeOK, RequestTypes, DiskTypes, RequestStates, Active, Fetching

-----------------------------------------------------------------------------
(* RequestsInv. *)

\* A request moves alone: into no queue and out of none, and does not begin or
\* end a fetch.
LEMMA OneMoves ==
  ASSUME RequestsInv, NEW r \in Requests, NEW s \in RequestStates \ {"waiting"}, Goto(r, s),
         pc[r] # "waiting", pc[r] \in Fetching <=> s \in Fetching,
         NEW f \in Files \cup {NoFile}, file' = [file EXCEPT ![r] = f],
         s # "idle" => f \in Files, s \in Fetching => f = file[r],
         NEW a \in Contents \cup Errors, answer' = [answer EXCEPT ![r] = a],
         s # "answered" => a = "none",
         swept' = IF s = "idle" THEN swept \ {r} ELSE swept
  PROVE  RequestsInv'
<1> USE DEF RequestsInv, RequestTypes, RequestInv, SingleFlight
<1>1. /\ pc'[r] = s /\ \A q \in Requests \ {r} : pc'[q] = pc[q]
      /\ file'[r] = f /\ \A q \in Requests \ {r} : file'[q] = file[q]
      /\ answer'[r] = a /\ \A q \in Requests \ {r} : answer'[q] = answer[q]
  BY DEF Goto
<1>2. \A q \in Requests, g \in Files : (Fetches(q, g))' <=> Fetches(q, g)
  BY <1>1 DEF Fetches
<1>3. /\ pc' \in [Requests -> RequestStates]
      /\ file' \in [Requests -> Files \cup {NoFile}]
      /\ answer' \in [Requests -> Contents \cup Errors]
  BY DEF Goto
<1>4. \A w \in Requests : pc'[w] = "waiting" => w # r /\ pc[w] = "waiting" /\ file'[w] = file[w] /\ file[w] \in Files
  BY <1>1
<1>5. (\A w \in Requests : pc[w] = "waiting" => \E q \in Requests : Fetches(q, file[w]))'
  BY <1>2, <1>4
<1>6. swept' \subseteq {q \in Requests : pc'[q] # "idle"}
  BY <1>1
<1>7. RequestInv'
  BY <1>1, <1>2, <1>4, <1>6
<1> QED
  BY <1>2, <1>3, <1>5, <1>6, <1>7

\* A fetch returns, to all who wait for it.
LEMMA FlightLands ==
  ASSUME RequestsInv, NEW r \in Requests, pc[r] \in Fetching, NEW s \in {"serve", "answered"},
         pc' = [q \in Requests |-> IF q \in Flight(r) THEN s ELSE pc[q]],
         NEW a \in Contents \cup Errors, s = "serve" => a = "none",
         answer' = [q \in Requests |-> IF q \in Flight(r) THEN a ELSE answer[q]],
         UNCHANGED <<file, swept>>
  PROVE  RequestsInv'
<1> USE DEF RequestsInv, RequestTypes, RequestInv, SingleFlight
<1>1. file[r] \in Files /\ Fetches(r, file[r])
  BY DEF Fetches, Fetching
<1>2. \A q \in Requests, g \in Files : (Fetches(q, g))' <=> Fetches(q, g) /\ q # r
  BY DEF Fetches, Fetching, Flight
<1>3. /\ pc' \in [Requests -> RequestStates]
      /\ answer' \in [Requests -> Contents \cup Errors]
  BY DEF RequestStates
<1>4. \A w \in Requests : pc'[w] = "waiting" => pc[w] = "waiting" /\ file[w] \in Files /\ file[w] # file[r]
  BY DEF Flight
<1>5. (\A w \in Requests : pc[w] = "waiting" => \E q \in Requests : Fetches(q, file[w]))'
  BY <1>1, <1>2, <1>4 DEF Fetches
<1>6. swept' \subseteq {q \in Requests : pc'[q] # "idle"}
  OBVIOUS
<1>7. RequestInv'
  <2>1. \A q \in Requests : pc'[q] # "idle" => file'[q] \in Files
    BY DEF Flight, Fetching
  <2>2. \A q \in Requests : pc'[q] # "answered" => answer'[q] = "none"
    OBVIOUS
  <2>3. \A w \in Requests : pc'[w] = "waiting" =>
          \A q \in swept' : (Fetches(q, file[w]))' => w \in swept'
    BY <1>2, <1>4, <1>6
  <2> QED
    BY <2>1, <2>2, <2>3
<1> QED
  BY <1>2, <1>3, <1>5, <1>6, <1>7

LEMMA JoinRequests ==
  ASSUME RequestsInv, NEW r \in Requests, Join(r) PROVE RequestsInv'
<1> USE DEF RequestsInv, RequestTypes, RequestInv, SingleFlight
<1>1. /\ pc[r] = "join" /\ \A q \in Requests \ {r} : pc'[q] = pc[q]
      /\ UNCHANGED <<file, answer>> /\ file[r] \in Files
  BY DEF Join, Goto
<1>2. CASE \E q \in Requests : Fetches(q, file[r])
  <2>1. pc'[r] = "waiting" /\ pc' \in [Requests -> RequestStates]
    BY <1>2 DEF Join, Goto, RequestStates
  <2>2. \A q \in Requests : \A g : (Fetches(q, g))' <=> Fetches(q, g)
    BY <1>1, <2>1 DEF Fetches, Fetching
  <2>3. swept \subseteq swept' /\ swept' \subseteq swept \cup {r}
        /\ \A q \in swept : Fetches(q, file[r]) => r \in swept'
    BY DEF Join
  <2>4. ~Fetches(r, file[r])
    BY <1>1 DEF Fetches, Fetching
  <2>5. RequestTypes'
    BY <1>1, <1>2, <2>1, <2>2, <2>3
  <2>6. \A w \in Requests : pc'[w] = "waiting" =>
          \A q \in swept' : (Fetches(q, file[w]))' => w \in swept'
    <3> SUFFICES ASSUME NEW w \in Requests, pc'[w] = "waiting", NEW q \in swept', Fetches(q, file[w])
                 PROVE  w \in swept'
      BY <1>1, <2>2, <2>5
    <3>1. q # r
      BY <1>1 DEF Fetches, Fetching
    <3> QED
      BY <1>1, <2>3, <3>1
  <2>7. RequestInv'
    BY <1>1, <2>1, <2>6
  <2> QED
    BY <2>2, <2>5, <2>7
<1>3. CASE ~\E q \in Requests : Fetches(q, file[r])
  <2>1. pc'[r] = "stat" /\ pc' \in [Requests -> RequestStates]
    BY <1>3 DEF Join, Goto, RequestStates, Fetching
  <2>2. \A q \in Requests : \A g : (Fetches(q, g))' <=> Fetches(q, g) \/ (q = r /\ g = file[r])
    BY <1>1, <2>1 DEF Fetches, Fetching
  <2>3. swept' = swept
    BY <1>3 DEF Join
  <2>4. \A w \in Requests : pc'[w] = "waiting" => pc[w] = "waiting" /\ file[w] # file[r]
    BY <1>1, <1>3, <2>1
  <2>5. RequestTypes'
    BY <1>1, <2>1, <2>2, <2>3, <2>4
  <2>6. RequestInv'
    BY <1>1, <2>1, <2>2, <2>3, <2>4, <2>5
  <2> QED
    BY <1>3, <2>2, <2>5, <2>6
<1> QED
  BY <1>2, <1>3

\* cleanup takes the files in X, or their directory.
LEMMA SweepRequests ==
  ASSUME RequestsInv, UNCHANGED requests, NEW X,
         swept' = swept \cup {r \in Active : file[r] \in X}
  PROVE  RequestsInv'
BY DEF RequestsInv, RequestTypes, RequestInv, SingleFlight, Active, requests, Fetches, Fetching

LEMMA RequestsStay ==
  ASSUME RequestsInv, UNCHANGED <<requests, swept>> PROVE RequestsInv'
BY DEF RequestsInv, RequestTypes, RequestInv, SingleFlight, requests, Fetches

LEMMA RestartRequests == ASSUME Restart PROVE RequestsInv'
BY DEF Restart, RequestsInv, RequestTypes, RequestInv, SingleFlight, Fetches, Fetching, RequestStates,
       Contents

-----------------------------------------------------------------------------
(* FilesInv. *)

filesVars == <<disk, dirs, cachedFiles, cleanup, tainted>>

\* A step that is no part of a fetch that has missed leaves the files alone.
LEMMA FilesStay ==
  ASSUME FilesInv, UNCHANGED filesVars,
         \A q \in Requests : \/ pc'[q] = pc[q] /\ file'[q] = file[q]
                             \/ pc[q] \notin Missed /\ pc'[q] \notin Missed
  PROVE  FilesInv'
<1> USE DEF filesVars, cleanup, Missed
<1>1. \A q \in Requests, f \in Files : (Writes(q, f))' <=> Writes(q, f)
  BY DEF Writes, Fetches, Fetching
<1>2. DiskTypes' /\ CleanupInv' /\ ListedIsWhole'
  BY DEF FilesInv, DiskTypes, CleanupInv, ListedIsWhole
<1>3. DiskInv'
  BY <1>1 DEF FilesInv, DiskInv
<1>4. FetchInv'
  BY DEF FilesInv, FetchInv
<1> QED
  BY <1>2, <1>3, <1>4 DEF FilesInv

\* A fetch moves on from one state to another and touches its own file, at most.
LEMMA FetchMoves ==
  ASSUME RequestsInv, FilesInv, NEW r \in Requests, NEW s \in Missed, Goto(r, s), UNCHANGED <<file, cachedFiles, cleanup>>,
         \/ pc[r] = "stat" /\ s = "get" /\ disk[file[r]] = "none" /\ UNCHANGED <<disk, tainted>>
            /\ dirs' = dirs \cup {DirOf[file[r]]}
         \/ pc[r] = "get" /\ s \in {"create", "stalled"} /\ UNCHANGED <<disk, dirs, tainted>>
         \/ pc[r] = "copy" /\ s = "stalled" /\ UNCHANGED <<disk, dirs, tainted>>
         \/ pc[r] = "create" /\ s = "copy" /\ disk' = [disk EXCEPT ![file[r]] = "part"]
            /\ DirOf[file[r]] \in dirs /\ UNCHANGED <<dirs, tainted>>
         \/ pc[r] = "copy" /\ s = "list" /\ UNCHANGED dirs
            /\ \E body \in Bodies :
                  /\ disk' = [disk EXCEPT ![file[r]] = body]
                  /\ tainted' = IF body = "page" THEN tainted \cup {file[r]} ELSE tainted
  PROVE  FilesInv'
<1> DEFINE f == file[r]
<1>1. /\ f \in Files /\ Fetches(r, f) /\ (Fetches(r, f))' /\ pc'[r] = s
      /\ \A q \in Requests \ {r} : pc'[q] = pc[q] /\ ~Fetches(q, f)
  BY DEF RequestsInv, RequestTypes, RequestInv, SingleFlight, Goto, Fetches, Fetching, Missed
<1>2. \A q \in Requests \ {r} : pc[q] \in Missed => file[q] # f
  BY <1>1 DEF Fetches, Fetching, Missed
<1>3. \A g \in Files \ {f} : disk'[g] = disk[g] /\ (g \in tainted' <=> g \in tainted)
  BY DEF FilesInv, DiskTypes
<1>4. \A g \in Files \ {f}, q \in Requests : (Writes(q, g))' <=> Writes(q, g)
  BY <1>1 DEF Writes, Fetches
<1>5. DiskTypes'
  BY <1>1, <1>3 DEF FilesInv, DiskTypes, FetchInv, Dirs, Contents, Bodies, cleanup
<1>6. cachedFiles[f] = "no" \/ f \in gone
  <2>1. CASE pc[r] \in Missed
    BY <2>1 DEF FilesInv, FetchInv
  <2>2. CASE pc[r] = "stat" /\ disk[f] = "none"
    BY <1>1, <2>2 DEF FilesInv, ListedIsWhole, Bodies
  <2> QED
    BY <2>1, <2>2 DEF Missed
<1>7. ListedIsWhole'
  BY <1>1, <1>3, <1>6 DEF FilesInv, ListedIsWhole, cleanup
<1>8. CleanupInv'
  BY DEF FilesInv, CleanupInv, cleanup
<1>9. /\ s \in {"get", "create"} => disk'[f] = "none"
      /\ s = "copy" => disk'[f] = "part"
      /\ s = "list" => disk'[f] \in Bodies
      /\ s = "stalled" => disk'[f] \in {"none", "part"}
  BY <1>1 DEF FilesInv, FetchInv, DiskTypes
<1>10. FetchInv'
  <2>1. \A q \in Requests \ {r} : pc'[q] \in Missed => disk'[file[q]] = disk[file[q]]
    BY <1>1, <1>2, <1>3 DEF RequestsInv, RequestInv, Missed
  <2> QED
    BY <1>1, <1>6, <1>9, <2>1 DEF FilesInv, FetchInv, Missed, cleanup
<1>11. DiskInv'
  <2>1. disk'[f] # "none" => (Writes(r, f))'
    BY <1>1, <1>9 DEF Writes, Missed
  <2>2. disk'[f] = "page" => f \in tainted'
    BY <1>1 DEF FilesInv, FetchInv, DiskTypes, DiskInv
  <2> QED
    BY <1>1, <1>3, <1>4, <2>1, <2>2 DEF FilesInv, DiskInv, cleanup
<1> QED
  BY <1>5, <1>7, <1>8, <1>10, <1>11 DEF FilesInv

\* A fetch that has missed its file ends: it lists the file, or fails.
LEMMA FetchEnds ==
  ASSUME RequestsInv, FilesInv, NEW r \in Requests, pc[r] \in Missed, NEW s \in {"serve", "answered"},
         pc' = [q \in Requests |-> IF q \in Flight(r) THEN s ELSE pc[q]],
         UNCHANGED <<file, disk, dirs, cleanup>>,
         \/ /\ pc[r] = "list" /\ cleaner = "asleep"
            /\ cachedFiles' = [cachedFiles EXCEPT ![file[r]] = "fresh"] /\ UNCHANGED tainted
         \/ /\ pc[r] # "list" /\ UNCHANGED cachedFiles
            /\ tainted' = IF disk[file[r]] = "part" THEN tainted \cup {file[r]} ELSE tainted
  PROVE  FilesInv'
<1> DEFINE f == file[r]
<1>1. /\ f \in Files /\ Fetches(r, f) /\ pc'[r] = s
      /\ \A q \in Requests \ {r} : ~Fetches(q, f)
      /\ \A q \in Requests \ {r} : pc[q] \in Fetching => pc'[q] = pc[q]
      /\ \A q \in Requests : pc'[q] \in Missed => q # r /\ pc[q] = pc'[q] /\ file[q] # f /\ file[q] \in Files
  BY DEF RequestsInv, RequestTypes, RequestInv, SingleFlight, Flight, Fetches, Fetching, Missed
<1>2. cleanup' = cleanup /\ cleaner' = cleaner /\ work' = work /\ gone' = gone
  BY DEF cleanup
<1>3. \A g \in Files \ {f} : /\ cachedFiles'[g] = cachedFiles[g] /\ (g \in tainted' <=> g \in tainted)
                            /\ \A q \in Requests : (Writes(q, g))' <=> Writes(q, g)
  <2>1. \A g \in Files \ {f} : \A q \in Requests : (Writes(q, g))' <=> Writes(q, g)
    BY <1>1 DEF Writes, Fetches, Fetching, Missed
  <2>2. \A g \in Files \ {f} : cachedFiles'[g] = cachedFiles[g] /\ (g \in tainted' <=> g \in tainted)
    BY DEF FilesInv, DiskTypes
  <2> QED
    BY <2>1, <2>2
<1>4. DiskTypes'
  BY <1>1, <1>2 DEF FilesInv, DiskTypes
<1>5. pc[r] = "list" => gone = {} /\ work = {}
  BY DEF FilesInv, CleanupInv
<1>6. CleanupInv'
  BY <1>1, <1>2, <1>5 DEF FilesInv, CleanupInv
<1>7. FetchInv'
  BY <1>1, <1>2, <1>3 DEF FilesInv, FetchInv, Missed
<1>8. pc[r] = "list" => disk[f] \in Bodies
  BY DEF FilesInv, FetchInv
<1>9. ListedIsWhole'
  BY <1>1, <1>2, <1>3, <1>8 DEF FilesInv, ListedIsWhole
<1>10. DiskInv'
  <2>1. disk[f] # "none" => (cachedFiles'[f] # "no" /\ f \notin gone) \/ f \in tainted'
    BY <1>1, <1>5 DEF FilesInv, FetchInv, DiskTypes, Missed
  <2>2. tainted \subseteq tainted'
    OBVIOUS
  <2> QED
    BY <1>1, <1>2, <1>3, <2>1, <2>2 DEF FilesInv, DiskInv
<1> QED
  BY <1>4, <1>6, <1>7, <1>9, <1>10 DEF FilesInv

\* cleanup and time.
CleansUp ==
    \/ Wake \/ Walk \/ ReadDir \/ Sleep
    \/ \E f \in Files : Age(f) \/ Remove(f) \/ RemoveFails(f) \/ Unlist(f)
    \/ \E d \in Dirs : RemoveDir(d)

LEMMA CleanupFiles ==
  ASSUME RequestsInv, FilesInv, CleansUp PROVE FilesInv'
<1> USE DEF cleanup
<1>1. UNCHANGED requests
  BY DEF CleansUp, Wake, Walk, ReadDir, Sleep, Age, Remove, RemoveFails, Unlist, RemoveDir
<1>2. \A q \in Requests, f \in Files : (Writes(q, f))' <=> Writes(q, f)
  BY <1>1 DEF Writes, Fetches, requests
<1>3. /\ UNCHANGED <<pc, file>>
      /\ \A q \in Requests : pc[q] \in Missed => file[q] \in Files
  BY <1>1 DEF RequestsInv, RequestInv, Missed, requests
<1>4. CASE Wake \/ Walk \/ ReadDir \/ Sleep
  <2>1. UNCHANGED <<disk, cachedFiles, gone, tainted>>
    BY <1>4 DEF Wake, Walk, ReadDir, Sleep
  <2>2. DiskTypes' /\ CleanupInv' /\ ListedIsWhole'
    BY <1>4 DEF Wake, Walk, ReadDir, Sleep, FilesInv, DiskTypes, CleanupInv, ListedIsWhole
  <2>3. FetchInv' /\ DiskInv'
    BY <1>2, <1>3, <2>1 DEF FilesInv, FetchInv, DiskInv
  <2> QED
    BY <2>2, <2>3 DEF FilesInv
<1>5. ASSUME NEW f \in Files, Age(f) PROVE FilesInv'
  <2>1. /\ UNCHANGED <<disk, dirs, cleanup, tainted>>
        /\ cachedFiles' \in [Files -> {"no", "fresh", "old"}]
        /\ \A g \in Files : /\ cachedFiles'[g] = "no" <=> cachedFiles[g] = "no"
                            /\ cachedFiles[g] = "old" => cachedFiles'[g] = "old"
    BY <1>5 DEF Age, FilesInv, DiskTypes
  <2>2. DiskTypes' /\ CleanupInv' /\ ListedIsWhole'
    BY <2>1 DEF FilesInv, DiskTypes, CleanupInv, ListedIsWhole
  <2>3. FetchInv'
    BY <1>3, <2>1 DEF FilesInv, FetchInv, Missed
  <2>4. DiskInv'
    BY <1>2, <2>1 DEF FilesInv, DiskInv
  <2> QED
    BY <2>2, <2>3, <2>4 DEF FilesInv
<1>6. ASSUME NEW f \in Files, Remove(f) \/ RemoveFails(f) PROVE FilesInv'
  <2>1. /\ cachedFiles[f] = "old" /\ gone = {} /\ gone' = {f} /\ work' = work \ {f}
        /\ cleaner = "removing" /\ UNCHANGED <<dirs, cachedFiles, cleaner>>
        /\ disk'[f] = "none" \/ UNCHANGED disk
        /\ \A g \in Files \ {f} : disk'[g] = disk[g] /\ (g \in tainted' <=> g \in tainted)
        /\ disk' \in [Files -> Contents] /\ tainted' \subseteq Files
        /\ disk'[f] # "none" => f \in tainted'
    BY <1>6 DEF Remove, RemoveFails, FilesInv, DiskTypes, CleanupInv, Contents
  <2>2. DiskTypes' /\ CleanupInv' /\ ListedIsWhole'
    BY <2>1 DEF FilesInv, DiskTypes, CleanupInv, ListedIsWhole
  <2>3. \A q \in Requests : pc[q] \in Missed => file[q] # f
    BY <2>1 DEF FilesInv, FetchInv
  <2>4. FetchInv'
    <3>1. \A q \in Requests : pc[q] \in Missed =>
             disk'[file[q]] = disk[file[q]] /\ cachedFiles'[file[q]] = "no"
      BY <1>3, <2>1, <2>3 DEF FilesInv, FetchInv
    <3> QED
      BY <1>3, <3>1 DEF FilesInv, FetchInv, Missed
  <2>5. DiskInv'
    BY <1>2, <2>1 DEF FilesInv, DiskInv
  <2> QED
    BY <2>2, <2>4, <2>5 DEF FilesInv
<1>7. ASSUME NEW f \in Files, Unlist(f) PROVE FilesInv'
  <2>1. /\ f \in gone /\ \A g \in gone : g = f
        /\ cachedFiles' \in [Files -> {"no", "fresh", "old"}] /\ cachedFiles'[f] = "no"
        /\ \A g \in Files \ {f} : cachedFiles'[g] = cachedFiles[g]
        /\ UNCHANGED <<disk, dirs, cleaner, work, tainted>> /\ gone' = {}
    BY <1>7 DEF Unlist, FilesInv, DiskTypes, CleanupInv
  <2>2. DiskTypes' /\ CleanupInv'
    BY <2>1 DEF FilesInv, DiskTypes, CleanupInv
  <2>3. ListedIsWhole'
    BY <2>1 DEF FilesInv, ListedIsWhole
  <2>4. FetchInv'
    BY <1>3, <2>1 DEF FilesInv, FetchInv, Missed
  <2>5. DiskInv'
    BY <1>2, <2>1 DEF FilesInv, DiskInv
  <2> QED
    BY <2>2, <2>3, <2>4, <2>5 DEF FilesInv
<1>8. ASSUME NEW d \in Dirs, RemoveDir(d) PROVE FilesInv'
  <2>1. UNCHANGED <<disk, cachedFiles, gone, tainted>>
    BY <1>8 DEF RemoveDir
  <2>2. DiskTypes' /\ CleanupInv' /\ ListedIsWhole'
    BY <1>8 DEF RemoveDir, FilesInv, DiskTypes, CleanupInv, ListedIsWhole
  <2>3. FetchInv' /\ DiskInv'
    BY <1>2, <1>3, <2>1 DEF FilesInv, FetchInv, DiskInv
  <2> QED
    BY <2>2, <2>3 DEF FilesInv
<1> QED
  BY <1>4, <1>5, <1>6, <1>7, <1>8 DEF CleansUp

LEMMA RestartFiles == ASSUME FilesInv, Restart PROVE FilesInv'
<1>1. PICK left \in SUBSET {f \in Files : disk[f] # "none"} :
          /\ disk' = [f \in Files |-> IF f \in left THEN disk[f] ELSE "none"]
          /\ dirs' = {DirOf[f] : f \in left}
          /\ tainted' = left
  BY DEF Restart
<1>2. DiskTypes'
  BY <1>1 DEF Restart, FilesInv, DiskTypes, Dirs, Contents
<1>3. CleanupInv' /\ FetchInv' /\ ListedIsWhole'
  BY DEF Restart, CleanupInv, FetchInv, ListedIsWhole, Missed
<1>4. DiskInv'
  BY <1>1 DEF DiskInv
<1> QED
  BY <1>2, <1>3, <1>4 DEF FilesInv

-----------------------------------------------------------------------------
(* The steps of a request.                                                  *)

LEMMA SimpleStep ==
  ASSUME CacheInv, NEW r \in Requests, NEW f \in Files,
         Ask(r, f) \/ Check(r) \/ Serve(r) \/ Leave(r)
  PROVE  CacheInv'
<1> USE DEF CacheInv
<1>1. RequestsInv'
  <2>1. file = [file EXCEPT ![r] = file[r]] /\ answer = [answer EXCEPT ![r] = answer[r]]
    BY DEF RequestsInv, RequestTypes
  <2>2. \A s \in {"idle", "check", "join", "serve", "answered"} :
           s \in RequestStates \ {"waiting"} /\ s \notin Fetching
    BY DEF RequestStates, Fetching
  <2>3. "none" \in Contents \cup Errors
    BY DEF Contents
  <2>4. CASE Ask(r, f)
    <3>1. /\ Goto(r, "check") /\ pc[r] = "idle" /\ file' = [file EXCEPT ![r] = f]
          /\ UNCHANGED <<answer, swept>> /\ answer[r] = "none"
      BY <2>4 DEF Ask, RequestsInv, RequestInv
    <3>2. answer' = [answer EXCEPT ![r] = "none"]
      BY <2>1, <3>1
    <3> QED
      BY <2>2, <2>3, <3>1, <3>2, OneMoves
  <2>5. CASE Check(r)
    <3>1. PICK s \in {"join", "serve"} : Goto(r, s)
      BY <2>5 DEF Check
    <3>2. pc[r] = "check" /\ UNCHANGED <<file, answer, swept>> /\ answer[r] = "none" /\ file[r] \in Files
      BY <2>5 DEF Check, RequestsInv, RequestInv
    <3>3. answer' = [answer EXCEPT ![r] = "none"] /\ file' = [file EXCEPT ![r] = file[r]]
      BY <2>1, <3>2
    <3> QED
      BY <2>2, <2>3, <3>1, <3>2, <3>3, OneMoves
  <2>6. CASE Serve(r)
    <3>1. PICK c \in Contents \cup Errors : answer' = [answer EXCEPT ![r] = c]
      BY <2>6 DEF Serve, Answer, FilesInv, DiskTypes, RequestsInv, RequestInv, Contents, Errors
    <3>2. Goto(r, "answered") /\ pc[r] = "serve" /\ UNCHANGED <<file, swept>> /\ file[r] \in Files
      BY <2>6 DEF Serve, Answer, RequestsInv, RequestInv
    <3>3. file' = [file EXCEPT ![r] = file[r]]
      BY <2>1, <3>2
    <3> QED
      BY <2>2, <3>1, <3>2, <3>3, OneMoves
  <2>7. CASE Leave(r)
    BY <2>2, <2>3, <2>7, OneMoves DEF Leave
  <2> QED
    BY <2>4, <2>5, <2>6, <2>7
<1>2. /\ \A q \in Requests \ {r} : pc'[q] = pc[q] /\ file'[q] = file[q]
      /\ pc[r] \notin Missed /\ pc'[r] \notin Missed
      /\ UNCHANGED filesVars
  BY DEF Ask, Check, Serve, Leave, Answer, Goto, Missed, filesVars, RequestsInv, RequestTypes
<1>3. FilesInv'
  BY <1>2, FilesStay
<1>4. \A q \in Requests \ {r} : answer'[q] = answer[q] /\ (q \in swept' <=> q \in swept)
  BY DEF Ask, Check, Serve, Leave, Answer, RequestsInv, RequestTypes
<1>5. ServeInv'
  <2>1. pc'[r] = "serve" => disk'[file'[r]] \in Bodies /\ file'[r] = file[r]
    BY DEF Ask, Check, Serve, Leave, Answer, Goto, FilesInv, ListedIsWhole, CleanupInv,
         RequestsInv, RequestTypes, RequestInv
  <2>2. pc'[r] \notin {"get", "create"}
    BY <1>2 DEF Missed
  <2> QED
    BY <1>2, <1>4, <2>1, <2>2 DEF ServeInv, filesVars, Bodies
<1>6. OnlyCleanupInterferes'
  <2>1. CASE Serve(r)
    <3>1. disk[file[r]] \in Contents /\ answer'[r] = IF disk[file[r]] = "none" THEN "notFound" ELSE disk[file[r]]
      BY <2>1 DEF Serve, Answer, FilesInv, DiskTypes, RequestsInv, RequestTypes, RequestInv
    <3> QED
      BY <1>4, <2>1, <3>1 DEF Serve, ServeInv, OnlyCleanupInterferes, Contents, Bodies
  <2>2. CASE Ask(r, f) \/ Check(r) \/ Leave(r)
    <3>1. answer'[r] = "none"
      BY <2>2 DEF Ask, Check, Leave, RequestsInv, RequestTypes, RequestInv
    <3> QED
      BY <1>4, <3>1 DEF OnlyCleanupInterferes
  <2> QED
    BY <2>1, <2>2
<1> QED
  BY <1>1, <1>3, <1>5, <1>6

LEMMA JoinStep == ASSUME CacheInv, NEW r \in Requests, Join(r) PROVE CacheInv'
<1> USE DEF CacheInv
<1>1. RequestsInv'
  BY JoinRequests
<1>2. /\ \A q \in Requests \ {r} : pc'[q] = pc[q]
      /\ pc[r] = "join" /\ pc'[r] \in {"waiting", "stat"}
      /\ UNCHANGED filesVars /\ UNCHANGED <<file, answer>> /\ swept \subseteq swept'
  BY DEF Join, Goto, filesVars, RequestsInv, RequestTypes
<1>3. FilesInv'
  BY <1>2, FilesStay DEF Missed
<1>4. ServeInv' /\ OnlyCleanupInterferes'
  BY <1>2 DEF ServeInv, OnlyCleanupInterferes, filesVars
<1> QED
  BY <1>1, <1>3, <1>4

LEMMA FetchStepMoves ==
  ASSUME CacheInv, NEW r \in Requests,
         \/ StatMisses(r) \/ Get(r) \/ Create(r) \/ Stall(r)
         \/ \E body \in Bodies : Copy(r, body)
  PROVE  CacheInv'
<1> USE DEF CacheInv
<1>1. PICK s \in Missed : Goto(r, s)
  BY DEF StatMisses, Get, Create, Stall, Copy, Missed
<1>2. /\ pc[r] \in {"stat", "get", "create", "copy"} /\ pc[r] # s
      /\ UNCHANGED <<file, answer, cachedFiles, cleanup, swept>>
  BY <1>1 DEF StatMisses, Get, Create, Stall, Copy, RequestsInv, RequestTypes, Goto
<1>3. pc' = [pc EXCEPT ![r] = s] /\ pc'[r] = s /\ \A q \in Requests \ {r} : pc'[q] = pc[q]
  BY <1>1 DEF Goto, RequestsInv, RequestTypes
<1>4. file[r] \in Files /\ answer[r] = "none"
  BY <1>2 DEF RequestsInv, RequestInv
<1>5. RequestsInv'
  <2>1. file = [file EXCEPT ![r] = file[r]] /\ answer = [answer EXCEPT ![r] = "none"]
    BY <1>4 DEF RequestsInv, RequestTypes
  <2>2. s \in RequestStates \ {"waiting"} /\ s \in Fetching /\ pc[r] \in Fetching /\ s \notin {"idle", "answered"}
        /\ pc[r] # "waiting"
    BY <1>1, <1>2 DEF Missed, RequestStates, Fetching
  <2>3. "none" \in Contents \cup Errors
    BY DEF Contents
  <2> QED
    BY <1>1, <1>2, <1>4, <2>1, <2>2, <2>3, OneMoves
<1>6. FilesInv'
  <2>1. CASE StatMisses(r)
    BY <1>2, <2>1, FetchMoves DEF StatMisses, Missed
  <2>2. CASE Get(r)
    BY <1>2, <2>2, FetchMoves DEF Get, Missed
  <2>3. CASE Create(r)
    BY <1>2, <2>3, FetchMoves DEF Create, Missed
  <2>4. CASE Stall(r)
    BY <1>2, <2>4, FetchMoves DEF Stall, Missed
  <2>5. CASE \E body \in Bodies : Copy(r, body)
    BY <1>2, <2>5, FetchMoves DEF Copy, Missed
  <2> QED
    BY <2>1, <2>2, <2>3, <2>4, <2>5
<1>7. OnlyCleanupInterferes'
  BY <1>2 DEF OnlyCleanupInterferes
<1>8. ServeInv'
  <2>1. ASSUME NEW q \in Requests, pc'[q] = "serve"
        PROVE  /\ disk'[file[q]] # "none" \/ q \in swept
               /\ disk'[file[q]] = "part" => file[q] \in tainted' \/ q \in swept
    <3>1. pc[q] = "serve" /\ file[q] \in Files /\ q # r
      BY <1>1, <1>3, <2>1 DEF RequestsInv, RequestInv, Missed
    <3>2. tainted \subseteq tainted'
      BY DEF StatMisses, Get, Create, Stall, Copy
    <3>3. CASE Create(r) /\ file[q] = file[r]
      <4>1. disk[file[q]] = "none"
        BY <3>3 DEF Create, FilesInv, FetchInv
      <4> QED
        BY <3>1, <4>1 DEF ServeInv
    <3>4. CASE file[q] # file[r] \/ UNCHANGED disk
      <4>1. disk'[file[q]] = disk[file[q]]
        BY <3>1, <3>4 DEF StatMisses, Get, Create, Stall, Copy, FilesInv, DiskTypes
      <4> QED
        BY <3>1, <3>2, <4>1 DEF ServeInv
    <3>5. CASE \E body \in Bodies : Copy(r, body)
      <4>1. disk'[file[r]] \in Bodies
        BY <1>4, <3>5 DEF Copy, FilesInv, DiskTypes
      <4> QED
        BY <3>4, <4>1 DEF Bodies
    <3> QED
      BY <3>3, <3>4, <3>5 DEF StatMisses, Get, Create, Stall
  <2>2. ASSUME NEW q \in Requests, pc'[q] \in {"get", "create"}
        PROVE  DirOf[file[q]] \in dirs' \/ q \in swept
    <3>1. dirs \subseteq dirs'
      BY DEF StatMisses, Get, Create, Stall, Copy
    <3>2. CASE q # r
      BY <1>3, <2>2, <3>1, <3>2 DEF ServeInv
    <3>3. CASE q = r
      BY <1>3, <2>2, <3>1, <3>3 DEF ServeInv, StatMisses, Get, Create, Stall, Copy, RequestsInv, RequestTypes, Goto
    <3> QED
      BY <3>2, <3>3
  <2> QED
    BY <1>2, <2>1, <2>2 DEF ServeInv
<1> QED
  BY <1>5, <1>6, <1>7, <1>8

\* The fetch and those who wait for it are served or answered alike.
LEMMA LandingStep ==
  ASSUME CacheInv, NEW r \in Requests,
         StatFinds(r) \/ List(r) \/ CreateFails(r) \/ FetchFails(r)
  PROVE  CacheInv'
<1> USE DEF CacheInv
<1> DEFINE f == file[r]
<1>1. /\ pc[r] \in Fetching /\ f \in Files
      /\ UNCHANGED <<file, disk, dirs, cleanup, swept>> /\ tainted \subseteq tainted'
      /\ \A q \in Flight(r) : q \in Requests /\ file[q] = f
  BY DEF StatFinds, List, CreateFails, FetchFails, Succeed, Fail, Fetching, RequestsInv, RequestInv, Flight
<1>2. \A q \in Requests : pc'[q] = "serve" => q \in Flight(r) \/ pc[q] = "serve"
  BY DEF StatFinds, List, CreateFails, FetchFails, Succeed, Fail
<1>3. \A q \in Requests : pc'[q] \in {"get", "create"} => pc[q] = pc'[q]
  BY DEF StatFinds, List, CreateFails, FetchFails, Succeed, Fail
<1>4. CASE StatFinds(r) \/ List(r)
  <2>1. /\ pc' = [q \in Requests |-> IF q \in Flight(r) THEN "serve" ELSE pc[q]]
        /\ UNCHANGED answer
    BY <1>4 DEF StatFinds, List, Succeed
  <2>2. \A q \in Flight(r) : answer[q] = "none"
    BY <1>1 DEF Flight, RequestsInv, RequestInv, Fetching
  <2>3. answer' = [q \in Requests |-> IF q \in Flight(r) THEN "none" ELSE answer[q]]
    BY <2>1, <2>2 DEF RequestsInv, RequestTypes
  <2>4. RequestsInv'
    BY <1>1, <2>1, <2>3, FlightLands DEF Contents
  <2>5. CASE StatFinds(r)
    <3>1. disk[f] # "none" /\ UNCHANGED filesVars /\ pc[r] = "stat"
      BY <2>5 DEF StatFinds, filesVars
    <3>2. \A q \in Requests : pc[q] = pc'[q] \/ (pc[q] \notin Missed /\ pc'[q] \notin Missed)
      BY <2>1, <3>1 DEF Flight, Missed
    <3>3. FilesInv'
      BY <1>1, <3>1, <3>2, FilesStay
    <3>4. disk[f] = "part" => f \in tainted
      <4>1. ~\E q \in Requests : Writes(q, f)
        BY <1>1, <3>1 DEF Writes, Fetches, Fetching, RequestsInv, SingleFlight
      <4> QED
        BY <1>1, <4>1 DEF FilesInv, DiskInv, ListedIsWhole, Bodies
    <3>5. ServeInv'
      BY <1>1, <1>2, <1>3, <3>1, <3>4 DEF ServeInv
    <3> QED
      BY <1>1, <2>1, <2>4, <3>3, <3>5 DEF OnlyCleanupInterferes
  <2>6. CASE List(r)
    <3>1. disk[f] \in Bodies /\ pc[r] = "list"
      BY <2>6 DEF List, FilesInv, FetchInv
    <3>2. FilesInv'
      BY <1>1, <2>1, <2>6, <3>1, FetchEnds DEF List, Missed
    <3>3. ServeInv'
      BY <1>1, <1>2, <1>3, <3>1 DEF ServeInv, Bodies
    <3> QED
      BY <1>1, <2>1, <2>4, <3>2, <3>3 DEF OnlyCleanupInterferes
  <2> QED
    BY <1>4, <2>5, <2>6
<1>5. CASE CreateFails(r) \/ FetchFails(r)
  <2>1. PICK err \in Errors : Fail(r, err) /\ (err = "noDirectory" => CreateFails(r)) /\ err # "notFound"
    BY <1>5 DEF CreateFails, FetchFails, Errors
  <2>2. /\ pc' = [q \in Requests |-> IF q \in Flight(r) THEN "answered" ELSE pc[q]]
        /\ answer' = [q \in Requests |-> IF q \in Flight(r) THEN err ELSE answer[q]]
    BY <2>1 DEF Fail
  <2>3. RequestsInv'
    BY <1>1, <2>2, FlightLands
  <2>4. FilesInv'
    <3>1. CASE CreateFails(r)
      <4>1. pc[r] = "create" /\ disk[f] = "none" /\ UNCHANGED <<cachedFiles, tainted>>
        BY <3>1 DEF CreateFails, FilesInv, FetchInv
      <4> QED
        BY <1>1, <2>2, <4>1, FetchEnds DEF Missed
    <3>2. CASE FetchFails(r)
      BY <1>1, <2>2, <3>2, FetchEnds DEF FetchFails, Missed
    <3> QED
      BY <1>5, <3>1, <3>2
  <2>5. ServeInv'
    BY <1>1, <1>2, <1>3, <2>2 DEF ServeInv
  <2>6. ASSUME CreateFails(r), NEW q \in Flight(r) PROVE q \in swept
    <3>1. r \in swept /\ Fetches(r, f)
      BY <1>1, <2>6 DEF CreateFails, ServeInv, Fetches
    <3> QED
      BY <1>1, <3>1 DEF Flight, RequestsInv, RequestInv
  <2>7. OnlyCleanupInterferes'
    BY <1>1, <2>1, <2>2, <2>6 DEF OnlyCleanupInterferes
  <2> QED
    BY <2>3, <2>4, <2>5, <2>7
<1> QED
  BY <1>4, <1>5

-----------------------------------------------------------------------------
(* The steps of cleanup, and the restart.                                   *)

LEMMA CleanupStepInv == ASSUME CacheInv, CleansUp PROVE CacheInv'
<1> USE DEF CacheInv
<1>1. FilesInv'
  BY CleanupFiles
<1>2. UNCHANGED requests /\ UNCHANGED <<pc, file, answer>>
  BY DEF CleansUp, Wake, Walk, ReadDir, Sleep, Age, Remove, RemoveFails, Unlist, RemoveDir, requests
<1>3. \A q \in Requests : pc[q] \in {"serve", "get", "create"} => q \in Active /\ file[q] \in Files
  BY DEF Active, RequestsInv, RequestInv
<1>4. ASSUME NEW f \in Files, Remove(f) PROVE CacheInv'
  <2>1. swept' = swept \cup {q \in Active : file[q] \in {f}}
    BY <1>4 DEF Remove
  <2>2. RequestsInv'
    BY <1>2, <2>1, SweepRequests
  <2>3. \A g \in Files \ {f} : disk'[g] = disk[g] /\ (g \in tainted' <=> g \in tainted)
    BY <1>4 DEF Remove, FilesInv, DiskTypes
  <2>4. ServeInv'
    BY <1>2, <1>3, <1>4, <2>1, <2>3 DEF ServeInv, Remove
  <2>5. OnlyCleanupInterferes'
    BY <1>2, <2>1 DEF OnlyCleanupInterferes
  <2> QED
    BY <1>1, <2>2, <2>4, <2>5
<1>5. ASSUME NEW d \in Dirs, RemoveDir(d) PROVE CacheInv'
  <2> DEFINE X == {f \in Files : DirOf[f] = d}
  <2>1. swept' = swept \cup {q \in Active : file[q] \in X}
    BY <1>5 DEF RemoveDir, Active, RequestsInv, RequestInv
  <2>2. RequestsInv'
    BY <1>2, <2>1, SweepRequests
  <2>3. UNCHANGED <<disk, tainted>> /\ dirs' = dirs \ {d}
    BY <1>5 DEF RemoveDir
  <2>4. ServeInv'
    BY <1>2, <1>3, <2>1, <2>3 DEF ServeInv
  <2>5. OnlyCleanupInterferes'
    BY <1>2, <2>1 DEF OnlyCleanupInterferes
  <2> QED
    BY <1>1, <2>2, <2>4, <2>5
<1>6. CASE \/ Wake \/ Walk \/ ReadDir \/ Sleep
           \/ \E f \in Files : Age(f) \/ RemoveFails(f) \/ Unlist(f)
  <2>1. UNCHANGED <<disk, dirs, swept>> /\ tainted \subseteq tainted'
    BY <1>6 DEF Wake, Walk, ReadDir, Sleep, Age, RemoveFails, Unlist
  <2>2. RequestsInv'
    BY <1>2, <2>1, RequestsStay
  <2>3. ServeInv' /\ OnlyCleanupInterferes'
    BY <1>2, <2>1 DEF ServeInv, OnlyCleanupInterferes
  <2> QED
    BY <1>1, <2>2, <2>3
<1> QED
  BY <1>4, <1>5, <1>6 DEF CleansUp

LEMMA RestartStep == ASSUME CacheInv, Restart PROVE CacheInv'
<1>1. RequestsInv' /\ FilesInv'
  BY RestartRequests, RestartFiles DEF CacheInv
<1>2. ServeInv' /\ OnlyCleanupInterferes'
  BY DEF Restart, ServeInv, OnlyCleanupInterferes
<1> QED
  BY <1>1, <1>2 DEF CacheInv

-----------------------------------------------------------------------------
LEMMA InvInit == Init => CacheInv
<1> SUFFICES ASSUME Init PROVE CacheInv
  OBVIOUS
<1> USE DEF Init
<1>1. RequestsInv
  BY DEF RequestsInv, RequestTypes, RequestInv, SingleFlight, Fetches, Fetching, RequestStates, Contents
<1>2. FilesInv
  BY DEF FilesInv, DiskTypes, FetchInv, CleanupInv, DiskInv, ListedIsWhole, Missed, Contents
<1>3. ServeInv /\ OnlyCleanupInterferes
  BY DEF ServeInv, OnlyCleanupInterferes
<1> QED
  BY <1>1, <1>2, <1>3 DEF CacheInv

LEMMA InvStep == CacheInv /\ [Next]_vars => CacheInv'
<1> SUFFICES ASSUME CacheInv, [Next]_vars PROVE CacheInv'
  OBVIOUS
<1>1. ASSUME NEW r \in Requests, FetchStep(r) \/ Stall(r) \/ Leave(r) \/ \E f \in Files : Ask(r, f)
      PROVE  CacheInv'
  <2>1. CASE \E f \in Files : Ask(r, f)
    BY <2>1, SimpleStep
  <2>2. CASE Check(r) \/ Serve(r) \/ Leave(r)
    <3>1. file[r] \in Files
      BY <2>2 DEF CacheInv, RequestsInv, RequestInv, Check, Serve, Leave
    <3> QED
      BY <2>2, <3>1, SimpleStep
  <2> QED
    BY <1>1, <2>1, <2>2, JoinStep, FetchStepMoves, LandingStep DEF FetchStep
<1>2. CASE UNCHANGED vars
  <2>1. UNCHANGED <<requests, swept, answer, pc, file>> /\ UNCHANGED filesVars
        /\ UNCHANGED <<disk, dirs, tainted>>
    BY <1>2 DEF vars, filesVars, requests, cleanup
  <2>2. RequestsInv'
    BY <2>1, RequestsStay DEF CacheInv
  <2>3. FilesInv'
    BY <2>1, FilesStay DEF CacheInv
  <2>4. ServeInv' /\ OnlyCleanupInterferes'
    BY <2>1 DEF CacheInv, ServeInv, OnlyCleanupInterferes
  <2> QED
    BY <2>2, <2>3, <2>4 DEF CacheInv
<1> QED
  BY <1>1, <1>2, CleanupStepInv, RestartStep DEF Next, CleanupStep, CleansUp

LEMMA InvAlways == Spec => []CacheInv
  BY InvInit, InvStep, PTL DEF Spec

\* The requests, the files and cleanup stay within their types, and who waits for a
\* download waits for one that is under way.
THEOREM TypeCorrect == Spec => []TypeOK
<1>1. CacheInv => TypeOK
  BY TypeParts DEF CacheInv, RequestsInv, FilesInv
<1> QED
  BY <1>1, InvAlways, PTL

\* Whoever finds a segment listed finds it whole, also while it is downloaded again
\* after cleanup has removed it.
THEOREM ListedCorrect == Spec => []ListedIsWhole
<1>1. CacheInv => ListedIsWhole
  BY DEF CacheInv, FilesInv
<1> QED
  BY <1>1, InvAlways, PTL

\* Requests never take a segment or its directory from each other: only cleanup does.
THEOREM InterferenceCorrect == Spec => []OnlyCleanupInterferes
<1>1. CacheInv => OnlyCleanupInterferes
  BY DEF CacheInv
<1> QED
  BY <1>1, InvAlways, PTL

\* No file on disk is forgotten but by a failure.
THEOREM NothingLost == Spec => []NothingForgotten
<1>1. CacheInv => NothingForgotten
  BY DEF CacheInv, FilesInv, DiskInv, Writes, NothingForgotten
<1> QED
  BY <1>1, InvAlways, PTL

\* What a viewer is served is the whole segment, but for what the origin did to its
\* last download and for what cleanup removed under the request.
THEOREM ServedCorrect == Spec => ServedAsDownloaded
<1> DEFINE Served == \A r \in Requests : answer'[r] \in {"part", "page"} /\ answer[r] = "none"
                        => file[r] \in tainted \/ r \in swept
<1>1. CacheInv /\ [Next]_vars => [Served]_vars
  <2> SUFFICES ASSUME CacheInv, Next, NEW r \in Requests,
                      answer'[r] \in {"part", "page"}, answer[r] = "none"
               PROVE  file[r] \in tainted \/ r \in swept
    OBVIOUS
  <2>1. Serve(r)
    BY DEF Next, FetchStep, Check, Join, StatFinds, StatMisses, Get, Create, CreateFails, FetchFails,
           List, Serve, Copy, Stall, Leave, Ask, Age, CleanupStep, Wake, Walk, ReadDir, Sleep, Remove,
           RemoveFails, Unlist, RemoveDir, Restart, Succeed, Fail, Answer, requests, CacheInv,
           RequestsInv, RequestTypes
  <2>2. answer'[r] = IF disk[file[r]] = "none" THEN "notFound" ELSE disk[file[r]]
    BY <2>1 DEF Serve, Answer, CacheInv, RequestsInv, RequestTypes
  <2>3. pc[r] = "serve" /\ file[r] \in Files
    BY <2>1 DEF Serve, CacheInv, RequestsInv, RequestInv
  <2> QED
    BY <2>2, <2>3 DEF CacheInv, ServeInv, FilesInv, DiskInv
<1> QED
  BY <1>1, InvAlways, PTL DEF Spec, ServedAsDownloaded
=============================================================================
