------------------------------- MODULE ReadPath -------------------------------
(***************************************************************************)
(* What a search finds through a coordinator and a reader: the segment     *)
(* cache of reader/search.py, refreshed by reader/app.py, over the shared  *)
(* storage that the engine writes (LSMEngine) and the list of segments in  *)
(* etcd.                                                                   *)
(*                                                                         *)
(* Writer, coordinator and reader are processes: a refresh interleaves     *)
(* with the durable writes of the engine.  Inside the reader a refresh     *)
(* never suspends after GET /segments, so no search sees it half done: it  *)
(* works on `fetch` here and takes effect when it returns or raises.       *)
(*                                                                         *)
(* The list in etcd is kept by SegmentRegistry; here one run of it at a    *)
(* time unlists what the engine has dropped and lists what it has added.   *)
(***************************************************************************)
EXTENDS LSMEngine

CONSTANTS
  CacheSizes,  \* the values of max_segments_in_memory to look at
  MaxRestarts  \* bound: restarts of the reader

ASSUME ReadAssumption == CacheSizes \subseteq Nat \ {0} /\ MaxRestarts \in Nat

VARIABLES
  \* in etcd
  listed,      \* the segments under SEGMENT_PREFIX
  current,     \* SNAPSHOT_CURRENT
  \* the reader
  maxCached,   \* max_segments_in_memory
  serving,     \* the first refresh is complete
  cached,      \* SegmentCache._segments
  readerTombs, \* SegmentCache._tombstones
  indexed,     \* the segments _segment_hidden_ids was built from
  signature,   \* _visibility_signature, as the set it stands for
  fetch,       \* the refresh in progress
  restarts

registry == <<listed, current>>
cache == <<cached, readerTombs, indexed, signature>>
reader == <<maxCached, serving, cache, fetch, restarts>>
readVars == <<vars, registry, reader>>

NoFetch == [step |-> "idle", todo |-> {}, tombs |-> {}, got |-> {}]

Oldest(segs) == {s \in segs : \A t \in segs : ~Before(t, s)}

-----------------------------------------------------------------------------
(***************************************************************************)
(* SegmentCache.search_all: the vectors it can return under id i.          *)
(***************************************************************************)
HiddenIn(s, i) ==
  /\ s \in indexed
  /\ \E t \in Holding(indexed, i) : s.snap < t.snap

ReaderHits(snap, i) ==
  IF i \in readerTombs THEN {}
  ELSE {s.rows[i] : s \in {t \in Holding(cached, i) : t.snap <= snap /\ ~HiddenIn(t, i)}}

\* SegmentCache.ntotal, which looks at no index: distinct ids less tombstones.
ReaderTotal == Cardinality({i \in Ids \ readerTombs : Holding(cached, i) # {}})

\* _health_payload, with the answer of /ready.
ReaderHealth == [ready |-> serving, segments |-> cached, ntotal |-> ReaderTotal]

-----------------------------------------------------------------------------
(***************************************************************************)
(* The list of segments, and the snapshot at which a search is made.       *)
(***************************************************************************)
\* _current_snapshot_id of the coordinator.
CurrentSnapshot ==
  IF current > 0 \/ listed = {} THEN current
  ELSE CHOOSE n \in {s.snap : s \in listed} : \A s \in listed : s.snap <= n

Unlist ==
  /\ pc = "idle"
  /\ \E s \in Oldest(listed \ segments) : listed' = listed \ {s}
  /\ UNCHANGED <<current, reader>>

List ==
  /\ pc = "idle"
  /\ listed \subseteq segments
  /\ \E s \in Oldest(segments \ listed) :
       /\ listed' = listed \cup {s}
       /\ current' = IF current < s.snap THEN s.snap ELSE current
  /\ UNCHANGED reader

-----------------------------------------------------------------------------
(***************************************************************************)
(* _refresh_once and SegmentCache.refresh.                                 *)
(***************************************************************************)
GetSegments ==
  /\ fetch.step = "idle"
  /\ fetch' = [NoFetch EXCEPT !.step = "listed", !.todo = listed]
  /\ UNCHANGED <<registry, maxCached, serving, cache, restarts>>

\* The tombstones are read and unlisted segments are dropped.
LoadTombstones ==
  /\ fetch.step = "listed"
  /\ fetch' = [fetch EXCEPT !.step = "load", !.tombs = tombFile,
                            !.got = cached \cap fetch.todo]
  /\ UNCHANGED <<registry, maxCached, serving, cache, restarts>>

(***************************************************************************)
(* The listed segments are visited oldest first and each becomes the last  *)
(* of the cache's order; `todo` is what has not been visited.  A cache     *)
(* that is over its limit loses its first segment: one that has not been   *)
(* visited (searches reorder those, so any of them), or else the one       *)
(* visited first.                                                          *)
(***************************************************************************)

\* Mutant: popitem() takes the segment that was added last.
Evictable_Last(got, todo, s) ==
  IF Cardinality(got) < maxCached THEN {} ELSE {s}

Evictable(got, todo, s) ==
  IF Cardinality(got) < maxCached THEN {}
  ELSE IF got \cap todo # {} THEN got \cap todo
  ELSE Oldest(got \cup {s})

\* The next segment that is not in the cache is loaded; those before it, which
\* are, only move.
LoadSegment ==
  /\ fetch.step = "load"
  /\ \E s \in Oldest(fetch.todo \ fetch.got) :
       LET ahead == {t \in fetch.todo : Before(s, t)}
           out == Evictable(fetch.got, ahead, s)
       IN /\ s \in dirs
          /\ \E gone \in (IF out = {} THEN {{}} ELSE {{t} : t \in out}) :
               fetch' = [fetch EXCEPT !.todo = ahead,
                                      !.got = (@ \cup {s}) \ gone]
  /\ UNCHANGED <<registry, maxCached, serving, cache, restarts>>

Loaded == fetch.step = "load" /\ fetch.todo \subseteq fetch.got

\* The refresh raises: what it has changed stays, but a reader that has not
\* served yet ends and is started again.
Raise ==
  /\ fetch' = NoFetch
  /\ IF serving THEN cached' = fetch.got /\ readerTombs' = fetch.tombs
                ELSE UNCHANGED <<cached, readerTombs>>
  /\ UNCHANGED <<registry, maxCached, serving, indexed, restarts>>

\* The directory has gone: Segment.load raises.
LoadFails ==
  /\ fetch.step = "load"
  /\ \E s \in Oldest(fetch.todo \ fetch.got) : s \notin dirs
  /\ Raise
  /\ UNCHANGED signature

\* ids.npy of every segment that is not in the index yet is there.
IdsReadable == fetch.got \ indexed \subseteq dirs

\* Mutant: the hidden ids are built only once.
Reindexed_Once(got) == IF indexed # {} THEN indexed ELSE got

\* The hidden ids are built anew when the set of segments has changed.
Reindexed(got) == IF got = signature THEN indexed ELSE got

BuildIndex ==
  /\ Loaded
  /\ fetch.got = signature \/ IdsReadable
  /\ fetch' = NoFetch
  /\ serving' = TRUE
  /\ cached' = fetch.got /\ readerTombs' = fetch.tombs
  /\ signature' = fetch.got
  /\ indexed' = Reindexed(fetch.got)
  /\ UNCHANGED <<registry, maxCached, restarts>>

\* The signature is assigned before the ids are read.
BuildFails ==
  /\ Loaded
  /\ fetch.got # signature /\ ~IdsReadable
  /\ Raise
  /\ signature' = IF serving THEN fetch.got ELSE signature

\* The reader process dies and is started again.
ReaderRestart ==
  /\ restarts < MaxRestarts
  /\ restarts' = restarts + 1
  /\ fetch' = NoFetch /\ serving' = FALSE
  /\ cached' = {} /\ readerTombs' = {} /\ indexed' = {} /\ signature' = {}
  /\ UNCHANGED <<registry, maxCached>>

-----------------------------------------------------------------------------
ReadInit ==
  /\ Init
  /\ listed = {} /\ current = 0
  /\ maxCached \in CacheSizes
  /\ serving = FALSE
  /\ cached = {} /\ readerTombs = {} /\ indexed = {} /\ signature = {}
  /\ fetch = NoFetch /\ restarts = 0

Refresh == GetSegments \/ LoadTombstones \/ LoadSegment \/ LoadFails
             \/ BuildIndex \/ BuildFails

ReadNext ==
  \/ Next /\ UNCHANGED <<registry, reader>>
  \/ (Unlist \/ List \/ Refresh \/ ReaderRestart) /\ UNCHANGED vars

ReadSpec == ReadInit /\ [][ReadNext]_readVars

\* Engine operations end, the registration loop goes on, the refresh loop too.
FairReadSpec ==
  /\ ReadSpec
  /\ WF_readVars((Start \/ Work) /\ UNCHANGED <<registry, reader>>)
  /\ WF_readVars((Unlist \/ List) /\ UNCHANGED vars)
  /\ WF_readVars(Refresh /\ UNCHANGED vars)

-----------------------------------------------------------------------------
(***************************************************************************)
(* Properties.                                                             *)
(***************************************************************************)

\* When the writer has nothing left to do and nothing unflushed, the reader ends
\* up with the newest segments its cache can hold and nothing else, whatever
\* refreshes failed on the way.  If they all fit, it answers as the engine does,
\* the same vector under every id, and counts as many live ids; if not, what it
\* drops it no longer finds, but it never answers with an older version instead
\* (refresh, search_all, ntotal, LSMEngine.search).
ReaderConverges ==
  <>[](pc = "idle" /\ memtable = NoEntries)
    => <>[](/\ ReaderHealth.ready
            /\ \A i \in Ids : ReaderHits(CurrentSnapshot, i) \subseteq ServedHits(i)
            /\ ReaderHealth.segments \subseteq segments
            /\ Cardinality(ReaderHealth.segments) <= maxCached
            /\ \A s \in cached : {t \in segments : Before(s, t)} \subseteq cached
            /\ Cardinality(segments) <= maxCached =>
                 /\ \A i \in Ids : ReaderHits(CurrentSnapshot, i) = ServedHits(i)
                 /\ ReaderHealth.ntotal = Cardinality({i \in Ids : ServedHits(i) # {}}))

=============================================================================
