-------------------------------- MODULE Gallery --------------------------------
(***************************************************************************)
(* One person's gallery: a manifest in the public bucket, the copy of it   *)
(* that the process keeps for its visitors, and the panel that edits it.   *)
(* Bride's and groom's share a mutex held for an assignment at a time and  *)
(* nothing else, so that one of them is all there is to model.  One panel  *)
(* is open at a time: of two, the later save wins, and the code does not   *)
(* look.                                                                   *)
(*                                                                         *)
(* Time goes in ticks of which MissTTL and CacheTTL are multiples.  A      *)
(* fetch is limited to ten seconds, far below a tick: it may see one pass, *)
(* and not two.                                                            *)
(***************************************************************************)
EXTENDS Naturals

CONSTANTS
  Visitors, \* requests of the public feed that found no copy to answer with
  Contents, \* what a manifest may hold: the images it shows
  Missing,  \* no manifest; no posts
  Failed,   \* a fetch that ended in an error
  CacheTTL, \* how long a copy is served, in ticks
  MissTTL   \* how long a miss or a failure is

ASSUME TimesAssumption ==
  /\ CacheTTL \in Nat /\ MissTTL \in Nat
  /\ 0 < MissTTL /\ MissTTL <= CacheTTL

ASSUME ContentsAssumption ==
  /\ Missing \notin Contents /\ Failed \notin Contents
  /\ Missing # Failed

VARIABLES
  manifest, \* what the bucket has
  late,     \* saves that were given up and may still land
  cache,    \* the process's copy, a set of at most one entry
  visitor,  \* where each visitor's request is
  panel,    \* where the panel's is
  since,    \* history: ticks since the bucket last had each content
  fault     \* history: ticks since the bucket last failed or refused a visitor's fetch

gallery == <<manifest, late, cache, visitor, panel, since, fault>>

Posts   == Contents \cup {Missing}
Entries == [posts : Posts, failed : BOOLEAN, age : 0 .. CacheTTL]

\* Bound: histories count to the first tick at which no copy may be served.
Ticks == 0 .. CacheTTL + 1
Next1(n) == IF n > CacheTTL THEN n ELSE n + 1

NoVisit  == [at |-> "out", old |-> Missing, got |-> Missing, late |-> FALSE]
NoPanel  == [at |-> "closed", mine |-> {}, saved |-> {}]

GalleryInit ==
  /\ manifest \in Posts
  /\ late     = {}
  /\ cache    = {}
  /\ visitor  = [v \in Visitors |-> NoVisit]
  /\ panel    = NoPanel
  /\ since    = [c \in Posts |-> IF c = manifest THEN 0 ELSE CacheTTL + 1]
  /\ fault    = CacheTTL + 1

-----------------------------------------------------------------------------
\* Visitors.

TTL(e) == IF e.failed \/ e.posts = Missing THEN MissTTL ELSE CacheTTL

Served(e) == e.age < TTL(e)

Copy(c, failed) == {[posts |-> c, failed |-> failed, age |-> 0]}

\* Posts reads the cache.  A copy that may still be served is the answer, and
\* nothing changes: that case is left out here.
Lookup(v) ==
  /\ visitor[v].at = "out"
  /\ \A e \in cache : ~Served(e)
  /\ visitor' = [visitor EXCEPT ![v] =
       [NoVisit EXCEPT !.at = "fetch",
                       !.old = IF cache = {} THEN Missing ELSE (CHOOSE e \in cache : TRUE).posts]]
  /\ UNCHANGED <<manifest, late, cache, panel, since, fault>>

Fetched(v, c) == visitor' = [visitor EXCEPT ![v].at = "store", ![v].got = c]

\* The bucket answers with what it has; that it has none is a 4xx.
FetchAnswers(v) ==
  /\ visitor[v].at = "fetch"
  /\ Fetched(v, manifest)
  /\ UNCHANGED <<manifest, late, cache, panel, since, fault>>

\* Any other 4xx (refused, too many requests) is taken for no manifest too.
FetchRefused(v) ==
  /\ visitor[v].at = "fetch"
  /\ manifest # Missing
  /\ Fetched(v, Missing)
  /\ fault' = 0
  /\ UNCHANGED <<manifest, late, cache, panel, since>>

\* A 5xx, a body that is no manifest, the network or the time limit.
FetchFails(v) ==
  /\ visitor[v].at = "fetch"
  /\ Fetched(v, Failed)
  /\ fault' = 0
  /\ UNCHANGED <<manifest, late, cache, panel, since>>

\* Variant: the guest who triggered the fetch leaves, and with them the fetch.
StoreOrLeave(v) ==
  /\ visitor[v].at \in {"fetch", "store"}
  /\ LET q == visitor[v] IN
     cache' = IF q.at = "fetch" \/ q.got = Failed THEN Copy(q.old, TRUE) ELSE Copy(q.got, FALSE)
  /\ visitor' = [visitor EXCEPT ![v] = NoVisit]
  /\ UNCHANGED <<manifest, late, panel, since, fault>>

\* Whatever the fetch brought replaces the copy and is the answer; an error puts
\* the entry back that was read before the fetch.
Store(v) ==
  /\ visitor[v].at = "store"
  /\ LET q == visitor[v] IN
     cache' = IF q.got = Failed THEN Copy(q.old, TRUE) ELSE Copy(q.got, FALSE)
  /\ visitor' = [visitor EXCEPT ![v] = NoVisit]
  /\ UNCHANGED <<manifest, late, panel, since, fault>>

-----------------------------------------------------------------------------
\* The panel.

\* The panel's request is over; mine is the images that the panel was shown and
\* those it tried to save since.
Panel(at, mine) == panel' = [at |-> at, mine |-> mine, saved |-> {}]

\* Editable fetches past the cache.  A 4xx shows the panel an empty gallery, an
\* error leaves it as it was.
Editable ==
  /\ panel.at # "drop"
  /\ \/ manifest \in Contents /\ Panel("open", manifest)
     \/ Panel("open", {})
  /\ UNCHANGED <<manifest, late, cache, visitor, since, fault>>

\* The bucket holds c from now on.
Put(c) ==
  /\ manifest' = c
  /\ since' = [since EXCEPT ![c] = 0]

\* Replace's Upload, of a gallery that clean let pass.
Upload(c) ==
  /\ panel.at \in {"open", "saved"}
  /\ Put(c)
  /\ panel' = [at |-> "drop", mine |-> panel.mine \cup c, saved |-> c]
  /\ UNCHANGED <<late, cache, visitor, fault>>

\* Its error: the bucket took the gallery, may still take it, or never does; the
\* copy stays.
UploadFails(c) ==
  /\ panel.at \in {"open", "saved"}
  /\ \/ Put(c) /\ UNCHANGED late
     \/ late' \in {late, late \cup {c}} /\ UNCHANGED <<manifest, since>>
  /\ Panel("open", panel.mine \cup c)
  /\ UNCHANGED <<cache, visitor, fault>>

\* The bucket takes a gallery whose save the client gave up.
LandsLate(c) ==
  /\ c \in late
  /\ Put(c)
  /\ late' = late \ {c}
  /\ UNCHANGED <<cache, visitor, panel, fault>>

\* Replace drops the copy and answers.
DropCopy ==
  /\ panel.at = "drop"
  /\ cache' = {}
  /\ Panel("saved", panel.saved)
  /\ UNCHANGED <<manifest, late, visitor, since, fault>>

-----------------------------------------------------------------------------
\* A tick passes for everybody; a fetch sees one at most.
Tick ==
  /\ \A v \in Visitors : ~visitor[v].late
  /\ cache'   = {[e EXCEPT !.age = IF @ = CacheTTL THEN @ ELSE @ + 1] : e \in cache}
  /\ visitor' = [v \in Visitors |-> [visitor[v] EXCEPT !.late = visitor[v].at # "out"]]
  /\ since'   = [c \in Posts |-> IF c = manifest THEN 0 ELSE Next1(since[c])]
  /\ fault'   = Next1(fault)
  /\ UNCHANGED <<manifest, late, panel>>

\* The process starts over: its copy and its requests are gone.
GalleryRestart ==
  /\ cache'   = {}
  /\ visitor' = [v \in Visitors |-> NoVisit]
  /\ IF panel.at = "drop" THEN Panel("open", panel.mine) ELSE UNCHANGED panel
  /\ UNCHANGED <<manifest, late, since, fault>>

VisitorStep ==
  \E v \in Visitors :
    Lookup(v) \/ FetchAnswers(v) \/ FetchRefused(v) \/ FetchFails(v) \/ Store(v)

-----------------------------------------------------------------------------
\* Manifest, copy and requests have values the code can give them.
GalleryTypeOK ==
  /\ manifest \in Posts /\ late \subseteq Contents
  /\ cache \subseteq Entries /\ \A d, e \in cache : d = e
  /\ visitor \in [Visitors -> [at : {"out", "fetch", "store"}, old : Posts,
                               got : Posts \cup {Failed}, late : BOOLEAN]]
  /\ panel \in [at : {"closed", "open", "drop", "saved"}, mine : SUBSET UNION Contents,
               saved : SUBSET UNION Contents]
  /\ since \in [Posts -> Ticks]
  /\ fault \in Ticks

\* cacheTTL and missTTL: what visitors are shown was saved, or was what the
\* bucket lacked, at most so long ago, whatever was in flight when the panel
\* dropped the copy, whenever a save landed and in whatever order the fetches
\* ended; only a bucket that itself failed or refused a visitor's fetch within the
\* last missTTL may make it older, or show nothing.
StaleOnlyForATime ==
  \A e \in cache : Served(e) =>
    \/ ~e.failed /\ since[e.posts] <= TTL(e)
    \/ (e.failed \/ e.posts = Missing) /\ fault <= MissTTL

\* Replace's comment and the operation's description: once a save is answered
\* the site shows it, "immediately rather than at the end of the cache window".
ShownAtOnce ==
  \A e \in cache :
    panel.at = "saved" /\ Served(e) /\ ~e.failed => e.posts = manifest
=============================================================================
